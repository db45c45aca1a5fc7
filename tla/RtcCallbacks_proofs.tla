------------------------ MODULE RtcCallbacks_proofs ------------------------
(***************************************************************************)
(* The table of callbacks, for a table of any size and any requests.       *)
(* First, a callback scheduled to run once runs at most once, as long as   *)
(* the interrupt never comes in the middle of an entry that is copied or   *)
(* exchanged.  Then, as long as it never comes in the middle of an         *)
(* operation, what the table holds and the alarm is set for, slot by slot  *)
(* through each operation; from that, that no callback runs early or after *)
(* its deletion and that none that is due before midnight is passed over;  *)
(* and that every value keeps the width of its C type.                     *)
(***************************************************************************)
EXTENDS RtcCallbacks, FiniteSetTheorems, TLAPS

-----------------------------------------------------------------------------
(* The inductive invariant.                                                *)

Entry == [id : Nat, unix_time : Nat, next_time : Nat, callback : 0 .. Requests]
Ran(r) == asked[r].runs > 0
Known(r) == asked[r].state # "none"

\* What is neither taken by Enter nor due in Loop.
Dead(entry) == entry.id = NULL_ID /\ entry.unix_time = NULL_UNIX_TIME

\* A taken entry that may still be in the table or come back to it.
Holds == isr.pc \in {"run", "remove", "again"}

\* main.entry is the entry being stored.
Storing == main.pc \in {"store", "sort", "count"}

\* The types the argument needs, without the bounds of TypeOK.
AskedType == [Request -> [state : {"none", "waiting", "over"}, id : Nat, left : Nat,
                          today : BOOLEAN, kills : BOOLEAN, runs : Nat]]

IsrType == [pc : {"out", "run", "remove", "again", "sample", "loop"}, entry : Entry,
            now : 0 .. Day - 1, first : BOOLEAN]

IShape ==
  /\ clock \in 0 .. Day - 1
  /\ callbacks \in [Index -> Entry] /\ id_counter \in Nat
  /\ main = [pc |-> main.pc, index |-> main.index, entry |-> main.entry]
  /\ Storing => main.entry \in Entry
  /\ cut.pc = "swapping" => cut.one \in Index /\ cut.other \in Index
  /\ isr \in IsrType
  /\ asked \in AskedType

\* Every entry is of a known request; one without a callback is an unused slot.
KnownAt(entries) ==
  \A i \in Index : IF entries[i].callback = 0 THEN Dead(entries[i]) ELSE Known(entries[i].callback)

\* A request has entries of one kind, and a one-shot request has one entry.
OnceAt(entries) ==
  \A i, j \in Index :
    entries[i].callback = entries[j].callback /\ entries[i].callback # 0 =>
      /\ entries[i].next_time = 0 <=> entries[j].next_time = 0
      /\ entries[i].next_time = 0 => i = j

\* The entries of the request of this entry are of its kind.
KindAt(entries, entry) ==
  \A i \in Index : entries[i].callback = entry.callback =>
    (entries[i].next_time = 0 <=> entry.next_time = 0)

Absent(entries, r) == \A i \in Index : entries[i].callback # r

\* A one-shot entry that ran is dead.
Spent(entry) == entry.callback # 0 /\ entry.next_time = 0 /\ Ran(entry.callback)
SettledAt(entries) == \A i \in Index : Spent(entries[i]) => Dead(entries[i])

AllDead(entries) == \A i \in Index : Dead(entries[i])

IKnown ==
  /\ \A r \in Request : Ran(r) => Known(r)
  /\ KnownAt(callbacks)
  /\ Holds => isr.entry.callback # 0 /\ Known(isr.entry.callback)

IOnce == OnceAt(callbacks) /\ (Holds => KindAt(callbacks, isr.entry))

\* A request about to be stored has no entry yet and has not run.
IStore ==
  main.pc = "store" =>
    /\ main.entry.callback # 0
    /\ Known(main.entry.callback) /\ ~Ran(main.entry.callback)
    /\ Absent(callbacks, main.entry.callback)
    /\ Holds => isr.entry.callback # main.entry.callback

\* The entry that runs is the first of the table until it is removed.
IFirst ==
  /\ isr.pc = "run" => callbacks[1] = isr.entry /\ ~Dead(isr.entry)
  /\ isr.pc = "remove" => callbacks[1] = isr.entry \/ AllDead(callbacks)
  /\ isr.pc = "again" => isr.entry.next_time # 0

\* Only the entry being removed ran and is not dead.
ISpent ==
  \A i \in Index :
    Spent(callbacks[i]) => Dead(callbacks[i]) \/ (isr.pc = "remove" /\ i = 1)

\* No one-shot callback ran twice.
Once == "twice" \notin wrongs

ITable == IKnown /\ IOnce /\ IStore /\ IFirst /\ ISpent
IInv == IShape /\ ITable /\ Once

\* No copy or exchange of an entry is half done.
Uncut == cut.words = 0 /\ cut.pc # "swapping"

\* What a torn entry leaves true.
Ind == IShape /\ (~torn => Uncut /\ IInv)

-----------------------------------------------------------------------------
(* Numbers, entries and rearrangements of the table.                       *)

LEMMA Sizes ==
  /\ TIMER_CALLBACK_ARRAY_SIZE \in Nat /\ TIMER_CALLBACK_ARRAY_SIZE >= 1
  /\ UINT32_MAX \in Nat /\ Day \in Nat /\ Day < UINT32_MAX /\ Day > 0
  /\ \A time \in 0 .. Day - 1, delta \in 1 .. Day : time + delta < UINT32_MAX
  /\ Requests \in Nat /\ 1 \in Index
  /\ Asked \subseteq [delta : 1 .. Day, continuous : BOOLEAN, kills : BOOLEAN]
  /\ CutWords \subseteq 1 .. 3
BY CallbacksAssumption DEF Index

LEMMA IsBefore ==
  ASSUME NEW a \in Nat, NEW b \in Nat
  PROVE  (a < b) \in BOOLEAN
OBVIOUS

LEMMA DummyDead == Dummy \in Entry /\ Dummy.callback = 0 /\ Dead(Dummy)
BY Sizes DEF Dummy, Entry, Dead, NULL_ID, NULL_UNIX_TIME

\* An entry erased, at once or in two halves, stays of its request and of its kind.
Worn(old, new) ==
  /\ new.callback = old.callback /\ new.next_time = old.next_time
  /\ Dead(old) => Dead(new)

LEMMA EntryWorn ==
  ASSUME NEW e \in Entry
  PROVE  /\ e.callback \in 0 .. Requests /\ e.next_time \in Nat
         /\ e.callback # 0 => e.callback \in Request
         /\ Erased(e) \in Entry /\ Worn(e, Erased(e)) /\ Dead(Erased(e))
         /\ [e EXCEPT !.id = NULL_ID] \in Entry /\ Worn(e, [e EXCEPT !.id = NULL_ID])
         /\ [e EXCEPT !.unix_time = NULL_UNIX_TIME] \in Entry
         /\ Worn(e, [e EXCEPT !.unix_time = NULL_UNIX_TIME])
         /\ Worn(e, e)
<1>1. /\ e.callback \in 0 .. Requests /\ e.next_time \in Nat
      /\ e.callback # 0 => e.callback \in Request
  BY Sizes DEF Entry, Request
<1>2. Erased(e) \in Entry /\ Worn(e, Erased(e)) /\ Dead(Erased(e))
  BY Sizes DEF Entry, Erased, Worn, Dead, NULL_ID, NULL_UNIX_TIME
<1>3. [e EXCEPT !.id = NULL_ID] \in Entry /\ Worn(e, [e EXCEPT !.id = NULL_ID])
  BY Sizes DEF Entry, Worn, Dead, NULL_ID
<1>4. /\ [e EXCEPT !.unix_time = NULL_UNIX_TIME] \in Entry
      /\ Worn(e, [e EXCEPT !.unix_time = NULL_UNIX_TIME])
  BY Sizes DEF Entry, Worn, Dead, NULL_UNIX_TIME
<1>5. Worn(e, e)
  BY DEF Worn
<1> QED BY <1>1, <1>2, <1>3, <1>4, <1>5

\* The entries of new are those of old in some order, some of them worn.
From(old, new) ==
  /\ old \in [Index -> Entry] /\ new \in [Index -> Entry]
  /\ \E p \in [Index -> Index] :
       /\ \A i, j \in Index : p[i] = p[j] => i = j
       /\ \A i \in Index : Worn(old[p[i]], new[i])

\* Entries worn where they stand.
LEMMA WornInPlace ==
  ASSUME NEW old \in [Index -> Entry], NEW new \in [Index -> Entry],
         \A i \in Index : Worn(old[i], new[i])
  PROVE  From(old, new)
<1> DEFINE p == [i \in Index |-> i]
<1>1. p \in [Index -> Index] /\ \A i \in Index : p[i] = i
  OBVIOUS
<1> HIDE DEF p
<1> QED BY <1>1 DEF From

\* Another order.
LEMMA Ordered ==
  ASSUME NEW old \in [Index -> Entry], NEW new \in Orders(old)
  PROVE  From(old, new)
<1>1. PICK p \in Bijection(Index, Index) : new = [i \in Index |-> old[p[i]]]
  BY DEF Orders
<1>2. p \in [Index -> Index] /\ \A i, j \in Index : p[i] = p[j] => i = j
  BY DEF Bijection, Injection, IsInjective
<1>3. new \in [Index -> Entry] /\ \A i \in Index : new[i] = old[p[i]]
  BY <1>1, <1>2
<1>4. \A i \in Index : Worn(old[p[i]], new[i])
  BY <1>2, <1>3, EntryWorn
<1> QED BY <1>2, <1>3, <1>4 DEF From

\* qsort puts the entries in another order.
LEMMA Sorted ==
  ASSUME NEW old \in [Index -> Entry], NEW new \in qsort(old)
  PROVE  From(old, new)
<1>1. new \in Orders(old)
  BY DEF qsort, Orders
<1> QED BY <1>1, Ordered

\* The words of two entries make an entry; none of the first make the second.
LEMMA Worded ==
  ASSUME NEW words, NEW a \in Entry, NEW b \in Entry
  PROVE  Words(words, a, b) \in Entry /\ Words(0, a, b) = b
<1>1. Words(words, a, b) \in Entry
  BY DEF Words, Entry
<1>2. Words(0, a, b) = b
  BY DEF Words, Entry
<1> QED BY <1>1, <1>2

LEMMA FromFrom ==
  ASSUME NEW a, NEW b, NEW c, From(a, b), From(b, c)
  PROVE  From(a, c)
<1>1. PICK p \in [Index -> Index] :
         /\ \A i, j \in Index : p[i] = p[j] => i = j
         /\ \A i \in Index : Worn(a[p[i]], b[i])
  BY DEF From
<1>2. PICK q \in [Index -> Index] :
         /\ \A i, j \in Index : q[i] = q[j] => i = j
         /\ \A i \in Index : Worn(b[q[i]], c[i])
  BY DEF From
<1> DEFINE r == [i \in Index |-> p[q[i]]]
<1>3. r \in [Index -> Index] /\ \A i \in Index : r[i] = p[q[i]]
  OBVIOUS
<1> HIDE DEF r
<1>4. \A i, j \in Index : r[i] = r[j] => i = j
  BY <1>1, <1>2, <1>3
<1>5. \A i \in Index : Worn(a[r[i]], c[i])
  BY <1>1, <1>2, <1>3 DEF Worn
<1> QED BY <1>3, <1>4, <1>5 DEF From

\* What is true of the entries stays true when they are rearranged.
LEMMA FromKeeps ==
  ASSUME NEW a, NEW b, From(a, b)
  PROVE  /\ b \in [Index -> Entry]
         /\ KnownAt(a) => KnownAt(b)
         /\ OnceAt(a) => OnceAt(b)
         /\ SettledAt(a) => SettledAt(b)
         /\ AllDead(a) => AllDead(b)
         /\ \A r : Absent(a, r) => Absent(b, r)
         /\ \A e : KindAt(a, e) => KindAt(b, e)
<1>1. PICK p \in [Index -> Index] :
         /\ \A i, j \in Index : p[i] = p[j] => i = j
         /\ \A i \in Index : Worn(a[p[i]], b[i])
  BY DEF From
<1>2. \A i \in Index : /\ p[i] \in Index
                       /\ b[i].callback = a[p[i]].callback /\ b[i].next_time = a[p[i]].next_time
                       /\ Dead(a[p[i]]) => Dead(b[i])
  BY <1>1 DEF Worn
<1>3. b \in [Index -> Entry]
  BY DEF From
<1>4. KnownAt(a) => KnownAt(b)
  BY <1>2 DEF KnownAt
<1>5. OnceAt(a) => OnceAt(b)
  BY <1>1, <1>2 DEF OnceAt
<1>6. SettledAt(a) => SettledAt(b)
  BY <1>2 DEF SettledAt, Spent
<1>7. AllDead(a) => AllDead(b)
  BY <1>2 DEF AllDead
<1>8. ASSUME NEW r PROVE Absent(a, r) => Absent(b, r)
  BY <1>2 DEF Absent
<1>9. ASSUME NEW e PROVE KindAt(a, e) => KindAt(b, e)
  BY <1>2 DEF KindAt
<1> QED BY <1>3, <1>4, <1>5, <1>6, <1>7, <1>8, <1>9

\* The requests change without one being forgotten or run.
Grows(old, new) ==
  /\ new \in AskedType
  /\ \A r \in Request : new[r].runs = old[r].runs
  /\ \A r \in Request : old[r].state # "none" => new[r].state # "none"

LEMMA GrowsKeeps ==
  ASSUME Grows(asked, asked')
  PROVE  \A r \in Request : (Ran(r)' <=> Ran(r)) /\ (Known(r) => Known(r)')
BY DEF Grows, Ran, Known

LEMMA SameAsked == ASSUME IInv PROVE Grows(asked, asked)
BY DEF Grows, IInv, IShape

-----------------------------------------------------------------------------
(* The types, torn entries or not.                                         *)

\* What the invariant says of the parts.
LEMMA ShapeParts ==
  ASSUME IShape
  PROVE  /\ callbacks \in [Index -> Entry] /\ id_counter \in Nat /\ clock \in 0 .. Day - 1
         /\ main = [pc |-> main.pc, index |-> main.index, entry |-> main.entry]
         /\ Storing => main.entry \in Entry
         /\ asked \in AskedType
         /\ isr \in IsrType
         /\ cut.pc = "swapping" => cut.one \in Index /\ cut.other \in Index
BY DEF IShape

LEMMA Parts ==
  ASSUME IInv
  PROVE  /\ callbacks \in [Index -> Entry] /\ id_counter \in Nat /\ clock \in 0 .. Day - 1
         /\ main = [pc |-> main.pc, index |-> main.index, entry |-> main.entry]
         /\ Storing => main.entry \in Entry
         /\ asked \in AskedType
         /\ isr \in IsrType
BY DEF IInv, IShape

LEMMA Rest ==
  /\ Resting = [pc |-> Resting.pc, index |-> Resting.index, entry |-> Resting.entry]
  /\ Resting.pc = "idle" /\ Resting.entry \in Entry
BY DummyDead DEF Resting

\* What a step of the main thread has to show for the types.
LEMMA MainShapes ==
  ASSUME IShape, UNCHANGED <<clock, isr>>, cut' \in {cut, NoCut, [NoCut EXCEPT !.pc = "sorting"]},
         callbacks' \in [Index -> Entry], id_counter' \in Nat, asked' \in AskedType,
         main' = [pc |-> main'.pc, index |-> main'.index, entry |-> main'.entry],
         main'.pc \in {"store", "sort", "count"} => main'.entry \in Entry
  PROVE  IShape'
<1>1. cut'.pc = "swapping" => cut'.one \in Index /\ cut'.other \in Index
  BY DEF IShape, NoCut
<1> QED BY <1>1 DEF IShape, Storing

\* rtc_deleteAllEntries, whoever calls it.
LEMMA ErasedAll ==
  ASSUME callbacks \in [Index -> Entry]
  PROVE  From(callbacks, AllErased) /\ AllDead(AllErased) /\ AllErased \in [Index -> Entry]
<1>1. /\ AllErased \in [Index -> Entry]
      /\ \A i \in Index : AllErased[i] = Erased(callbacks[i]) /\ callbacks[i] \in Entry
  BY EntryWorn DEF AllErased
<1>2. ASSUME NEW i \in Index PROVE Worn(callbacks[i], AllErased[i]) /\ Dead(AllErased[i])
  BY <1>1, EntryWorn
<1> QED BY <1>1, <1>2, WornInPlace DEF AllDead

LEMMA AllOverKeeps ==
  ASSUME NEW requests \in AskedType
  PROVE  Grows(requests, AllOver(requests))
BY DEF AllOver, AskedType, Grows

\* A sort, cut before or not, rearranges.
LEMMA FinishSorts ==
  ASSUME callbacks \in [Index -> Entry], FinishSort
  PROVE  From(callbacks, callbacks') /\ cut' = NoCut
BY Ordered, Sorted DEF FinishSort, SortAndSetAlarm

LEMMA ScheduleShape ==
  ASSUME IShape, NEW request \in Asked, Schedule(request)
  PROVE  IShape'
<1>1. PICK r \in Request :
         /\ main' = [pc |-> "store", index |-> Min(Holding(NULL_ID)),
                     entry |-> [id |-> NULL_ID, unix_time |-> clock + request.delta,
                                next_time |-> next_time(request), callback |-> r]]
         /\ asked' = [asked EXCEPT ![r] = [@ EXCEPT !.state = "waiting", !.left = request.delta,
                                             !.today = clock + request.delta < Day,
                                             !.kills = request.kills]]
  BY DEF Schedule
<1>2. UNCHANGED <<clock, callbacks, id_counter, isr, cut>>
  BY DEF Schedule, table
<1>3. request.delta \in Nat /\ request.kills \in BOOLEAN /\ clock \in Nat
  BY Sizes, ShapeParts
<1>4. next_time(request) \in Nat
  BY <1>3 DEF next_time
<1>5. /\ main'.pc = "store" /\ main'.entry \in Entry
      /\ main' = [pc |-> main'.pc, index |-> main'.index, entry |-> main'.entry]
  BY <1>1, <1>3, <1>4, Sizes DEF Entry, NULL_ID, Request
<1>6. asked' \in AskedType
  <2> DEFINE today == clock + request.delta < Day
  <2>1. today \in BOOLEAN
    BY <1>3, Sizes, IsBefore
  <2>2. asked' = [asked EXCEPT ![r] = [@ EXCEPT !.state = "waiting", !.left = request.delta,
                                                !.today = today, !.kills = request.kills]]
    BY <1>1
  <2> HIDE DEF today
  <2>3. asked \in AskedType
    BY ShapeParts
  <2> QED BY <1>3, <2>1, <2>2, <2>3 DEF AskedType
<1> QED BY <1>2, <1>5, <1>6, ShapeParts, MainShapes

LEMMA StoreShape == ASSUME IShape, StoreEntry PROVE IShape'
<1> DEFINE old == callbacks[main.index]
<1>1. /\ main.pc = "store" /\ UNCHANGED <<clock, id_counter, isr, asked>> /\ cut' = NoCut
      /\ main' = [main EXCEPT !.pc = "sort", !.index = 1, !.entry = Numbered]
      /\ callbacks' = [callbacks EXCEPT ![main.index] = Words(cut.words, old, Numbered)]
  BY DEF StoreEntry, history
<1>2. Numbered \in Entry
  BY <1>1, ShapeParts DEF Storing, Numbered, Entry
<1>3. /\ main' = [pc |-> "sort", index |-> 1, entry |-> Numbered]
  BY <1>1, ShapeParts
<1>4. callbacks' \in [Index -> Entry]
  <2>1. CASE main.index \in Index
    <3>1. Words(cut.words, old, Numbered) \in Entry
      BY <1>2, <2>1, ShapeParts, Worded
    <3> QED BY <1>1, <3>1, ShapeParts
  <2>2. CASE main.index \notin Index
    BY <1>1, <2>2, ShapeParts
  <2> QED BY <2>1, <2>2
<1> QED BY <1>1, <1>2, <1>3, <1>4, ShapeParts, MainShapes

LEMMA SortsShape == ASSUME IShape, SortStored \/ SortErased PROVE IShape'
<1>1. callbacks' \in [Index -> Entry] /\ cut' = NoCut
  BY ShapeParts, FinishSorts, FromKeeps DEF SortStored, SortErased
<1>2. CASE SortStored
  <2>1. /\ main' = [main EXCEPT !.pc = "count"] /\ UNCHANGED <<clock, id_counter, isr, asked>>
    BY <1>2 DEF SortStored, history
  <2>2. main' = [pc |-> "count", index |-> main.index, entry |-> main.entry]
    BY <2>1, ShapeParts
  <2>3. main.entry \in Entry
    BY <1>2, ShapeParts DEF SortStored, Storing
  <2> QED BY <1>1, <2>1, <2>2, <2>3, ShapeParts, MainShapes
<1>3. CASE SortErased
  <2>1. /\ main' = Resting /\ UNCHANGED <<clock, id_counter, isr>>
        /\ asked' = asked \/ asked' = [asked EXCEPT ![main.entry.callback].state = "over"]
    BY <1>3 DEF SortErased
  <2>2. asked' \in AskedType
    <3>1. asked \in AskedType
      BY ShapeParts
    <3> QED BY <2>1, <3>1 DEF AskedType
  <2> QED BY <1>1, <2>1, <2>2, ShapeParts, Rest, MainShapes
<1> QED BY <1>2, <1>3

LEMMA SwapShape == ASSUME IShape, Swap PROVE IShape'
<1>1. /\ cut.one \in Index /\ cut.other \in Index
      /\ callbacks' = [callbacks EXCEPT
                        ![cut.one] = Words(cut.words, callbacks[cut.one], callbacks[cut.other]),
                        ![cut.other] = Words(cut.words, callbacks[cut.other], callbacks[cut.one])]
      /\ cut' = [NoCut EXCEPT !.pc = "sorting"]
      /\ UNCHANGED <<clock, id_counter, main, isr, asked>>
  BY ShapeParts DEF Swap, history
<1>2. callbacks' \in [Index -> Entry]
  <2>1. /\ Words(cut.words, callbacks[cut.one], callbacks[cut.other]) \in Entry
        /\ Words(cut.words, callbacks[cut.other], callbacks[cut.one]) \in Entry
    BY <1>1, ShapeParts, Worded
  <2> QED BY <1>1, <2>1, ShapeParts
<1> QED BY <1>1, <1>2, ShapeParts, MainShapes DEF Storing

LEMMA CountShape == ASSUME IShape, CountId PROVE IShape'
<1>1. /\ main' = Resting /\ id_counter' = id_counter + 1
      /\ asked' = [asked EXCEPT ![main.entry.callback].id = main.entry.id]
      /\ UNCHANGED <<clock, callbacks, isr, cut>>
  BY DEF CountId, next_id
<1>2. main.entry.id \in Nat
  BY ShapeParts DEF Entry, CountId, Storing
<1>3. asked' \in AskedType
  <2> DEFINE id == main.entry.id
             q == main.entry.callback
  <2>1. asked' = [asked EXCEPT ![q].id = id] /\ id \in Nat /\ asked \in AskedType
    BY <1>1, <1>2, ShapeParts
  <2> HIDE DEF id, q
  <2> QED BY <2>1 DEF AskedType
<1> QED BY <1>1, <1>3, ShapeParts, Rest, MainShapes

LEMMA DeleteShape == ASSUME IShape, NEW id, Delete(id) PROVE IShape'
<1>1. /\ UNCHANGED <<clock, callbacks, id_counter, isr, asked, cut>>
      /\ \/ main' = main
         \/ main' = [pc |-> "clear", index |-> Min(Holding(id)), entry |-> Dummy]
  BY DEF Delete, table
<1>2. /\ main' = [pc |-> main'.pc, index |-> main'.index, entry |-> main'.entry]
      /\ main'.pc \in {"idle", "clear"}
  BY <1>1, ShapeParts DEF Delete
<1> QED BY <1>1, <1>2, ShapeParts, MainShapes

LEMMA ClearShape == ASSUME IShape, ClearId \/ ClearTime PROVE IShape'
<1>1. /\ UNCHANGED <<clock, id_counter, isr, asked, cut>>
      /\ \/ callbacks' = [callbacks EXCEPT ![main.index].id = NULL_ID]
         \/ callbacks' = [callbacks EXCEPT ![main.index].unix_time = NULL_UNIX_TIME]
  BY DEF ClearId, ClearTime, history
<1>2. callbacks' \in [Index -> Entry]
  BY <1>1, ShapeParts, Sizes DEF Entry, NULL_ID, NULL_UNIX_TIME
<1>3. /\ main' = [pc |-> main'.pc, index |-> main'.index, entry |-> main'.entry]
      /\ main'.pc \in {"clear_time", "resort"}
  <2>1. CASE ClearId
    BY <2>1, ShapeParts DEF ClearId
  <2>2. CASE ClearTime
    BY <2>2, ShapeParts DEF ClearTime
  <2> QED BY <2>1, <2>2
<1> QED BY <1>1, <1>2, <1>3, ShapeParts, MainShapes

LEMMA DeleteAllShape == ASSUME IShape, DeleteAll \/ Disarm PROVE IShape'
<1>1. CASE DeleteAll
  <2>1. /\ UNCHANGED <<clock, id_counter, isr, asked, cut>> /\ callbacks' = AllErased
        /\ main' = [pc |-> "disarm", index |-> Resting.index, entry |-> Resting.entry]
    BY <1>1, Rest DEF DeleteAll
  <2> QED BY <2>1, ShapeParts, ErasedAll, MainShapes
<1>2. CASE Disarm
  <2>1. /\ UNCHANGED <<clock, callbacks, id_counter, isr, cut>>
        /\ asked' = AllOver(asked) /\ main' = Resting
    BY <1>2 DEF Disarm, table
  <2>2. asked' \in AskedType
    <3>1. asked \in AskedType
      BY ShapeParts
    <3> QED BY <2>1, <3>1, AllOverKeeps DEF Grows
  <2> QED BY <2>1, <2>2, ShapeParts, Rest, MainShapes
<1> QED BY <1>1, <1>2

\* The interrupt comes wherever it may cut.
LEMMA EnterShape == ASSUME IShape, Enter PROVE IShape'
<1>1. UNCHANGED <<clock, id_counter, asked>>
  BY DEF Enter
<1>2. CASE UNCHANGED <<callbacks, thread, isr, cuts, torn>>
  BY <1>1, <1>2 DEF IShape, Storing, thread
<1>3. CASE Cut /\ Take(callbacks'[1])
  <2>1. /\ callbacks' \in [Index -> Entry]
        /\ main' = [pc |-> main.pc, index |-> main.index, entry |-> main'.entry]
        /\ Storing => main'.entry \in Entry
        /\ cut'.pc = "swapping" => cut'.one \in Index /\ cut'.other \in Index
    <3>1. CASE UNCHANGED <<callbacks, main, cut, cuts>>
      BY <3>1, ShapeParts
    <3>2. CASE CutCopy
      <4>1. Numbered \in Entry /\ main' = [pc |-> main.pc, index |-> main.index, entry |-> Numbered]
        BY <3>2, ShapeParts DEF CutCopy, Storing, Numbered, Entry
      <4>2. PICK words :
              /\ cut' = [NoCut EXCEPT !.pc = "copying", !.words = words]
              /\ callbacks' = [callbacks EXCEPT ![main.index] = Words(words, Numbered, @)]
        BY <3>2 DEF CutCopy
      <4>3. callbacks' \in [Index -> Entry]
        <5>1. \A i \in Index : Words(words, Numbered, callbacks[i]) \in Entry
          BY <4>1, ShapeParts, Worded
        <5> QED BY <4>2, <5>1, ShapeParts
      <4> QED BY <4>1, <4>2, <4>3 DEF NoCut
    <3>3. CASE CutSort
      <4>1. callbacks' \in [Index -> Entry]
        BY <3>3, ShapeParts, Ordered, FromKeeps DEF CutSort
      <4> QED BY <3>3, <4>1, ShapeParts DEF CutSort, NoCut
    <3>4. CASE CutSwap
      <4>1. PICK entries \in Orders(callbacks), i \in Index, j \in Index, words \in CutWords :
              /\ cut' = [pc |-> "swapping", words |-> words, one |-> i, other |-> j]
              /\ callbacks' = [entries EXCEPT ![i] = Words(words, entries[j], entries[i]),
                                              ![j] = Words(words, entries[i], entries[j])]
        BY <3>4 DEF CutSwap
      <4>2. entries \in [Index -> Entry]
        BY ShapeParts, Ordered, FromKeeps
      <4>3. /\ Words(words, entries[j], entries[i]) \in Entry
            /\ Words(words, entries[i], entries[j]) \in Entry
        BY <4>2, Worded
      <4>4. callbacks' \in [Index -> Entry]
        BY <4>1, <4>2, <4>3
      <4> QED BY <3>4, <4>1, <4>4, ShapeParts DEF CutSwap
    <3> QED BY <1>3, <3>1, <3>2, <3>3, <3>4 DEF Cut
  <2>2. isr' \in IsrType
    BY <1>3, <2>1, ShapeParts, Sizes DEF Take, IsrType
  <2> QED BY <1>1, <2>1, <2>2, ShapeParts DEF IShape, Storing
<1> QED BY <1>2, <1>3 DEF Enter

LEMMA RunCallbackShape == ASSUME IShape, RunCallback PROVE IShape'
<1> DEFINE r == isr.entry.callback
           ran == [asked EXCEPT ![r].runs = 1,
                                ![r].state = IF isr.entry.next_time = 0 THEN "over" ELSE @]
<1>1. /\ isr' = [isr EXCEPT !.pc = "remove"] /\ UNCHANGED <<clock, id_counter, main, cut>>
      /\ callbacks' = callbacks \/ callbacks' = AllErased
      /\ asked' = ran \/ asked' = AllOver(ran)
  BY DEF RunCallback, thread
<1>2. ran \in AskedType
  <2> DEFINE state == IF isr.entry.next_time = 0 THEN "over" ELSE asked[r].state
             now == [asked[r] EXCEPT !.runs = 1, !.state = state]
             Kept == [state : {"none", "waiting", "over"}, id : Nat, left : Nat,
                      today : BOOLEAN, kills : BOOLEAN, runs : Nat]
  <2>1. asked \in [Request -> Kept]
    BY ShapeParts DEF AskedType
  <2>2. ran = [asked EXCEPT ![r] = now]
    BY <2>1
  <2>3. ASSUME r \in Request PROVE now \in Kept
    <3>1. asked[r] \in Kept
      BY <2>1, <2>3
    <3>2. state \in {"none", "waiting", "over"}
      BY <3>1
    <3> HIDE DEF state
    <3> QED BY <3>1, <3>2
  <2> HIDE DEF ran, now, Kept
  <2>4. [asked EXCEPT ![r] = now] \in [Request -> Kept]
    BY <2>1, <2>3
  <2> QED BY <2>2, <2>4 DEF AskedType, Kept
<1> HIDE DEF ran
<1>3. asked' \in AskedType
  BY <1>1, <1>2, AllOverKeeps DEF Grows
<1>4. callbacks' \in [Index -> Entry]
  BY <1>1, ShapeParts, ErasedAll
<1>5. isr' \in IsrType
  BY <1>1, ShapeParts DEF IsrType
<1> QED BY <1>1, <1>3, <1>4, <1>5, ShapeParts DEF IShape, Storing

\* Where the interrupt goes when it is done with an entry.
LEMMA Continued ==
  ASSUME IShape
  PROVE  Continue \in IsrType /\ Continue.pc \in {"sample", "loop"}
BY ShapeParts, DummyDead DEF Continue, IsrType

LEMMA RemoveShape == ASSUME IShape, Remove PROVE IShape'
<1> DEFINE erased == [callbacks EXCEPT ![Min(Holding(isr.entry.id))] = Erased(@)]
<1>1. /\ UNCHANGED <<clock, id_counter, main, cut, asked>>
      /\ callbacks' = callbacks \/ callbacks' \in qsort(erased)
      /\ isr' = [isr EXCEPT !.pc = "again"] \/ isr' = Continue
  BY DEF Remove, SortAndSetAlarm, history, thread
<1>2. erased \in [Index -> Entry]
  BY ShapeParts, EntryWorn
<1> HIDE DEF erased
<1>3. callbacks' \in [Index -> Entry]
  BY <1>1, <1>2, ShapeParts, Sorted, FromKeeps
<1>4. isr' \in IsrType
  <2>1. [isr EXCEPT !.pc = "again"] \in IsrType
    BY ShapeParts DEF IsrType
  <2> QED BY <1>1, <2>1, Continued
<1> QED BY <1>1, <1>3, <1>4, ShapeParts DEF IShape, Storing

LEMMA AgainShape == ASSUME IShape, Again PROVE IShape'
<1> DEFINE e == isr.entry
           new == [[e EXCEPT !.unix_time = @ + e.next_time] EXCEPT !.id = id_counter]
           inserted == [callbacks EXCEPT ![Min(Holding(NULL_ID))] = new]
<1>1. /\ UNCHANGED <<clock, main, cut, asked>> /\ isr' = Continue
      /\ \/ callbacks' \in qsort(inserted) /\ id_counter' = id_counter + 1
         \/ callbacks' = callbacks /\ id_counter' = id_counter
  BY DEF Again, history, table, thread, Insert, SortAndSetAlarm, next_id
<1>2. new \in Entry
  <2>1. e \in Entry /\ id_counter \in Nat
    BY ShapeParts DEF IsrType
  <2>2. e.unix_time + e.next_time \in Nat
    BY <2>1 DEF Entry
  <2> HIDE DEF e
  <2> QED BY <2>1, <2>2 DEF Entry
<1> HIDE DEF new
<1>3. inserted \in [Index -> Entry]
  BY <1>2, ShapeParts
<1> HIDE DEF inserted
<1>4. callbacks' \in [Index -> Entry] /\ id_counter' \in Nat
  BY <1>1, <1>3, ShapeParts, Sorted, FromKeeps
<1> QED BY <1>1, <1>4, Continued, ShapeParts DEF IShape, Storing

LEMMA LoopShape == ASSUME IShape, Sample \/ Loop \/ Leave PROVE IShape'
<1>1. /\ UNCHANGED <<clock, callbacks, id_counter, main, cut, asked>>
      /\ isr' \in {[isr EXCEPT !.pc = "loop", !.first = FALSE, !.now = clock],
                   [isr EXCEPT !.pc = "run", !.entry = callbacks[1]], Outside}
  BY DEF Sample, Loop, Leave, Take, table, thread, history
<1>2. /\ [isr EXCEPT !.pc = "loop", !.first = FALSE, !.now = clock] \in IsrType
      /\ [isr EXCEPT !.pc = "run", !.entry = callbacks[1]] \in IsrType
  BY ShapeParts, Sizes DEF IsrType
<1>3. Outside \in IsrType
  BY DummyDead, Sizes DEF Outside, IsrType
<1> QED BY <1>1, <1>2, <1>3, ShapeParts DEF IShape, Storing

LEMMA TickShape == ASSUME IShape, Tick PROVE IShape'
<1>1. /\ UNCHANGED <<callbacks, id_counter, main, cut, isr>> /\ clock' = (clock + 1) % Day
      /\ asked' = [r \in Request |-> [asked[r] EXCEPT !.left = IF @ = 0 THEN 0 ELSE @ - 1]]
  BY DEF Tick, table, thread
<1>2. clock' \in 0 .. Day - 1
  BY <1>1, Sizes, ShapeParts
<1>3. asked' \in AskedType
  <2>1. asked \in AskedType
    BY ShapeParts
  <2>2. asked' \in AskedType /\ \A r \in Request : asked'[r].runs = asked[r].runs
    BY <1>1, <2>1 DEF AskedType
  <2> QED BY <2>2
<1> QED BY <1>1, <1>2, <1>3, ShapeParts DEF IShape, Storing

LEMMA ShapeStep == ASSUME IShape, [Next]_vars PROVE IShape'
<1>1. CASE UNCHANGED vars
  BY <1>1 DEF vars, table, thread, history, IShape, Storing
<1> QED BY <1>1, ScheduleShape, StoreShape, SortsShape, SwapShape, CountShape, DeleteShape,
           ClearShape, DeleteAllShape, EnterShape, RunCallbackShape, RemoveShape, AgainShape,
           LoopShape, TickShape DEF Next, Caller, Main, Interrupt

-----------------------------------------------------------------------------
(* The main thread: the interrupt is out.                                  *)

\* A step that rearranges the table and makes no request known or run anew.
LEMMA MainKeeps ==
  ASSUME IInv, IShape', isr.pc = "out", isr' = isr, wrongs' = wrongs,
         From(callbacks, callbacks'),
         Grows(asked, asked'),
         main'.pc # "store" \/ main' = main
  PROVE  IInv'
<1>1. /\ KnownAt(callbacks) /\ OnceAt(callbacks) /\ SettledAt(callbacks) /\ ~Holds'
      /\ \A r \in Request : Ran(r) => Known(r)
      /\ Once /\ IStore
  BY DEF IInv, ITable, IKnown, IOnce, ISpent, SettledAt, Holds
<1>2. KnownAt(callbacks') /\ OnceAt(callbacks') /\ SettledAt(callbacks')
  BY <1>1, FromKeeps
<1>3. \A i \in Index : callbacks'[i].callback # 0 => callbacks'[i].callback \in Request
  BY EntryWorn DEF IShape
<1>4. IKnown'
  BY <1>1, <1>2, <1>3, GrowsKeeps DEF IKnown, KnownAt
<1>5. IOnce'
  BY <1>1, <1>2 DEF IOnce
<1>6. ISpent'
  BY <1>2, <1>3, GrowsKeeps DEF ISpent, SettledAt, Spent
<1>7. IStore'
  <2>1. CASE main'.pc # "store"
    BY <2>1 DEF IStore
  <2>2. CASE main' = main /\ main.pc = "store"
    <3>1. /\ main.entry.callback # 0 /\ main.entry.callback \in Request
          /\ Known(main.entry.callback) /\ ~Ran(main.entry.callback)
          /\ Absent(callbacks', main.entry.callback)
      <4>1. main.entry \in Entry
        BY <2>2 DEF IInv, IShape, Storing
      <4>2. /\ main.entry.callback # 0 /\ Known(main.entry.callback)
            /\ ~Ran(main.entry.callback) /\ Absent(callbacks, main.entry.callback)
        BY <1>1, <2>2 DEF IStore
      <4>3. Absent(callbacks', main.entry.callback)
        BY <4>2, FromKeeps
      <4>4. main.entry.callback \in Request
        BY <4>1, <4>2, EntryWorn
      <4> QED BY <4>2, <4>3, <4>4
    <3> QED BY <1>1, <2>2, <3>1, GrowsKeeps DEF IStore, Absent
  <2> QED BY <2>1, <2>2
<1>8. IFirst' /\ Once'
  BY <1>1 DEF IFirst, Once
<1> QED BY <1>4, <1>5, <1>6, <1>7, <1>8 DEF IInv, ITable

LEMMA SortStoredStep == ASSUME IInv, IShape', SortStored PROVE IInv'
<1>1. /\ isr.pc = "out" /\ main' = [main EXCEPT !.pc = "count"]
      /\ UNCHANGED <<isr, asked, wrongs>> /\ From(callbacks, callbacks')
  BY Parts, FinishSorts DEF SortStored, MainRuns, history
<1>2. main'.pc = "count"
  BY <1>1, Parts
<1> QED BY <1>1, <1>2, SameAsked, MainKeeps

LEMMA SameTable == ASSUME IInv PROVE From(callbacks, callbacks)
BY Parts, EntryWorn, WornInPlace

LEMMA CountIdStep == ASSUME IInv, IShape', CountId PROVE IInv'
<1>1. /\ isr.pc = "out" /\ main' = Resting
      /\ asked' = [asked EXCEPT ![main.entry.callback].id = main.entry.id]
      /\ UNCHANGED <<callbacks, isr, wrongs>>
  BY DEF CountId, MainRuns
<1>2. Grows(asked, asked')
  <2>0. asked \in AskedType /\ asked' \in AskedType
    BY Parts DEF IShape
  <2> DEFINE id == main.entry.id
             q == main.entry.callback
  <2>1. asked' = [asked EXCEPT ![q].id = id]
    BY <1>1
  <2> HIDE DEF id, q
  <2>2. ASSUME NEW r \in Request
        PROVE  asked'[r].runs = asked[r].runs /\ asked'[r].state = asked[r].state
    <3>1. CASE r = q
      BY <2>0, <2>1, <3>1 DEF AskedType
    <3>2. CASE r # q
      BY <2>0, <2>1, <3>2 DEF AskedType
    <3> QED BY <3>1, <3>2
  <2> QED BY <2>0, <2>2 DEF Grows
<1> QED BY <1>1, <1>2, Rest, SameTable, MainKeeps

LEMMA DeleteStep == ASSUME IInv, IShape', NEW id, Delete(id) PROVE IInv'
<1>1. /\ isr.pc = "out" /\ UNCHANGED <<callbacks, isr, asked, wrongs>>
      /\ main' = main \/ main'.pc = "clear"
  BY DEF Delete, MainRuns, table
<1> QED BY <1>1, SameTable, SameAsked, MainKeeps

LEMMA ClearStep == ASSUME IInv, IShape', ClearId \/ ClearTime PROVE IInv'
<1>1. /\ isr.pc = "out" /\ UNCHANGED <<isr, asked, wrongs>>
      /\ \/ callbacks' = [callbacks EXCEPT ![main.index].id = NULL_ID]
         \/ callbacks' = [callbacks EXCEPT ![main.index].unix_time = NULL_UNIX_TIME]
  BY DEF ClearId, ClearTime, MainRuns, history
<1>2. \A i \in Index : callbacks[i] \in Entry
  BY Parts
<1>3. \A i \in Index : Worn(callbacks[i], callbacks'[i])
  <2>1. CASE callbacks' = [callbacks EXCEPT ![main.index].id = NULL_ID]
    <3>1. \A i \in Index : callbacks'[i] \in {callbacks[i], [callbacks[i] EXCEPT !.id = NULL_ID]}
      BY <2>1, Parts
    <3> QED BY <1>2, <3>1, EntryWorn
  <2>2. CASE callbacks' = [callbacks EXCEPT ![main.index].unix_time = NULL_UNIX_TIME]
    <3>1. \A i \in Index : callbacks'[i] \in {callbacks[i],
                                             [callbacks[i] EXCEPT !.unix_time = NULL_UNIX_TIME]}
      BY <2>2, Parts
    <3> QED BY <1>2, <3>1, EntryWorn
  <2> QED BY <1>1, <2>1, <2>2
<1>4. From(callbacks, callbacks')
  <2>1. callbacks' \in [Index -> Entry]
    BY DEF IShape
  <2> QED BY <1>3, <2>1, Parts, WornInPlace
<1>5. main'.pc # "store"
  BY Parts DEF ClearId, ClearTime
<1> QED BY <1>1, <1>4, <1>5, SameAsked, MainKeeps

LEMMA DeleteAllStep == ASSUME IInv, IShape', DeleteAll PROVE IInv'
<1>1. /\ isr.pc = "out" /\ UNCHANGED <<isr, asked, wrongs>> /\ callbacks' = AllErased
      /\ main'.pc = "disarm"
  BY Rest DEF DeleteAll, MainRuns
<1> QED BY <1>1, Parts, ErasedAll, SameAsked, MainKeeps

LEMMA DisarmStep == ASSUME IInv, IShape', Disarm PROVE IInv'
<1>1. /\ isr.pc = "out" /\ UNCHANGED <<callbacks, isr, wrongs>>
      /\ asked' = AllOver(asked) /\ main' = Resting
  BY DEF Disarm, MainRuns, table
<1>2. Grows(asked, asked')
  <2>1. asked \in AskedType
    BY Parts
  <2> QED BY <1>1, <2>1, AllOverKeeps
<1> QED BY <1>1, <1>2, Rest, SameTable, MainKeeps

LEMMA SortErasedStep == ASSUME IInv, IShape', SortErased PROVE IInv'
<1>1. /\ isr.pc = "out" /\ UNCHANGED <<isr, wrongs>> /\ main' = Resting
      /\ From(callbacks, callbacks')
      /\ asked' = asked \/ asked' = [asked EXCEPT ![main.entry.callback].state = "over"]
  BY Parts, FinishSorts DEF SortErased, MainRuns
<1>2. Grows(asked, asked')
  <2>1. asked \in AskedType
    BY Parts
  <2> QED BY <1>1, <2>1 DEF AskedType, Grows
<1> QED BY <1>1, <1>2, Rest, MainKeeps

\* A request that is made has no entry and has not run.
LEMMA ScheduleStep ==
  ASSUME IInv, IShape', NEW request \in Asked, Schedule(request)
  PROVE  IInv'
<1>1. PICK r \in Request :
         /\ asked[r].state = "none"
         /\ main' = [pc |-> "store", index |-> Min(Holding(NULL_ID)),
                     entry |-> [id |-> NULL_ID, unix_time |-> clock + request.delta,
                                next_time |-> next_time(request), callback |-> r]]
         /\ asked' = [asked EXCEPT ![r] = [@ EXCEPT !.state = "waiting", !.left = request.delta,
                                             !.today = clock + request.delta < Day,
                                             !.kills = request.kills]]
  BY DEF Schedule
<1>2. isr.pc = "out" /\ UNCHANGED <<clock, callbacks, id_counter, isr, wrongs>>
  BY DEF Schedule, MainRuns, table
<1>3. request.delta \in Nat /\ request.kills \in BOOLEAN /\ clock \in Nat
  BY Sizes, Parts
<1>4. next_time(request) \in Nat
  BY <1>3 DEF next_time
<1>5. /\ main'.pc = "store" /\ main'.entry \in Entry /\ main'.entry.callback = r /\ r # 0
      /\ main' = [pc |-> main'.pc, index |-> main'.index, entry |-> main'.entry]
  BY <1>1, <1>3, <1>4, Sizes DEF Entry, NULL_ID, Request
<1>6. Grows(asked, asked') /\ asked'[r].state = "waiting"
  <2> DEFINE today == clock + request.delta < Day
  <2>1. today \in BOOLEAN
    BY <1>3, Sizes, IsBefore
  <2>2. asked' = [asked EXCEPT ![r] = [@ EXCEPT !.state = "waiting", !.left = request.delta,
                                                !.today = today, !.kills = request.kills]]
    BY <1>1
  <2> HIDE DEF today
  <2>3. asked \in AskedType
    BY Parts
  <2> QED BY <1>3, <2>1, <2>2, <2>3 DEF AskedType, Grows
<1>8. /\ KnownAt(callbacks) /\ OnceAt(callbacks) /\ SettledAt(callbacks) /\ Once
      /\ \A q \in Request : Ran(q) => Known(q)
      /\ \A i \in Index : callbacks[i].callback # 0 => callbacks[i].callback \in Request
  BY <1>2, Parts, EntryWorn DEF IInv, ITable, IKnown, IOnce, ISpent, SettledAt
<1>9. IKnown'
  <2>1. \A q \in Request : Ran(q)' => Known(q)'
    BY <1>6, <1>8, GrowsKeeps
  <2>2. \A i \in Index : IF callbacks[i].callback = 0 THEN Dead(callbacks[i])
                         ELSE Known(callbacks[i].callback)'
    BY <1>2, <1>6, <1>8, GrowsKeeps DEF KnownAt
  <2> QED BY <1>2, <2>1, <2>2 DEF IKnown, KnownAt, Holds
<1>10. IOnce' /\ IFirst' /\ Once'
  BY <1>2, <1>8 DEF IOnce, OnceAt, IFirst, Holds, Once
<1>11. ISpent'
  <2>1. \A i \in Index : Spent(callbacks[i])' => Spent(callbacks[i])
    BY <1>2, <1>6, <1>8, GrowsKeeps DEF Spent
  <2> QED BY <1>2, <1>8, <2>1 DEF ISpent, SettledAt
<1>12. Absent(callbacks, r) /\ ~Ran(r)
  BY <1>1, <1>5, <1>8 DEF Absent, KnownAt, Known
<1>13. IStore'
  <2>1. /\ main'.entry.callback # 0 /\ Known(r)' /\ ~Ran(r)' /\ Absent(callbacks', r)
    BY <1>2, <1>5, <1>6, <1>12, GrowsKeeps DEF Known
  <2> QED BY <1>2, <1>5, <2>1 DEF IStore, Holds, Known, Ran
<1> QED BY <1>9, <1>10, <1>11, <1>13 DEF IInv, ITable

\* The entry of a new request comes into the table, over whatever is there.
LEMMA StoreEntryStep == ASSUME IInv, IShape', Uncut, StoreEntry PROVE IInv'
<1> DEFINE r == main.entry.callback
           e == main'.entry
<1>1. /\ isr.pc = "out" /\ main.pc = "store" /\ UNCHANGED <<isr, asked, wrongs>>
      /\ main' = [main EXCEPT !.pc = "sort", !.index = 1, !.entry = Numbered]
      /\ callbacks' = [callbacks EXCEPT ![main.index] = Words(0, callbacks[main.index], Numbered)]
  BY DEF StoreEntry, MainRuns, history, Uncut
<1>2. Numbered \in Entry /\ Numbered.callback = r
  BY <1>1, Parts DEF Storing, Numbered, Entry
<1>3. /\ main' = [pc |-> "sort", index |-> 1, entry |-> Numbered]
  BY <1>1, Parts
<1>4. e \in Entry /\ e.callback = r
  BY <1>2, <1>3
<1>5. \A i \in Index : callbacks'[i] = IF i = main.index THEN e ELSE callbacks[i]
  <2>1. main.index \in Index => Words(0, callbacks[main.index], Numbered) = e
    BY <1>2, <1>3, Parts, Worded
  <2> QED BY <1>1, <2>1, Parts
<1>6. /\ r # 0 /\ Known(r) /\ ~Ran(r) /\ Absent(callbacks, r)
  BY <1>1 DEF IInv, ITable, IStore
<1>8. /\ KnownAt(callbacks) /\ OnceAt(callbacks) /\ SettledAt(callbacks) /\ Once
      /\ \A q \in Request : Ran(q) => Known(q)
  BY <1>1, Parts DEF IInv, ITable, IKnown, IOnce, ISpent, SettledAt
<1> HIDE DEF r, e
<1>9. KnownAt(callbacks') /\ SettledAt(callbacks')
  BY <1>4, <1>5, <1>6, <1>8 DEF KnownAt, SettledAt, Spent
<1>10. OnceAt(callbacks')
  BY <1>4, <1>5, <1>6, <1>8 DEF OnceAt, Absent
<1>11. IKnown' /\ IOnce' /\ ISpent'
  BY <1>1, <1>8, <1>9, <1>10
     DEF IKnown, KnownAt, Known, IOnce, OnceAt, ISpent, SettledAt, Spent, Ran, Holds
<1>12. IStore' /\ IFirst' /\ Once'
  BY <1>1, <1>3, <1>8 DEF IStore, IFirst, Once
<1> QED BY <1>11, <1>12 DEF IInv, ITable

\* A step of the main thread.
LEMMA MainStep == ASSUME IInv, IShape', Uncut, Caller \/ Main PROVE IInv'
<1>1. ~Swap
  BY DEF Swap, Uncut
<1> QED BY <1>1, SortStoredStep, CountIdStep, DeleteStep, ClearStep, DeleteAllStep, DisarmStep, SortErasedStep,
   ScheduleStep, StoreEntryStep DEF Caller, Main

-----------------------------------------------------------------------------
(* The interrupt and the clock.                                            *)

\* A step that leaves the table and the requests: the interrupt takes the first entry or none.
LEMMA TakeKeeps ==
  ASSUME IInv, IShape', UNCHANGED <<callbacks, main, wrongs>>, Grows(asked, asked'),
         \/ isr' = isr
         \/ isr.pc # "remove" /\ isr'.pc \in {"out", "sample", "loop"}
         \/ /\ isr.pc # "remove"
            /\ isr'.pc = "run" /\ isr'.entry = callbacks[1] /\ ~Dead(callbacks[1])
  PROVE  IInv'
<1>1. /\ KnownAt(callbacks) /\ OnceAt(callbacks) /\ ISpent /\ Once /\ IStore
      /\ \A r \in Request : Ran(r) => Known(r)
      /\ \A i \in Index : callbacks[i].callback # 0 => callbacks[i].callback \in Request
  BY Parts, EntryWorn DEF IInv, ITable, IKnown, IOnce
<1>2. /\ \A r \in Request : Ran(r)' => Known(r)'
      /\ KnownAt(callbacks)'
      /\ \A i \in Index : Spent(callbacks[i])' => Spent(callbacks[i])
      /\ OnceAt(callbacks')
  BY <1>1, GrowsKeeps DEF KnownAt, Spent
<1>3. ISpent' /\ Once'
  BY <1>1, <1>2 DEF ISpent, Once
<1>4. /\ Holds' => \/ /\ isr' = isr /\ Holds
                   \/ /\ isr'.pc = "run" /\ isr'.entry = callbacks[1] /\ ~Dead(callbacks[1])
                      /\ 1 \in Index /\ callbacks[1].callback # 0
  BY <1>1, Sizes DEF Holds, KnownAt
<1>5. IFirst'
  BY <1>4 DEF IInv, ITable, IFirst, Holds
<1>6. isr.entry.callback # 0 => isr.entry.callback \in Request
  BY Parts, EntryWorn DEF IsrType
<1>7. IKnown'
  BY <1>1, <1>2, <1>4, <1>6, GrowsKeeps DEF IInv, ITable, IKnown, KnownAt
<1>8. Holds' => KindAt(callbacks, isr'.entry)
  BY <1>1, <1>4 DEF IInv, ITable, IOnce, KindAt, OnceAt
<1>9. IOnce'
  BY <1>2, <1>8 DEF IOnce
<1>10. IStore'
  <2>1. SUFFICES ASSUME main.pc = "store" PROVE IStore'
    BY DEF IStore
  <2>2. /\ main.entry.callback # 0 /\ Known(main.entry.callback) /\ ~Ran(main.entry.callback)
        /\ Absent(callbacks, main.entry.callback)
        /\ Holds => isr.entry.callback # main.entry.callback
    BY <1>1, <2>1 DEF IStore
  <2>3. main.entry.callback \in Request
    BY <2>1, <2>2, Parts, EntryWorn DEF Storing
  <2>4. Known(main.entry.callback)' /\ ~Ran(main.entry.callback)'
    BY <2>2, <2>3, GrowsKeeps
  <2>5. Holds' => isr'.entry.callback # main.entry.callback
    BY <1>4, <2>2 DEF Absent
  <2> QED BY <2>2, <2>4, <2>5 DEF IStore, Absent
<1> QED BY <1>3, <1>5, <1>7, <1>9, <1>10 DEF IInv, ITable

\* The interrupt comes where the main thread has only put the entries in another order.
LEMMA CutKeeps ==
  ASSUME IInv, IShape', isr.pc = "out", UNCHANGED <<asked, wrongs>>,
         From(callbacks, callbacks'),
         main'.pc = main.pc, main'.entry.callback = main.entry.callback,
         isr'.pc = "run", isr'.entry = callbacks'[1], ~Dead(callbacks'[1])
  PROVE  IInv'
<1>1. /\ KnownAt(callbacks) /\ OnceAt(callbacks) /\ SettledAt(callbacks) /\ Once /\ IStore
      /\ \A r \in Request : Ran(r) => Known(r)
  BY DEF IInv, ITable, IKnown, IOnce, ISpent, SettledAt
<1>2. /\ KnownAt(callbacks') /\ OnceAt(callbacks') /\ SettledAt(callbacks')
      /\ \A r : Absent(callbacks, r) => Absent(callbacks', r)
  BY <1>1, FromKeeps
<1>3. 1 \in Index /\ callbacks'[1].callback # 0 /\ Known(callbacks'[1].callback)
  BY <1>2, Sizes DEF KnownAt
<1>4. IKnown'
  BY <1>1, <1>2, <1>3 DEF IKnown, KnownAt, Known, Ran
<1>5. IOnce'
  BY <1>2, <1>3 DEF IOnce, OnceAt, KindAt
<1>6. ISpent' /\ IFirst' /\ Once'
  BY <1>1, <1>2 DEF ISpent, SettledAt, Spent, Ran, IFirst, Once
<1>7. IStore'
  BY <1>1, <1>2, <1>3 DEF IStore, Absent, Known, Ran
<1> QED BY <1>4, <1>5, <1>6, <1>7 DEF IInv, ITable

LEMMA EnterStep == ASSUME IInv, IShape', Uncut', Enter PROVE IInv'
<1>1. isr.pc = "out" /\ UNCHANGED <<asked, wrongs>>
  BY DEF Enter
<1>2. CASE UNCHANGED <<callbacks, thread, isr, cuts, torn>>
  BY <1>1, <1>2, SameAsked, TakeKeeps DEF thread
<1>3. CASE Cut /\ callbacks'[1].id # NULL_ID /\ Take(callbacks'[1])
  <2>1. isr'.pc = "run" /\ isr'.entry = callbacks'[1] /\ ~Dead(callbacks'[1])
    BY <1>3, Parts DEF Take, Dead, IsrType
  <2>2. /\ From(callbacks, callbacks')
        /\ main'.pc = main.pc /\ main'.entry.callback = main.entry.callback
    <3>1. CASE UNCHANGED <<callbacks, main, cut, cuts>>
      BY <3>1, SameTable
    <3>2. CASE CutCopy
      <4>1. PICK words : /\ cut' = [pc |-> "copying", words |-> words, one |-> 1, other |-> 1]
                         /\ callbacks' = [callbacks EXCEPT ![main.index] = Words(words, Numbered, @)]
        BY <3>2 DEF CutCopy, NoCut
      <4>2. words = 0
        BY <4>1 DEF Uncut
      <4>3. Numbered \in Entry /\ Numbered.callback = main.entry.callback
        BY <3>2, Parts DEF CutCopy, Storing, Numbered, Entry
      <4>4. callbacks' = callbacks
        <5>1. \A i \in Index : Words(0, Numbered, callbacks[i]) = callbacks[i]
          BY <4>3, Parts, Worded
        <5> QED BY <4>1, <4>2, <5>1, Parts
      <4>5. main' = [main EXCEPT !.entry = Numbered]
        BY <3>2 DEF CutCopy
      <4> QED BY <4>3, <4>4, <4>5, Parts, SameTable
    <3>3. CASE CutSort
      BY <3>3, Parts, Ordered DEF CutSort
    <3>4. CASE CutSwap
      BY <3>4 DEF CutSwap, Uncut
    <3> QED BY <1>3, <3>1, <3>2, <3>3, <3>4 DEF Cut
  <2> QED BY <1>1, <2>1, <2>2, CutKeeps
<1> QED BY <1>2, <1>3 DEF Enter

LEMMA LoopSteps == ASSUME IInv, IShape', Sample \/ Loop \/ Leave PROVE IInv'
<1>1. /\ isr.pc \in {"sample", "loop"}
      /\ UNCHANGED <<callbacks, main, asked, wrongs>>
      /\ \/ isr' = [isr EXCEPT !.pc = "loop", !.first = FALSE, !.now = clock]
         \/ due(callbacks[1]) /\ isr' = [isr EXCEPT !.pc = "run", !.entry = callbacks[1]]
         \/ isr' = Outside
  BY DEF Sample, Loop, Leave, table, thread, history, Take
<1>2. callbacks[1] \in Entry
  BY Parts, Sizes
<1>3. due(callbacks[1]) => ~Dead(callbacks[1])
  BY Parts, Sizes DEF due, Dead, NULL_UNIX_TIME, IsrType
<1>4. \/ isr'.pc \in {"out", "sample", "loop"}
      \/ isr'.pc = "run" /\ isr'.entry = callbacks[1] /\ ~Dead(callbacks[1])
  <2>1. Outside.pc = "out"
    BY DEF Outside
  <2>2. CASE isr' = [isr EXCEPT !.pc = "loop", !.first = FALSE, !.now = clock]
    BY <2>2, Parts DEF IsrType
  <2>3. CASE due(callbacks[1]) /\ isr' = [isr EXCEPT !.pc = "run", !.entry = callbacks[1]]
    BY <1>3, <2>3, Parts DEF IsrType
  <2> QED BY <1>1, <2>1, <2>2, <2>3
<1> QED BY <1>1, <1>4, SameAsked, TakeKeeps

LEMMA TickStep == ASSUME IInv, IShape', Tick PROVE IInv'
<1>1. /\ UNCHANGED <<callbacks, main, isr, wrongs>>
      /\ asked' = [r \in Request |-> [asked[r] EXCEPT !.left = IF @ = 0 THEN 0 ELSE @ - 1]]
  BY DEF Tick, table, thread
<1>2. Grows(asked, asked')
  <2>0. asked \in AskedType
    BY Parts
  <2>1. /\ asked' \in AskedType
        /\ \A r \in Request : asked'[r].runs = asked[r].runs /\ asked'[r].state = asked[r].state
    BY <1>1, <2>0 DEF AskedType
  <2> QED BY <2>1 DEF Grows
<1> QED BY <1>1, <1>2, TakeKeeps

\* The callback runs: its entry is the first and has not run, if it is to run once.
LEMMA RunCallbackStep == ASSUME IInv, IShape', RunCallback PROVE IInv'
<1> DEFINE e == isr.entry
           r == e.callback
           ran == [asked EXCEPT ![r].runs = 1,
                                ![r].state = IF e.next_time = 0 THEN "over" ELSE @]
<1>1. /\ isr.pc = "run" /\ isr' = [isr EXCEPT !.pc = "remove"]
      /\ UNCHANGED <<clock, id_counter, main>>
      /\ wrongs' = wrongs \cup {w \in {"early", "deleted", "twice"} :
               \/ w = "early" /\ asked[r].left > 0 /\ asked[r].runs = 0
               \/ w = "deleted" /\ asked[r].state = "over" /\ asked[r].runs = 0
               \/ w = "twice" /\ e.next_time = 0 /\ asked[r].runs > 0}
      /\ \/ callbacks' = AllErased /\ asked' = AllOver(ran)
         \/ callbacks' = callbacks /\ asked' = ran
  BY DEF RunCallback, thread
<1>2. /\ callbacks[1] = e /\ ~Dead(e) /\ e \in Entry /\ r # 0 /\ r \in Request /\ Known(r)
      /\ KindAt(callbacks, e) /\ 1 \in Index
      /\ main.pc = "store" => main.entry.callback # r
  BY <1>1, Parts, EntryWorn, Sizes DEF IInv, ITable, IKnown, IOnce, IFirst, IStore, Holds,
                                            IsrType
<1>3. /\ KnownAt(callbacks) /\ OnceAt(callbacks) /\ ISpent /\ Once /\ IStore
      /\ \A q \in Request : Ran(q) => Known(q)
      /\ \A i \in Index : callbacks[i].callback # 0 => callbacks[i].callback \in Request
  BY Parts, EntryWorn DEF IInv, ITable, IKnown, IOnce
<1>4. ~(e.next_time = 0 /\ asked[r].runs > 0)
  BY <1>1, <1>2, <1>3 DEF ISpent, Spent, Ran
<1>5. Once'
  BY <1>1, <1>3, <1>4 DEF Once
<1>6. asked \in AskedType
  BY Parts
<1>7. /\ asked' \in AskedType
      /\ \A q \in Request : q # r => asked'[q].runs = asked[q].runs
      /\ \A q \in Request : asked[q].state # "none" => asked'[q].state # "none"
  <2>1. /\ ran \in AskedType
        /\ \A q \in Request : q # r => ran[q].runs = asked[q].runs
        /\ \A q \in Request : asked[q].state # "none" => ran[q].state # "none"
    <3>1. ran \in AskedType
      BY <1>2, <1>6 DEF AskedType
    <3>2. /\ \A q \in Request : q # r => ran[q].runs = asked[q].runs
          /\ \A q \in Request : asked[q].state # "none" => ran[q].state # "none"
      BY <1>2, <1>6 DEF AskedType
    <3> QED BY <3>1, <3>2
  <2> HIDE DEF ran
  <2>2. CASE asked' = AllOver(ran)
    <3>1. Grows(ran, asked')
      BY <2>1, <2>2, AllOverKeeps
    <3> QED BY <2>1, <3>1 DEF Grows
  <2>3. CASE asked' = ran
    BY <2>1, <2>3
  <2> QED BY <1>1, <2>2, <2>3
<1>8. \A q \in Request : /\ q # r => (Ran(q)' <=> Ran(q))
                         /\ Known(q) => Known(q)'
  BY <1>7 DEF Ran, Known
<1>9. From(callbacks, callbacks') /\ (callbacks' = callbacks \/ AllDead(callbacks'))
  BY <1>1, Parts, ErasedAll, SameTable
<1> HIDE DEF e, ran
<1>10. isr'.pc = "remove" /\ isr'.entry = e
  BY <1>1, Parts DEF e, IsrType
<1> HIDE DEF r
<1>11. callbacks' \in [Index -> Entry]
  BY <1>9, FromKeeps
<1>13. KnownAt(callbacks') /\ OnceAt(callbacks') /\ KindAt(callbacks', e)
  BY <1>2, <1>3, <1>9, FromKeeps
<1>14. \A i \in Index : callbacks'[i].callback # 0 => callbacks'[i].callback \in Request
  BY <1>11, EntryWorn
<1>15. IKnown'
  <2>1. \A q \in Request : Ran(q)' => Known(q)'
    BY <1>2, <1>3, <1>8
  <2>2. KnownAt(callbacks)'
    BY <1>8, <1>13, <1>14 DEF KnownAt
  <2>3. PICK q \in Request : q = r
    BY <1>2
  <2>4. isr'.entry.callback = q /\ q # 0 /\ Known(q)'
    BY <1>2, <1>8, <1>10, <2>3 DEF r
  <2> QED BY <2>1, <2>2, <2>4 DEF IKnown, Known
<1>16. IOnce'
  BY <1>10, <1>13 DEF IOnce
<1>17. ISpent'
  <2>1. CASE AllDead(callbacks')
    BY <2>1 DEF ISpent, AllDead
  <2>2. CASE callbacks' = callbacks
    <3> SUFFICES ASSUME NEW i \in Index, Spent(callbacks[i])', ~Dead(callbacks[i])
                 PROVE  i = 1
      BY <1>10, <2>2 DEF ISpent, Dead
    <3>1. callbacks[i].callback # 0 /\ callbacks[i].next_time = 0 /\ Ran(callbacks[i].callback)'
      BY <2>2 DEF Spent
    <3>2. CASE callbacks[i].callback = r
      BY <1>2, <1>3, <3>1, <3>2 DEF OnceAt, r
    <3>3. CASE callbacks[i].callback # r
      <4>1. PICK q \in Request : q = callbacks[i].callback
        BY <1>3, <3>1
      <4>2. Ran(q)'
        BY <2>2, <3>1, <4>1 DEF Ran
      <4>3. Ran(q)
        BY <1>8, <3>3, <4>1, <4>2
      <4>4. Spent(callbacks[i])
        BY <3>1, <4>1, <4>3 DEF Spent
      <4> QED BY <1>1, <1>3, <4>4 DEF ISpent
    <3> QED BY <3>2, <3>3
  <2> QED BY <1>9, <2>1, <2>2
<1>18. IStore'
  <2>1. SUFFICES ASSUME main.pc = "store" PROVE IStore'
    BY <1>1 DEF IStore
  <2> DEFINE m == main.entry.callback
  <2>2. /\ m # 0 /\ Known(m) /\ ~Ran(m) /\ Absent(callbacks, m) /\ m # r
    BY <1>2, <1>3, <2>1 DEF IStore
  <2>3. m \in Request
    BY <2>1, <2>2, Parts, EntryWorn DEF Storing
  <2>4. Known(m)' /\ ~Ran(m)' /\ Absent(callbacks', m)
    BY <1>1, <1>8, <1>9, <2>2, <2>3, FromKeeps
  <2> QED BY <1>1, <1>10, <2>2, <2>4 DEF IStore, Absent, r
<1>19. IFirst'
  BY <1>2, <1>9, <1>10 DEF IFirst
<1> QED BY <1>5, <1>15, <1>16, <1>17, <1>18, <1>19 DEF IInv, ITable

\* The interrupt goes on once the entry it took is no more in the table, or is not for one run.
LEMMA GoesOn ==
  ASSUME IInv, IShape', isr.pc \in {"remove", "again"},
         UNCHANGED <<main, asked, wrongs>>,
         KnownAt(callbacks'), OnceAt(callbacks'), SettledAt(callbacks'),
         main.pc = "store" => Absent(callbacks', main.entry.callback),
         \/ isr'.pc \in {"sample", "loop"}
         \/ /\ isr'.pc = "again" /\ isr'.entry = isr.entry /\ isr.entry.next_time # 0
            /\ KindAt(callbacks', isr.entry)
  PROVE  IInv'
<1>1. /\ Once /\ IStore /\ Holds
      /\ \A q \in Request : Ran(q) => Known(q)
      /\ isr.entry.callback # 0 /\ Known(isr.entry.callback)
  BY DEF IInv, ITable, IKnown, Holds
<1>2. IKnown'
  BY <1>1 DEF IKnown, KnownAt, Known, Ran, Holds
<1>3. IOnce'
  BY DEF IOnce, Holds
<1>4. ISpent'
  BY DEF ISpent, SettledAt, Spent, Ran
<1>5. IStore'
  BY <1>1 DEF IStore, Absent, Known, Ran, Holds
<1>6. IFirst' /\ Once'
  BY <1>1 DEF IFirst, Once
<1> QED BY <1>2, <1>3, <1>4, <1>5, <1>6 DEF IInv, ITable

\* The first entry is the one that ran: erasing it leaves nothing that ran and is not dead.
LEMMA RemoveStep == ASSUME IInv, IShape', Remove PROVE IInv'
<1> DEFINE e == isr.entry
           held == Holding(e.id)
           erased == [callbacks EXCEPT ![Min(held)] = Erased(@)]
<1>1. /\ isr.pc = "remove" /\ UNCHANGED <<clock, id_counter, main, asked, wrongs>>
      /\ \/ held # {} /\ callbacks' \in qsort(erased)
         \/ held = {} /\ callbacks' = callbacks
      /\ isr' = IF e.next_time # 0 THEN [isr EXCEPT !.pc = "again"] ELSE Continue
  BY DEF Remove, thread, history, SortAndSetAlarm
<1>2. /\ callbacks \in [Index -> Entry] /\ e \in Entry /\ 1 \in Index
      /\ callbacks[1] = e \/ AllDead(callbacks)
      /\ KnownAt(callbacks) /\ OnceAt(callbacks) /\ KindAt(callbacks, e) /\ ISpent /\ IStore
  BY <1>1, Parts, Sizes DEF IInv, ITable, IFirst, IKnown, IOnce, Holds, IsrType
<1>3. /\ erased \in [Index -> Entry]
      /\ \A i \in Index : erased[i] = IF i = Min(held) THEN Erased(callbacks[i]) ELSE callbacks[i]
  BY <1>2, EntryWorn
<1>4. ASSUME NEW i \in Index PROVE Worn(callbacks[i], erased[i])
  BY <1>2, <1>3, EntryWorn
<1>5. From(callbacks, erased)
  BY <1>2, <1>3, <1>4, WornInPlace
<1>6. SettledAt(erased)
  <2>1. CASE AllDead(callbacks)
    <3>1. AllDead(erased)
      BY <1>5, <2>1, FromKeeps
    <3> QED BY <3>1 DEF AllDead, SettledAt
  <2>2. CASE callbacks[1] = e
    <3>1. 1 \in held /\ held \subseteq Index
      BY <1>2, <2>2 DEF Holding
    <3>2. Min(held) = 1
      <4>1. \A y \in held : 1 <= y /\ y \in Nat
        BY <3>1, Sizes DEF Index
      <4>2. Min(held) \in held /\ \A y \in held : Min(held) <= y
        BY <3>1, <4>1 DEF Min
      <4> QED BY <3>1, <4>1, <4>2
    <3>3. Dead(erased[1])
      BY <1>2, <1>3, <3>2, EntryWorn
    <3>4. ASSUME NEW i \in Index, i # 1, Spent(erased[i]) PROVE Dead(erased[i])
      BY <1>2, <1>3, <3>2, <3>4 DEF ISpent
    <3> QED BY <3>3, <3>4 DEF SettledAt
  <2> QED BY <1>2, <2>1, <2>2
<1>7. held = {} => AllDead(callbacks)
  BY <1>2 DEF Holding
<1> HIDE DEF erased, held
<1>8. From(callbacks, callbacks') /\ SettledAt(callbacks')
  <2>1. CASE held # {}
    <3>1. From(erased, callbacks')
      BY <1>1, <1>3, <2>1, Sorted
    <3> QED BY <1>5, <1>6, <3>1, FromFrom, FromKeeps
  <2>2. CASE held = {}
    BY <1>1, <1>7, <2>2, SameTable DEF AllDead, SettledAt
  <2> QED BY <2>1, <2>2
<1>9. /\ callbacks' \in [Index -> Entry]
      /\ KnownAt(callbacks') /\ OnceAt(callbacks') /\ KindAt(callbacks', e)
      /\ main.pc = "store" => Absent(callbacks', main.entry.callback)
  BY <1>2, <1>8, FromKeeps DEF IStore
<1>10. \/ isr'.pc \in {"sample", "loop"}
       \/ isr'.pc = "again" /\ isr'.entry = e /\ e.next_time # 0
  <2>1. CASE e.next_time # 0
    BY <1>1, <2>1, Parts DEF IsrType
  <2>2. CASE e.next_time = 0
    BY <1>1, <2>2, Continued DEF IInv
  <2> QED BY <2>1, <2>2
<1> QED BY <1>1, <1>8, <1>9, <1>10, GoesOn

\* A continuous entry goes back: its request has no one-shot entry.
LEMMA AgainStep == ASSUME IInv, IShape', Again PROVE IInv'
<1> DEFINE e == isr.entry
           new == [[e EXCEPT !.unix_time = @ + e.next_time] EXCEPT !.id = id_counter]
           target == Min(Holding(NULL_ID))
           inserted == [callbacks EXCEPT ![target] = new]
<1>1. /\ isr.pc = "again" /\ UNCHANGED <<clock, main, asked, wrongs>> /\ isr' = Continue
      /\ \/ callbacks' \in qsort(inserted) /\ id_counter' = id_counter + 1
         \/ callbacks' = callbacks /\ id_counter' = id_counter
  BY DEF Again, thread, history, table, Insert, SortAndSetAlarm, next_id
<1>2. /\ callbacks \in [Index -> Entry] /\ e \in Entry /\ id_counter \in Nat
      /\ e.callback # 0 /\ Known(e.callback) /\ e.next_time # 0
      /\ KnownAt(callbacks) /\ OnceAt(callbacks) /\ KindAt(callbacks, e) /\ SettledAt(callbacks)
      /\ main.pc = "store" => /\ Absent(callbacks, main.entry.callback)
                             /\ e.callback # main.entry.callback
  BY <1>1, Parts DEF IInv, ITable, IFirst, IKnown, IOnce, ISpent, IStore, SettledAt, Holds,
              IsrType
<1>3. new \in Entry /\ new.callback = e.callback /\ new.next_time = e.next_time
  <2>1. e \in Entry /\ id_counter \in Nat
    BY <1>2
  <2>2. e.unix_time + e.next_time \in Nat
    BY <2>1 DEF Entry
  <2> HIDE DEF e
  <2> QED BY <2>1, <2>2 DEF Entry
<1> HIDE DEF new, target
<1>4. /\ inserted \in [Index -> Entry]
      /\ \A i \in Index : inserted[i] = IF i = target THEN new ELSE callbacks[i]
  BY <1>2, <1>3
<1> HIDE DEF inserted
<1>5. KnownAt(inserted)
  BY <1>2, <1>3, <1>4 DEF KnownAt
<1>6. OnceAt(inserted)
  BY <1>2, <1>3, <1>4 DEF OnceAt, KindAt
<1>7. SettledAt(inserted)
  BY <1>2, <1>3, <1>4 DEF SettledAt, Spent
<1>8. main.pc = "store" => Absent(inserted, main.entry.callback)
  BY <1>2, <1>3, <1>4 DEF Absent
<1>9. /\ callbacks' \in [Index -> Entry] /\ id_counter' \in Nat
      /\ KnownAt(callbacks') /\ OnceAt(callbacks') /\ SettledAt(callbacks')
      /\ main.pc = "store" => Absent(callbacks', main.entry.callback)
  <2>1. CASE callbacks' \in qsort(inserted) /\ id_counter' = id_counter + 1
    <3>1. From(inserted, callbacks')
      BY <1>4, <2>1, Sorted
    <3> QED BY <1>2, <1>5, <1>6, <1>7, <1>8, <2>1, <3>1, FromKeeps
  <2>2. CASE callbacks' = callbacks /\ id_counter' = id_counter
    BY <1>2, <2>2
  <2> QED BY <1>1, <2>1, <2>2
<1> QED BY <1>1, <1>9, Continued, GoesOn DEF IInv

-----------------------------------------------------------------------------
LEMMA IndInit == Init => Ind
<1> SUFFICES ASSUME Init PROVE Ind
  OBVIOUS
<1>1. /\ callbacks \in [Index -> Entry] /\ \A i \in Index : callbacks[i] = Dummy
  BY DummyDead DEF Init
<1>2. asked \in AskedType /\ \A r \in Request : asked[r].runs = 0
  BY Sizes DEF Init, AskedType, NULL_ID
<1>3. isr.pc = "out" /\ main.pc = "idle" /\ main = Resting /\ isr \in IsrType
  BY DummyDead, Sizes DEF Init, Outside, Resting, IsrType
<1>4. Uncut
  BY DEF Init, Uncut, NoCut
<1>5. IShape
  BY <1>1, <1>2, <1>3, <1>4, Rest DEF Init, IShape, Storing, Uncut
<1>6. IKnown /\ IOnce /\ ISpent
  BY <1>1, <1>2, <1>3, DummyDead
     DEF IKnown, KnownAt, IOnce, OnceAt, ISpent, Spent, Ran, Holds
<1>7. IStore /\ IFirst /\ Once
  BY <1>3 DEF Init, IStore, IFirst, Once
<1> QED BY <1>4, <1>5, <1>6, <1>7 DEF Ind, IInv, ITable

\* Only the interrupt cuts, and a cut in the middle of an entry counts as torn.
LEMMA UncutStep == ASSUME Uncut, [Next]_vars, ~torn' PROVE ~torn /\ Uncut'
<1>1. CASE Enter
  <2>1. CASE UNCHANGED <<callbacks, thread, isr, cuts, torn>>
    BY <2>1 DEF Uncut, thread
  <2>2. CASE Cut /\ torn' = (torn \/ cut'.words > 0)
    <3>1. ~torn /\ ~(cut'.words > 0)
      BY <2>2
    <3>2. CASE UNCHANGED <<callbacks, main, cut, cuts>>
      BY <3>1, <3>2 DEF Uncut
    <3>3. CASE CutCopy
      <4>1. PICK words \in {0} \cup CutWords :
              cut' = [pc |-> "copying", words |-> words, one |-> 1, other |-> 1]
        BY <3>3 DEF CutCopy, NoCut
      <4>2. words = 0
        BY <3>1, <4>1, Sizes
      <4> QED BY <3>1, <4>1, <4>2 DEF Uncut
    <3>4. CASE CutSort
      BY <3>1, <3>4 DEF CutSort, Uncut, NoCut
    <3>5. CASE CutSwap
      <4>1. PICK words \in CutWords : cut'.words = words
        BY <3>5 DEF CutSwap
      <4> QED BY <3>1, <4>1, Sizes
    <3> QED BY <2>2, <3>2, <3>3, <3>4, <3>5 DEF Cut
  <2> QED BY <1>1, <2>1, <2>2 DEF Enter
<1>2. CASE Caller \/ Main
  <2>1. torn' = torn /\ (cut' = cut \/ cut' = NoCut)
    BY <1>2 DEF Caller, Main, Schedule, StoreEntry, SortStored, SortErased, FinishSort, Swap, Uncut,
                CountId, Delete, ClearId, ClearTime, DeleteAll, Disarm, history, cuttings
  <2> QED BY <2>1 DEF Uncut, NoCut
<1>3. CASE RunCallback \/ Remove \/ Again \/ Sample \/ Loop \/ Leave \/ Tick \/ UNCHANGED vars
  <2>1. UNCHANGED <<thread, torn>>
    <3>1. CASE RunCallback
      BY <3>1 DEF RunCallback, cuttings
    <3>2. CASE Remove \/ Again
      BY <3>2 DEF Remove, Again, history, cuttings
    <3>3. CASE Sample \/ Loop \/ Leave
      BY <3>3 DEF Sample, Loop, Leave, history, cuttings
    <3>4. CASE Tick \/ UNCHANGED vars
      BY <3>4 DEF Tick, vars, history, cuttings
    <3> QED BY <1>3, <3>1, <3>2, <3>3, <3>4
  <2> QED BY <2>1 DEF thread, Uncut
<1> QED BY <1>1, <1>2, <1>3 DEF Next, Interrupt

LEMMA IndStep == Ind /\ [Next]_vars => Ind'
<1> SUFFICES ASSUME Ind, [Next]_vars PROVE Ind'
  OBVIOUS
<1>1. IShape'
  BY ShapeStep DEF Ind
<1>2. SUFFICES ASSUME ~torn' PROVE Uncut' /\ IInv'
  BY <1>1 DEF Ind
<1>3. ~torn /\ Uncut /\ Uncut' /\ IInv
  <2>1. ~torn
    BY <1>2 DEF Next, Caller, Main, Interrupt, Schedule, StoreEntry, SortStored, SortErased, Swap,
                CountId, Delete, ClearId, ClearTime, DeleteAll, Disarm, Enter, RunCallback, Remove,
                Again, Sample, Loop, Leave, Tick, vars, thread, history, cuttings
  <2> QED BY <1>2, <2>1, UncutStep DEF Ind
<1>4. CASE UNCHANGED vars
  <2>1. UNCHANGED <<clock, callbacks, id_counter, main, isr, asked, wrongs>>
    BY <1>4 DEF vars, table, thread, history
  <2> QED BY <1>1, <1>3, <2>1, SameAsked, TakeKeeps
<1> QED BY <1>1, <1>3, <1>4, MainStep, EnterStep, RunCallbackStep, RemoveStep, AgainStep, LoopSteps,
           TickStep DEF Next, Interrupt

LEMMA Invariant == Spec => []Ind
BY IndInit, IndStep, PTL DEF Spec

(* A callback that rtc_scheduleCallback was asked to run once runs at most *)
(* once, for every table and every mix of requests and deletions, wherever *)
(* the alarm's interrupt comes in an operation of the main thread: between *)
(* its steps, before an entry's copy or between two exchanges of its sort. *)
(* It says nothing once the interrupt came in the middle of an entry that  *)
(* was copied or exchanged.                                                *)
THEOREM CallbacksOnceOnly == Spec => []OnceOnly
<1>1. Ind => OnceOnly
  BY DEF Ind, IInv, Once, OnceOnly
<1> QED BY <1>1, Invariant, PTL
-----------------------------------------------------------------------------
(* Operations that no callback cuts through.                               *)

\* No operation of the main thread was cut.
Whole == ~torn /\ cut = NoCut
IWhole == ~interrupted => Whole

LEMMA Uninterrupted == ASSUME ~interrupted', [Next]_vars PROVE ~interrupted
BY DEF Next, Caller, Main, Interrupt, Schedule, StoreEntry, SortStored, Swap, CountId, Delete, ClearId,
       ClearTime, SortErased, DeleteAll, Disarm, Enter, RunCallback, Remove, Again, Sample, Loop,
       Leave, Tick, thread, history, cuttings, vars

\* An uninterrupted interrupt comes when the main thread is idle, and cuts nothing.
LEMMA EnterWhole ==
  ASSUME Enter, ~interrupted'
  PROVE  /\ isr.pc = "out" /\ main.pc = "idle" /\ pending /\ ~pending'
         /\ UNCHANGED <<clock, callbacks, id_counter, main, cut, asked, alarm, enabled, wrongs>>
         /\ cut = NoCut /\ ~torn => ~torn'
         /\ \/ isr' = isr
            \/ /\ callbacks[1].id # NULL_ID
               /\ isr' = [isr EXCEPT !.pc = "run", !.entry = callbacks[1]]
<1>1. /\ isr.pc = "out" /\ main.pc = "idle" /\ pending /\ ~pending'
      /\ UNCHANGED <<clock, id_counter, asked, alarm, enabled, wrongs>>
  BY DEF Enter
<1>2. CASE UNCHANGED <<callbacks, thread, isr, cuts, torn>>
  BY <1>1, <1>2 DEF thread
<1>3. CASE Cut /\ callbacks'[1].id # NULL_ID /\ Take(callbacks'[1])
           /\ torn' = (torn \/ cut'.words > 0)
  <2>1. UNCHANGED <<callbacks, main, cut>>
    BY <1>1, <1>3 DEF Cut, CutCopy, CutSort, CutSwap
  <2>2. cut = NoCut => ~(cut'.words > 0)
    BY <2>1 DEF NoCut
  <2>3. cut = NoCut /\ ~torn => ~torn'
    BY <1>3, <2>2, Zenon
  <2> QED BY <1>1, <1>3, <2>1, <2>3 DEF Take
<1> QED BY <1>2, <1>3 DEF Enter

\* A copy that was not cut writes the entry.
LEMMA StoreWhole ==
  ASSUME IInv, cut = NoCut, StoreEntry
  PROVE  /\ MainRuns /\ main.pc = "store"
         /\ UNCHANGED <<clock, id_counter, isr, pending, alarm, enabled, asked, wrongs>>
         /\ main' = [pc |-> "sort", index |-> 1, entry |-> [main.entry EXCEPT !.id = id_counter]]
         /\ callbacks' = [callbacks EXCEPT ![main.index] = main'.entry]
<1> DEFINE e == [main.entry EXCEPT !.id = id_counter]
<1>1. /\ MainRuns /\ main.pc = "store"
      /\ UNCHANGED <<clock, id_counter, isr, pending, alarm, enabled, asked, wrongs>>
      /\ main' = [main EXCEPT !.pc = "sort", !.index = 1, !.entry = Numbered]
      /\ callbacks' = [callbacks EXCEPT ![main.index] = Words(cut.words, @, Numbered)]
  BY DEF StoreEntry, hardware, history
<1>2. cut.words = 0 /\ Numbered = e
  BY DEF NoCut, Numbered
<1>3. main.entry \in Entry /\ id_counter \in Nat
  BY <1>1, Parts DEF Storing
<1>4. e \in Entry
  BY <1>3 DEF Entry
<1> HIDE DEF e
<1>5. \A x : Words(0, x, e) = e
  BY <1>4 DEF Words, Entry
<1>6. main' = [pc |-> "sort", index |-> 1, entry |-> e]
  BY <1>1, <1>2, Parts
<1>7. callbacks' = [callbacks EXCEPT ![main.index] = e]
  BY <1>1, <1>2, <1>5
<1>8. main'.entry = e
  BY <1>6
<1> QED BY <1>1, <1>6, <1>7, <1>8 DEF e

\* A sort that was not cut sorts.
LEMMA SortWhole ==
  ASSUME cut = NoCut, FinishSort
  PROVE  SortAndSetAlarm(callbacks)
BY DEF FinishSort, NoCut

LEMMA WholeInit == Init => IWhole
BY DEF Init, IWhole, Whole

LEMMA WholeStep == IWhole /\ [Next]_vars => IWhole'
<1> SUFFICES ASSUME IWhole, [Next]_vars, ~interrupted' PROVE Whole'
  BY DEF IWhole
<1>1. Whole
  BY Uninterrupted DEF IWhole
<1>2. CASE Enter
  BY <1>1, <1>2, EnterWhole DEF Whole
<1>3. CASE ~Enter
  <2>1. torn' = torn /\ (cut' = cut \/ cut' = NoCut)
    BY <1>1, <1>3 DEF Next, Caller, Main, Interrupt, Schedule, StoreEntry, SortStored, FinishSort,
       Swap, CountId, Delete, ClearId, ClearTime, SortErased, DeleteAll, Disarm, RunCallback, Remove,
       Again, Sample, Loop, Leave, Tick, thread, history, cuttings, vars, Whole, NoCut
  <2> QED BY <1>1, <2>1 DEF Whole
<1> QED BY <1>2, <1>3

LEMMA WholeInvariant == Spec => [](Ind /\ IWhole)
BY Invariant, WholeInit, WholeStep, PTL DEF Spec

\* What holds as long as nothing was cut.
LEMMA Held ==
  ASSUME Ind, IWhole, ~interrupted
  PROVE  IInv /\ cut = NoCut
BY DEF Ind, IWhole, Whole

-----------------------------------------------------------------------------
(* The table under operations that no callback cuts through.               *)

\* The slots in use.
Live(entries) == {i \in Index : entries[i].id # NULL_ID}
Waiting == {r \in Request : asked[r].state = "waiting"}

\* Neither the ids nor the seconds of 32 bits are used up.
InRange ==
  /\ id_counter < UINT32_MAX
  /\ \A i \in Live(callbacks) : callbacks[i].unix_time < NULL_UNIX_TIME

\* Each of these requests is in the table once, nothing else, and no two under one id.
Exact(entries, requests, ids) ==
  /\ \A i \in Live(entries) : /\ entries[i].callback \in requests
                              /\ entries[i].id < ids
                              /\ entries[i].unix_time < NULL_UNIX_TIME
  /\ \A r \in requests : \E i \in Live(entries) : entries[i].callback = r
  /\ \A i, j \in Live(entries) :
       entries[i].callback = entries[j].callback \/ entries[i].id = entries[j].id => i = j

\* The other slots sort behind.
Tidy(entries, indices) ==
  \A i \in indices : i \in Live(entries) \/ entries[i].unix_time = NULL_UNIX_TIME

\* The first slot is due first.
Leads(entries) ==
  Live(entries) # {} =>
    /\ 1 \in Live(entries)
    /\ \A i \in Live(entries) : entries[1].unix_time <= entries[i].unix_time

\* The requests that have a slot: an operation or the interrupt may hold one more or one less.
Present ==
  IF main.pc = "disarm" THEN {}
  ELSE IF main.pc \in {"store", "clear_time", "resort"} THEN Waiting \ {main.entry.callback}
  ELSE IF isr.pc = "again" THEN Waiting \ {isr.entry.callback}
  ELSE IF isr.pc = "remove" /\ Live(callbacks) # {} THEN Waiting \cup {isr.entry.callback}
  ELSE Waiting

Ids == IF main.pc \in {"sort", "count"} THEN id_counter + 1 ELSE id_counter

\* Where the main thread is in the table.
IMain ==
  /\ isr.pc # "out" => main.pc = "idle"
  /\ main.pc \in {"store", "clear", "clear_time"} =>
       main.index \in Index /\ (main.index \in Live(callbacks) <=> main.pc = "clear")
  /\ main.pc \in {"store", "clear_time", "resort"} => main.entry.callback \in Waiting

\* Where the interrupt is in it.
IInterrupt ==
  /\ isr.pc = "run" => 1 \in Live(callbacks) /\ callbacks[1] = isr.entry
  /\ isr.pc = "remove" =>
       IF Live(callbacks) = {} THEN isr.entry.next_time = 0
       ELSE /\ 1 \in Live(callbacks) /\ callbacks[1] = isr.entry
            /\ isr.entry.callback \in Waiting <=> isr.entry.next_time # 0
  /\ isr.pc = "again" => isr.entry.callback \in Waiting /\ Live(callbacks) # Index

IHeld ==
  /\ Exact(callbacks, Present, Ids)
  /\ Tidy(callbacks, {i \in Index : main.pc = "clear_time" => i # main.index})

\* The alarm is the first slot's.
Alarmed ==
  /\ Leads(callbacks)
  /\ Live(callbacks) # {} => enabled /\ alarm = callbacks[1].unix_time

IAlarm == main.pc \in {"idle", "count"} /\ isr.pc \in {"out", "sample", "loop"} => Alarmed

\* No callback that goes back deletes all entries.
Mild(entry) == entry.next_time # 0 => ~asked[entry.callback].kills

IMild ==
  /\ \A i \in Live(callbacks) : Mild(callbacks[i])
  /\ main.pc = "store" => Mild(main.entry)
  /\ isr.pc \in {"remove", "again"} => Mild(isr.entry)

Exactly == IMain /\ IInterrupt /\ IHeld /\ IAlarm /\ IMild

-----------------------------------------------------------------------------
\* A search finds the slot it returns: 1 .. x shrinks as x does, and no chain of subsets of a
\* finite set shrinks for ever.
LEMMA FoundFirst ==
  ASSUME NEW S \in SUBSET Index, S # {}
  PROVE  Min(S) \in S
<1> DEFINE T == {1 .. x : x \in S}
           R == StrictSubsetOrdering(Index)
<1>1. IsWellFoundedOn(R, FiniteSubsetsOf(Index))
  <2>1. IsFiniteSet(Index)
    BY Sizes, FS_Interval DEF Index
  <2> QED BY <2>1, FS_StrictSubsetOrderingWellFounded
<1>2. \A x \in S : x \in Nat /\ x >= 1 /\ 1 .. x \subseteq Index
  BY Sizes DEF Index
<1>3. T \subseteq FiniteSubsetsOf(Index) /\ T # {}
  <2>1. ASSUME NEW x \in S PROVE IsFiniteSet(1 .. x)
    BY <1>2, FS_Interval
  <2> QED BY <1>2, <2>1 DEF FiniteSubsetsOf
<1> HIDE DEF R
<1>4. PICK t \in T : \A y \in T : ~(<<y, t>> \in R)
  <2> HIDE DEF T
  <2> QED BY <1>1, <1>3, WFMin
<1>5. PICK x \in S : t = 1 .. x
  BY <1>4
<1>6. ASSUME NEW y \in S, y < x PROVE FALSE
  <2>1. 1 .. y \subseteq 1 .. x /\ x \in 1 .. x /\ x \notin 1 .. y
    BY <1>2, <1>6
  <2>2. <<1 .. y, 1 .. x>> \in StrictSubsetOrdering(Index)
    BY <1>2, <2>1 DEF StrictSubsetOrdering
  <2> QED BY <1>4, <1>5, <2>2 DEF R
<1>7. \A y \in S : x <= y
  BY <1>2, <1>6
<1> QED BY <1>7 DEF Min

LEMMA SortMoves ==
  ASSUME NEW old \in [Index -> Entry], NEW new \in qsort(old)
  PROVE  /\ new \in [Index -> Entry]
         /\ \A i, j \in Index : i < j => new[i].unix_time <= new[j].unix_time
         /\ \E p \in [Index -> Index] :
              /\ \A i, j \in Index : p[i] = p[j] => i = j
              /\ \A j \in Index : \E i \in Index : p[i] = j
              /\ \A i \in Index : new[i] = old[p[i]]
<1>1. PICK p \in Bijection(Index, Index) :
        /\ new = [i \in Index |-> old[p[i]]]
        /\ \A i, j \in Index : i < j => old[p[i]].unix_time <= old[p[j]].unix_time
  BY DEF qsort
<1>2. /\ p \in [Index -> Index]
      /\ \A i, j \in Index : p[i] = p[j] => i = j
      /\ \A j \in Index : \E i \in Index : p[i] = j
  BY DEF Bijection, Injection, IsInjective, Surjection
<1>3. new \in [Index -> Entry] /\ \A i \in Index : new[i] = old[p[i]]
  BY <1>1, <1>2
<1> QED BY <1>1, <1>2, <1>3

\* The sort keeps what the slots say and brings the entry due first to the front.
LEMMA SortKeeps ==
  ASSUME NEW old \in [Index -> Entry], NEW new \in qsort(old), Tidy(old, Index),
         NEW requests, NEW ids, Exact(old, requests, ids)
  PROVE  /\ new \in [Index -> Entry] /\ Tidy(new, Index) /\ Exact(new, requests, ids)
         /\ Leads(new)
         /\ Live(old) # Index => Live(new) # Index
         /\ \A i \in Live(new) : \E j \in Live(old) : new[i] = old[j]
<1>1. /\ new \in [Index -> Entry]
      /\ \A i, j \in Index : i < j => new[i].unix_time <= new[j].unix_time
  BY SortMoves
<1>2. PICK p \in [Index -> Index] :
        /\ \A i, j \in Index : p[i] = p[j] => i = j
        /\ \A j \in Index : \E i \in Index : p[i] = j
        /\ \A i \in Index : new[i] = old[p[i]]
  BY SortMoves
<1>3. \A i \in Index : p[i] \in Index /\ (i \in Live(new) <=> p[i] \in Live(old))
  BY <1>2 DEF Live
<1>4. Tidy(new, Index)
  BY <1>2, <1>3 DEF Tidy
<1>5. Exact(new, requests, ids)
  <2>1. \A i \in Live(new) : i \in Index /\ p[i] \in Live(old) /\ new[i] = old[p[i]]
    BY <1>2, <1>3 DEF Live
  <2>2. \A j \in Live(old) : \E i \in Live(new) : p[i] = j /\ new[i] = old[j]
    BY <1>2, <1>3 DEF Live
  <2>3. /\ \A i \in Live(new) : new[i].callback \in requests /\ new[i].id < ids
                                /\ new[i].unix_time < NULL_UNIX_TIME
        /\ \A r \in requests : \E i \in Live(new) : new[i].callback = r
    BY <2>1, <2>2 DEF Exact
  <2>4. ASSUME NEW i \in Live(new), NEW j \in Live(new),
               new[i].callback = new[j].callback \/ new[i].id = new[j].id
        PROVE  i = j
    <3>1. p[i] = p[j]
      BY <2>1, <2>4 DEF Exact
    <3> QED BY <1>2, <2>1, <3>1
  <2> QED BY <2>3, <2>4 DEF Exact
<1>6. Leads(new)
  <2>1. SUFFICES ASSUME NEW k \in Live(new)
                 PROVE  /\ 1 \in Live(new)
                        /\ \A i \in Live(new) : new[1].unix_time <= new[i].unix_time
    BY DEF Leads
  <2>2. \A i \in Index : new[i].unix_time \in Nat /\ i \in Nat /\ 1 <= i
    BY <1>1 DEF Entry, Index
  <2>3. \A i \in Live(new) : i \in Index /\ new[1].unix_time <= new[i].unix_time
    BY <1>1, <2>2, Sizes DEF Live
  <2>4. new[k].unix_time < NULL_UNIX_TIME /\ NULL_UNIX_TIME \in Nat
    BY <1>5, Sizes DEF Exact, NULL_UNIX_TIME
  <2>5. 1 \in Index /\ new[1].unix_time # NULL_UNIX_TIME
    BY <2>2, <2>3, <2>4, Sizes
  <2> QED BY <1>4, <2>3, <2>5 DEF Tidy
<1>7. Live(old) # Index => Live(new) # Index
  BY <1>2, <1>3 DEF Live
<1>8. \A i \in Live(new) : \E j \in Live(old) : new[i] = old[j]
  BY <1>2, <1>3 DEF Live
<1> QED BY <1>1, <1>4, <1>5, <1>6, <1>7, <1>8

\* And the alarm is set for it.
LEMMA SortSets ==
  ASSUME NEW old \in [Index -> Entry], SortAndSetAlarm(old), Tidy(old, Index),
         NEW requests, NEW ids, Exact(old, requests, ids)
  PROVE  /\ callbacks' \in [Index -> Entry] /\ Tidy(callbacks', Index)
         /\ Exact(callbacks', requests, ids) /\ Alarmed'
         /\ Live(old) # Index => Live(callbacks') # Index
         /\ \A i \in Live(callbacks') : \E j \in Live(old) : callbacks'[i] = old[j]
<1>1. callbacks' \in qsort(old) /\ setAlarm(callbacks'[1])
  BY DEF SortAndSetAlarm
<1>2. /\ callbacks' \in [Index -> Entry] /\ Tidy(callbacks', Index)
      /\ Exact(callbacks', requests, ids) /\ Leads(callbacks')
      /\ Live(old) # Index => Live(callbacks') # Index
      /\ \A i \in Live(callbacks') : \E j \in Live(old) : callbacks'[i] = old[j]
  BY <1>1, SortKeeps
<1>3. ASSUME Live(callbacks') # {} PROVE enabled' /\ alarm' = callbacks'[1].unix_time
  <2>1. callbacks'[1].id # NULL_ID
    BY <1>2, <1>3 DEF Leads, Live
  <2> QED BY <1>1, <2>1 DEF setAlarm
<1>4. Leads(callbacks)' /\ (Live(callbacks)' # {} => enabled' /\ alarm' = callbacks'[1].unix_time)
  BY <1>2, <1>3 DEF Leads, Live
<1>5. Alarmed'
  BY <1>4 DEF Alarmed
<1> QED BY <1>2, <1>5

\* A slot is emptied.
LEMMA SlotFreed ==
  ASSUME NEW old \in [Index -> Entry], NEW new \in [Index -> Entry], NEW m \in Live(old),
         new[m].id = NULL_ID, \A i \in Index : i # m => new[i] = old[i],
         NEW requests, NEW ids, Exact(old, requests, ids)
  PROVE  /\ Live(new) = Live(old) \ {m}
         /\ \A i \in Live(new) : new[i] = old[i]
         /\ Exact(new, requests \ {old[m].callback}, ids)
<1> DEFINE r == old[m].callback
<1>1. Live(new) = Live(old) \ {m}
  BY DEF Live
<1>2. \A i \in Live(new) : i \in Live(old) /\ i # m /\ new[i] = old[i]
  BY <1>1 DEF Live
<1>3. \A i \in Live(new) : old[i].callback # r
  BY <1>2 DEF Exact
<1>4. ASSUME NEW q \in requests \ {r}
      PROVE  \E i \in Live(new) : new[i].callback = q
  <2>1. PICK i \in Live(old) : old[i].callback = q
    BY DEF Exact
  <2>2. i # m
    BY <2>1
  <2> QED BY <1>1, <1>2, <2>1, <2>2
<1> HIDE DEF r
<1>5. Exact(new, requests \ {r}, ids)
  BY <1>2, <1>3, <1>4 DEF Exact
<1> QED BY <1>1, <1>2, <1>5 DEF r

\* A free slot is filled under the next id.
LEMMA SlotFilled ==
  ASSUME NEW old \in [Index -> Entry], NEW new \in [Index -> Entry],
         NEW m \in Index, m \notin Live(old), \A i \in Index : i # m => new[i] = old[i],
         NEW ids \in Nat, ids < UINT32_MAX, new[m].id = ids, new[m].unix_time < NULL_UNIX_TIME,
         NEW requests, new[m].callback \in requests,
         Exact(old, requests \ {new[m].callback}, ids)
  PROVE  /\ Live(new) = Live(old) \cup {m}
         /\ Exact(new, requests, ids + 1)
<1> DEFINE e == new[m]
           r == e.callback
<1>1. UINT32_MAX \in Nat
  BY Sizes
<1>2. Live(new) = Live(old) \cup {m}
  BY <1>1 DEF Live, NULL_ID
<1>3. /\ \A i \in Live(old) : /\ old[i].callback \in requests \ {r}
                               /\ old[i].id < ids /\ old[i].id \in Nat
                               /\ old[i].unix_time < NULL_UNIX_TIME
                               /\ i # m /\ new[i] = old[i]
      /\ \A q \in requests \ {r} : \E i \in Live(old) : old[i].callback = q
      /\ \A i, j \in Live(old) :
           old[i].callback = old[j].callback \/ old[i].id = old[j].id => i = j
  BY DEF Exact, Live, Entry
<1> HIDE DEF r
<1>4. \A i \in Live(new) : /\ new[i].callback \in requests
                           /\ new[i].id < ids + 1
                           /\ new[i].unix_time < NULL_UNIX_TIME
  BY <1>2, <1>3
<1>5. \A q \in requests : \E i \in Live(new) : new[i].callback = q
  BY <1>2, <1>3 DEF r
<1>6. ASSUME NEW i \in Live(new), NEW j \in Live(new),
             new[i].callback = new[j].callback \/ new[i].id = new[j].id
      PROVE  i = j
  <2>1. \A k \in Live(old) : new[k].callback # e.callback /\ new[k].id # ids
    BY <1>3 DEF r
  <2> QED BY <1>2, <1>3, <1>6, <2>1
<1> QED BY <1>2, <1>4, <1>5, <1>6 DEF Exact

-----------------------------------------------------------------------------
(* The main thread.                                                        *)

\* A step that leaves the requests, and keeps what the slots in use say.
LEMMA MildKeeps ==
  ASSUME IMild, UNCHANGED asked, isr.pc = "out", isr' = isr,
         main'.pc = "store" => main' = main,
         \A i \in Live(callbacks') : \E j \in Live(callbacks) : callbacks'[i] = callbacks[j]
  PROVE  IMild'
BY DEF IMild, Mild, Live

\* The part of the invariant that remains when the interrupt is out.
LEMMA OutExactly ==
  ASSUME isr'.pc = "out", IMain', IHeld', IMild',
         main'.pc \in {"idle", "count"} => Alarmed'
  PROVE  Exactly'
BY DEF Exactly, IInterrupt, IAlarm

LEMMA ScheduleExactly ==
  ASSUME IInv, Exactly, NEW request \in Asked, ~(request.continuous /\ request.kills),
         Schedule(request)
  PROVE  Exactly'
<1>1. PICK r \in Request :
         /\ asked[r].state = "none"
         /\ Holding(NULL_ID) # {}
         /\ main' = [pc |-> "store", index |-> Min(Holding(NULL_ID)),
                     entry |-> [id |-> NULL_ID, unix_time |-> clock + request.delta,
                                next_time |-> next_time(request), callback |-> r]]
         /\ asked' = [asked EXCEPT ![r] = [@ EXCEPT !.state = "waiting", !.left = request.delta,
                                             !.today = clock + request.delta < Day,
                                             !.kills = request.kills]]
  BY DEF Schedule
<1>2. isr.pc = "out" /\ main.pc = "idle" /\ UNCHANGED <<callbacks, id_counter, isr>>
  BY DEF Schedule, MainRuns, table
<1>3. asked \in AskedType
  BY Parts
<1>4. /\ asked'[r].state = "waiting" /\ asked'[r].kills = request.kills
      /\ \A q \in Request : q # r => asked'[q] = asked[q]
  BY <1>1, <1>3 DEF AskedType
<1>5. Waiting' = Waiting \cup {r} /\ r \notin Waiting /\ r \in Waiting'
  BY <1>1, <1>4 DEF Waiting
<1>6. /\ main'.pc = "store" /\ main'.index = Min(Holding(NULL_ID)) /\ main'.entry.callback = r
      /\ main'.entry.next_time = next_time(request)
  BY <1>1
<1>7. main'.index \in Holding(NULL_ID)
  <2>1. Holding(NULL_ID) \in SUBSET Index
    BY DEF Holding
  <2> QED BY <1>1, <1>6, <2>1, FoundFirst
<1>8. IMain'
  BY <1>2, <1>5, <1>6, <1>7 DEF IMain, Holding, Live
<1>9. IHeld'
  <2>1. Present = Waiting /\ Ids = id_counter
    BY <1>2 DEF Present, Ids
  <2>2. Present' = Waiting /\ Ids' = id_counter
    BY <1>2, <1>5, <1>6 DEF Present, Ids
  <2> QED BY <1>2, <1>6, <2>1, <2>2 DEF Exactly, IHeld, Exact, Tidy, Live
<1>10. IMild'
  <2>1. \A i \in Live(callbacks) : callbacks[i].callback \in Waiting
    BY <1>2 DEF Exactly, IHeld, Exact, Present
  <2>2. \A i \in Live(callbacks) : asked'[callbacks[i].callback] = asked[callbacks[i].callback]
    BY <1>4, <1>5, <2>1 DEF Waiting
  <2>3. request.continuous \in BOOLEAN /\ request.kills \in BOOLEAN
    BY Sizes
  <2>4. main'.entry.next_time # 0 => ~asked'[r].kills
    BY <1>4, <1>6, <2>3 DEF next_time
  <2> QED BY <1>2, <1>6, <2>2, <2>4 DEF Exactly, IMild, Mild, Live
<1> QED BY <1>2, <1>6, <1>8, <1>9, <1>10, OutExactly

LEMMA StoreExactly ==
  ASSUME IInv, IInv', cut = NoCut, Exactly, InRange', StoreEntry
  PROVE  Exactly'
<1> DEFINE m == main.index
           e == main'.entry
           r == main.entry.callback
<1>1. /\ isr.pc = "out" /\ main.pc = "store" /\ UNCHANGED <<id_counter, isr, asked>>
      /\ main' = [pc |-> "sort", index |-> 1, entry |-> [main.entry EXCEPT !.id = id_counter]]
      /\ callbacks' = [callbacks EXCEPT ![m] = e]
  BY StoreWhole DEF MainRuns
<1>2. main.entry \in Entry /\ id_counter \in Nat /\ callbacks \in [Index -> Entry]
  BY <1>1, Parts DEF Storing
<1>3. main' = [pc |-> "sort", index |-> 1, entry |-> [main.entry EXCEPT !.id = id_counter]]
  BY <1>1
<1>4. /\ main'.pc = "sort" /\ e.callback = r /\ e.id = id_counter
      /\ e.next_time = main.entry.next_time /\ e.unix_time = main.entry.unix_time
  BY <1>2, <1>3 DEF Entry
<1>5. m \in Index /\ m \notin Live(callbacks) /\ r \in Waiting
  BY <1>1 DEF Exactly, IMain
<1>6. \A i \in Index : callbacks'[i] = IF i = m THEN e ELSE callbacks[i]
  BY <1>1, <1>2
<1>7. id_counter < UINT32_MAX /\ UINT32_MAX \in Nat
  BY <1>1, Sizes DEF InRange
<1> HIDE DEF e
<1>8. Waiting' = Waiting
  BY <1>1 DEF Waiting
<1>9. Present = Waiting \ {r} /\ Ids = id_counter /\ Present' = Waiting /\ Ids' = id_counter + 1
  BY <1>1, <1>4, <1>8 DEF Present, Ids
<1>10. IMain'
  BY <1>1, <1>4 DEF IMain
<1>11. e.unix_time < NULL_UNIX_TIME
  <2>1. m \in Live(callbacks')
    BY <1>4, <1>5, <1>6, <1>7 DEF Live, NULL_ID
  <2>2. \A i \in Live(callbacks') : callbacks'[i].unix_time < NULL_UNIX_TIME
    BY DEF InRange, Live
  <2> QED BY <1>5, <1>6, <2>1, <2>2
<1>12. Live(callbacks') = Live(callbacks) \cup {m} /\ Exact(callbacks', Waiting, id_counter + 1)
  <2>1. callbacks' \in [Index -> Entry]
    BY Parts DEF IInv, IShape
  <2>2. Exact(callbacks, Waiting \ {r}, id_counter)
    BY <1>9 DEF Exactly, IHeld
  <2>3. callbacks'[m] = e
    BY <1>5, <1>6
  <2> HIDE DEF m, r
  <2> QED BY <1>2, <1>4, <1>5, <1>6, <1>7, <1>11, <2>1, <2>2, <2>3, SlotFilled
<1>13. Tidy(callbacks', Index)
  BY <1>1, <1>6, <1>12 DEF Exactly, IHeld, Tidy, Live
<1>14. IHeld'
  BY <1>4, <1>9, <1>12, <1>13 DEF IHeld, Tidy, Exact, Live
<1>15. IMild'
  <2>1. \A i \in Live(callbacks') : callbacks'[i].next_time # 0 => ~asked[callbacks'[i].callback].kills
    BY <1>1, <1>4, <1>5, <1>6, <1>12 DEF Exactly, IMild, Mild, Live
  <2> QED BY <1>1, <1>4, <2>1 DEF IMild, Mild, Live
<1> QED BY <1>1, <1>4, <1>10, <1>14, <1>15, OutExactly

LEMMA SortStoredExactly ==
  ASSUME IInv, cut = NoCut, Exactly, SortStored
  PROVE  Exactly'
<1>1. /\ isr.pc = "out" /\ main.pc = "sort" /\ UNCHANGED <<id_counter, isr, asked>>
      /\ SortAndSetAlarm(callbacks) /\ main' = [main EXCEPT !.pc = "count"]
  BY SortWhole DEF SortStored, MainRuns, history
<1>2. main'.pc = "count" /\ callbacks \in [Index -> Entry]
  BY <1>1, Parts
<1>3. Tidy(callbacks, Index) /\ Exact(callbacks, Waiting, id_counter + 1)
  BY <1>1 DEF Exactly, IHeld, Present, Ids, Tidy
<1>4. /\ Tidy(callbacks', Index) /\ Exact(callbacks', Waiting, id_counter + 1) /\ Alarmed'
      /\ \A i \in Live(callbacks') : \E j \in Live(callbacks) : callbacks'[i] = callbacks[j]
  BY <1>1, <1>2, <1>3, SortSets
<1>5. Present' = Waiting /\ Ids' = id_counter + 1
  BY <1>1, <1>2 DEF Present, Ids, Waiting
<1>6. IHeld'
  BY <1>2, <1>4, <1>5 DEF IHeld, Tidy, Exact, Live
<1>7. IMain' /\ IMild'
  BY <1>1, <1>2, <1>4, MildKeeps DEF Exactly, IMain
<1> QED BY <1>1, <1>4, <1>6, <1>7, OutExactly

LEMMA CountExactly ==
  ASSUME IInv, Exactly, CountId
  PROVE  Exactly'
<1>1. /\ isr.pc = "out" /\ main.pc = "count" /\ main' = Resting /\ id_counter' = id_counter + 1
      /\ asked' = [asked EXCEPT ![main.entry.callback].id = main.entry.id]
      /\ UNCHANGED <<callbacks, isr, alarm, enabled>>
  BY DEF CountId, MainRuns, next_id, hardware
<1>2. main'.pc = "idle"
  BY <1>1, Rest
<1>3. \A r \in Request : asked'[r].state = asked[r].state /\ asked'[r].kills = asked[r].kills
  <2> DEFINE id == main.entry.id
             q == main.entry.callback
  <2>1. asked \in AskedType /\ asked' = [asked EXCEPT ![q].id = id]
    BY <1>1, Parts
  <2> HIDE DEF id, q
  <2>2. ASSUME NEW r \in Request PROVE asked'[r].state = asked[r].state /\ asked'[r].kills = asked[r].kills
    <3>1. CASE r = q
      BY <2>1, <3>1 DEF AskedType
    <3>2. CASE r # q
      BY <2>1, <3>2 DEF AskedType
    <3> QED BY <3>1, <3>2
  <2> QED BY <2>2
<1>4. Waiting' = Waiting
  BY <1>3 DEF Waiting
<1>5. Present = Waiting /\ Ids = id_counter + 1 /\ Present' = Waiting /\ Ids' = id_counter + 1
  BY <1>1, <1>2, <1>4 DEF Present, Ids
<1>6. IHeld'
  BY <1>1, <1>2, <1>5 DEF Exactly, IHeld, Tidy, Exact, Live
<1>7. Alarmed'
  BY <1>1 DEF Exactly, IAlarm, Alarmed, Leads, Live
<1>8. IMild'
  <2>1. \A i \in Live(callbacks) : callbacks[i].callback \in Request
    BY <1>5 DEF Exactly, IHeld, Exact, Waiting
  <2> QED BY <1>1, <1>2, <1>3, <2>1 DEF Exactly, IMild, Mild, Live
<1>9. IMain'
  BY <1>1, <1>2 DEF IMain
<1> QED BY <1>1, <1>6, <1>7, <1>8, <1>9, OutExactly

LEMMA DeleteExactly ==
  ASSUME IInv, Exactly, NEW id, Delete(id)
  PROVE  Exactly'
<1>1. /\ isr.pc = "out" /\ main.pc = "idle" /\ id # NULL_ID
      /\ UNCHANGED <<callbacks, id_counter, isr, asked, alarm, enabled>>
      /\ \/ Holding(id) # {} /\ main' = [pc |-> "clear", index |-> Min(Holding(id)), entry |-> Dummy]
         \/ main' = main
  BY DEF Delete, MainRuns, table, hardware
<1>2. Waiting' = Waiting /\ Live(callbacks)' = Live(callbacks)
  BY <1>1 DEF Waiting, Live
<1>3. Alarmed'
  BY <1>1 DEF Exactly, IAlarm, Alarmed, Leads, Live
<1>4. main'.pc \in {"idle", "clear"} /\ (main'.pc = "clear" => main'.index \in Live(callbacks))
  <2>1. CASE main' = main
    BY <1>1, <2>1
  <2>2. CASE Holding(id) # {} /\ main' = [pc |-> "clear", index |-> Min(Holding(id)), entry |-> Dummy]
    <3>1. Holding(id) \in SUBSET Index
      BY DEF Holding
    <3>2. Min(Holding(id)) \in Holding(id)
      BY <2>2, <3>1, FoundFirst
    <3> QED BY <1>1, <2>2, <3>2 DEF Holding, Live
  <2> QED BY <1>1, <2>1, <2>2
<1>5. IMain'
  BY <1>1, <1>2, <1>4 DEF IMain, Live
<1>6. Present = Waiting /\ Ids = id_counter /\ Present' = Waiting /\ Ids' = id_counter
  BY <1>1, <1>2, <1>4 DEF Present, Ids
<1>7. IHeld'
  BY <1>1, <1>4, <1>6 DEF Exactly, IHeld, Tidy, Exact, Live
<1>8. IMild'
  BY <1>1, <1>2, <1>4 DEF Exactly, IMild, Mild
<1> QED BY <1>1, <1>3, <1>5, <1>7, <1>8, OutExactly

LEMMA ClearIdExactly ==
  ASSUME IInv, IInv', Exactly, ClearId
  PROVE  Exactly'
<1> DEFINE m == main.index
           r == callbacks[m].callback
<1>1. /\ isr.pc = "out" /\ main.pc = "clear" /\ UNCHANGED <<id_counter, isr, asked>>
      /\ main' = [main EXCEPT !.pc = "clear_time", !.entry = callbacks[m]]
      /\ callbacks' = [callbacks EXCEPT ![m].id = NULL_ID]
  BY DEF ClearId, MainRuns, history
<1>2. callbacks \in [Index -> Entry] /\ m \in Index /\ m \in Live(callbacks)
  BY <1>1, Parts DEF Exactly, IMain
<1>3. main'.pc = "clear_time" /\ main'.index = m /\ main'.entry.callback = r
  BY <1>1, Parts
<1>4. \A i \in Index : /\ callbacks[i] \in Entry
                       /\ callbacks'[i] = IF i = m THEN [callbacks[i] EXCEPT !.id = NULL_ID]
                                          ELSE callbacks[i]
  BY <1>1, <1>2
<1>5. callbacks'[m].id = NULL_ID
  BY <1>2, <1>4 DEF Entry
<1>6. Waiting' = Waiting
  BY <1>1 DEF Waiting
<1>7. Present = Waiting /\ Ids = id_counter /\ Present' = Waiting \ {r} /\ Ids' = id_counter
  BY <1>1, <1>3, <1>6 DEF Present, Ids
<1>8. r \in Waiting
  BY <1>2, <1>7 DEF Exactly, IHeld, Exact
<1>9. Exact(callbacks, Waiting, id_counter)
  BY <1>7 DEF Exactly, IHeld
<1>10. /\ Live(callbacks') = Live(callbacks) \ {m}
       /\ \A i \in Live(callbacks') : callbacks'[i] = callbacks[i]
       /\ Exact(callbacks', Waiting \ {r}, id_counter)
  <2>1. callbacks' \in [Index -> Entry]
    BY DEF IInv, IShape
  <2> HIDE DEF m
  <2> QED BY <1>2, <1>4, <1>5, <1>9, <2>1, SlotFreed
<1> HIDE DEF m, r
<1>11. IMain'
  BY <1>1, <1>2, <1>3, <1>6, <1>8, <1>10 DEF IMain, Live
<1>12. Tidy(callbacks', Index \ {m})
  <2>1. \A i \in Index : i \in Live(callbacks) \/ callbacks[i].unix_time = NULL_UNIX_TIME
    BY <1>1 DEF Exactly, IHeld, Tidy
  <2>2. \A i \in Index \ {m} : callbacks'[i] = callbacks[i]
    BY <1>4
  <2> QED BY <1>10, <2>1, <2>2 DEF Tidy
<1>13. IHeld'
  <2>1. {i \in Index : main'.pc = "clear_time" => i # main'.index} = Index \ {m}
    BY <1>3
  <2> QED BY <1>7, <1>10, <1>12, <2>1 DEF IHeld, Tidy, Exact, Live
<1>14. IMild'
  BY <1>1, <1>3, <1>10, MildKeeps DEF Exactly, Live
<1> QED BY <1>1, <1>3, <1>11, <1>13, <1>14, OutExactly

LEMMA ClearTimeExactly ==
  ASSUME IInv, Exactly, ClearTime
  PROVE  Exactly'
<1> DEFINE m == main.index
<1>1. /\ isr.pc = "out" /\ main.pc = "clear_time" /\ UNCHANGED <<id_counter, isr, asked>>
      /\ main' = [main EXCEPT !.pc = "resort", !.index = 1]
      /\ callbacks' = [callbacks EXCEPT ![m].unix_time = NULL_UNIX_TIME]
  BY DEF ClearTime, MainRuns, history
<1>2. callbacks \in [Index -> Entry] /\ m \in Index /\ m \notin Live(callbacks)
  BY <1>1, Parts DEF Exactly, IMain
<1>3. main'.pc = "resort" /\ main'.entry = main.entry
  BY <1>1, Parts
<1>4. \A i \in Index : /\ callbacks[i] \in Entry
                       /\ callbacks'[i] = IF i = m THEN [callbacks[i] EXCEPT !.unix_time = NULL_UNIX_TIME]
                                          ELSE callbacks[i]
  BY <1>1, <1>2
<1>5. callbacks'[m].id = callbacks[m].id /\ callbacks'[m].unix_time = NULL_UNIX_TIME
  BY <1>2, <1>4 DEF Entry
<1>6. Live(callbacks') = Live(callbacks)
  BY <1>2, <1>4, <1>5 DEF Live
<1>7. Waiting' = Waiting
  BY <1>1 DEF Waiting
<1>8. Present' = Present /\ Ids' = Ids
  BY <1>1, <1>3, <1>7 DEF Present, Ids
<1> HIDE DEF m
<1>9. IMain'
  BY <1>1, <1>3, <1>7 DEF Exactly, IMain
<1>10. \A i \in Live(callbacks) : callbacks'[i] = callbacks[i]
  BY <1>2, <1>4 DEF Live
<1>11. Exact(callbacks', Present, Ids)
  BY <1>6, <1>10 DEF Exactly, IHeld, Exact
<1>12. Tidy(callbacks', Index)
  BY <1>1, <1>4, <1>5, <1>6 DEF Exactly, IHeld, Tidy, m
<1>13. IHeld'
  BY <1>3, <1>8, <1>11, <1>12 DEF IHeld, Tidy, Exact, Live
<1>14. IMild'
  BY <1>1, <1>3, <1>6, <1>10, MildKeeps DEF Exactly
<1> QED BY <1>1, <1>3, <1>9, <1>13, <1>14, OutExactly

LEMMA SortErasedExactly ==
  ASSUME IInv, cut = NoCut, Exactly, SortErased
  PROVE  Exactly'
<1> DEFINE r == main.entry.callback
<1>1. /\ isr.pc = "out" /\ main.pc = "resort" /\ UNCHANGED <<id_counter, isr>>
      /\ SortAndSetAlarm(callbacks) /\ main' = Resting
      /\ asked' = IF r = 0 THEN asked ELSE [asked EXCEPT ![r].state = "over"]
  BY SortWhole DEF SortErased, MainRuns
<1>2. main'.pc = "idle" /\ callbacks \in [Index -> Entry] /\ asked \in AskedType
  BY <1>1, Parts, Rest
<1>3. r \in Waiting /\ r \in Request /\ r # 0
  BY <1>1 DEF Exactly, IMain, Waiting, Request
<1>4. Tidy(callbacks, Index) /\ Exact(callbacks, Waiting \ {r}, id_counter)
  BY <1>1 DEF Exactly, IHeld, Present, Ids, Tidy
<1> HIDE DEF r
<1>5. /\ asked'[r].state = "over"
      /\ \A q \in Request : q # r => asked'[q] = asked[q]
  BY <1>1, <1>2, <1>3 DEF AskedType
<1>6. Waiting' = Waiting \ {r}
  BY <1>3, <1>5 DEF Waiting
<1>7. /\ Tidy(callbacks', Index) /\ Exact(callbacks', Waiting \ {r}, id_counter) /\ Alarmed'
      /\ \A i \in Live(callbacks') : \E j \in Live(callbacks) : callbacks'[i] = callbacks[j]
  BY <1>1, <1>2, <1>4, SortSets
<1>8. Present' = Waiting \ {r} /\ Ids' = id_counter
  BY <1>1, <1>2, <1>6 DEF Present, Ids
<1>9. IHeld'
  BY <1>2, <1>7, <1>8 DEF IHeld, Tidy, Exact, Live
<1>10. IMain'
  BY <1>1, <1>2 DEF IMain
<1>11. IMild'
  <2>1. \A i \in Live(callbacks') : callbacks'[i].callback \in Request \ {r}
    BY <1>7 DEF Exact, Waiting
  <2>2. \A i \in Live(callbacks') : Mild(callbacks'[i])
    BY <1>7 DEF Exactly, IMild, Mild
  <2>3. \A i \in Live(callbacks') : callbacks'[i].next_time # 0 => ~asked'[callbacks'[i].callback].kills
    BY <1>5, <2>1, <2>2 DEF Mild
  <2> QED BY <1>1, <1>2, <2>3 DEF IMild, Mild, Live
<1> QED BY <1>1, <1>7, <1>9, <1>10, <1>11, OutExactly

\* Nothing is left once all entries are erased.
LEMMA NothingLeft ==
  ASSUME IInv, NEW ids
  PROVE  Live(AllErased) = {} /\ Tidy(AllErased, Index) /\ Exact(AllErased, {}, ids)
<1>1. \A i \in Index : AllErased[i].id = NULL_ID /\ AllErased[i].unix_time = NULL_UNIX_TIME
  BY ErasedAll, Parts DEF AllDead, Dead
<1> QED BY <1>1 DEF Live, Tidy, Exact

LEMMA DeleteAllExactly ==
  ASSUME IInv, Exactly, DeleteAll
  PROVE  Exactly'
<1>1. /\ isr.pc = "out" /\ UNCHANGED <<isr, asked>> /\ callbacks' = AllErased
      /\ main'.pc = "disarm"
  BY Rest DEF DeleteAll, MainRuns
<1>2. /\ Live(callbacks') = {} /\ Tidy(callbacks', Index) /\ Exact(callbacks', {}, Ids')
  BY <1>1, NothingLeft
<1>3. Present' = {}
  BY <1>1 DEF Present
<1>4. IHeld'
  BY <1>1, <1>2, <1>3 DEF IHeld, Tidy, Exact, Live
<1>5. IMain' /\ IMild'
  BY <1>1, <1>2 DEF IMain, IMild, Live
<1> QED BY <1>1, <1>4, <1>5, OutExactly

LEMMA DisarmExactly ==
  ASSUME IInv, Exactly, Disarm
  PROVE  Exactly'
<1>1. /\ isr.pc = "out" /\ main.pc = "disarm" /\ UNCHANGED <<callbacks, id_counter, isr>>
      /\ asked' = AllOver(asked) /\ main' = Resting
  BY DEF Disarm, MainRuns, table
<1>2. main'.pc = "idle"
  BY <1>1, Rest
<1>3. Exact(callbacks, {}, id_counter) /\ Tidy(callbacks, Index)
  BY <1>1 DEF Exactly, IHeld, Present, Ids, Tidy
<1>4. Live(callbacks') = {}
  BY <1>1, <1>3 DEF Exact, Live
<1>5. Waiting' = {}
  <2>1. asked \in AskedType
    BY Parts
  <2>2. ASSUME NEW r \in Request PROVE asked'[r].state # "waiting"
    BY <1>1, <2>1 DEF AllOver, AskedType
  <2> QED BY <2>2 DEF Waiting
<1>6. Present' = {} /\ Ids' = id_counter
  BY <1>1, <1>2, <1>5 DEF Present, Ids
<1>7. IHeld' /\ Alarmed'
  BY <1>1, <1>2, <1>3, <1>4, <1>6 DEF IHeld, Tidy, Exact, Live, Alarmed, Leads
<1>8. IMain' /\ IMild'
  BY <1>1, <1>2, <1>4 DEF IMain, IMild, Live
<1> QED BY <1>1, <1>7, <1>8, OutExactly

-----------------------------------------------------------------------------
(* The interrupt and the clock.                                            *)

\* A step of the interrupt that takes the first slot, or returns.
LEMMA TakeExactly ==
  ASSUME Exactly, UNCHANGED <<callbacks, id_counter, main, asked, alarm, enabled>>,
         isr.pc \in {"out", "sample", "loop"},
         \/ isr' = isr
         \/ isr'.pc \in {"out", "sample", "loop"} /\ main.pc = "idle"
         \/ isr'.pc = "run" /\ isr'.entry = callbacks[1] /\ 1 \in Live(callbacks) /\ main.pc = "idle"
  PROVE  Exactly'
<1>1. Waiting' = Waiting /\ Live(callbacks)' = Live(callbacks)
  BY DEF Waiting, Live
<1>2. isr'.pc \in {"out", "sample", "loop", "run"}
  OBVIOUS
<1>3. Present' = Present /\ Ids' = Ids
  BY <1>1, <1>2 DEF Present, Ids
<1>4. IMain'
  BY <1>1 DEF Exactly, IMain
<1>5. IInterrupt'
  BY <1>1, <1>2 DEF Exactly, IInterrupt
<1>6. IHeld'
  BY <1>3 DEF Exactly, IHeld, Exact, Tidy, Live
<1>7. IAlarm'
  BY DEF Exactly, IAlarm, Alarmed, Leads, Live
<1>8. IMild'
  BY <1>1, <1>2 DEF Exactly, IMild, Mild
<1> QED BY <1>4, <1>5, <1>6, <1>7, <1>8 DEF Exactly

LEMMA EnterExactly ==
  ASSUME IInv, Exactly, ~interrupted', Enter
  PROVE  Exactly'
<1>1. /\ isr.pc = "out" /\ UNCHANGED <<callbacks, id_counter, main, asked, alarm, enabled>>
      /\ \/ isr' = isr
         \/ /\ callbacks[1].id # NULL_ID /\ main.pc = "idle"
            /\ isr' = [isr EXCEPT !.pc = "run", !.entry = callbacks[1]]
  BY EnterWhole
<1>2. CASE isr' = isr
  BY <1>1, <1>2, TakeExactly
<1>3. CASE callbacks[1].id # NULL_ID /\ main.pc = "idle"
           /\ isr' = [isr EXCEPT !.pc = "run", !.entry = callbacks[1]]
  <2>1. isr'.pc = "run" /\ isr'.entry = callbacks[1] /\ 1 \in Live(callbacks)
    BY <1>3, Parts, Sizes DEF Live
  <2> QED BY <1>1, <1>3, <2>1, TakeExactly
<1> QED BY <1>1, <1>2, <1>3

\* What is due has a slot in use: an empty one is never due.
LEMMA LoopExactly ==
  ASSUME IInv, Exactly, Sample \/ Loop \/ Leave
  PROVE  Exactly'
<1>1. /\ isr.pc \in {"sample", "loop"} /\ main.pc = "idle"
      /\ UNCHANGED <<callbacks, id_counter, main, asked, alarm, enabled>>
      /\ \/ isr' = [isr EXCEPT !.pc = "loop", !.first = FALSE, !.now = clock]
         \/ due(callbacks[1]) /\ isr' = [isr EXCEPT !.pc = "run", !.entry = callbacks[1]]
         \/ isr' = Outside
  BY DEF Sample, Loop, Leave, table, history, hardware, Take, Exactly, IMain, thread
<1>2. CASE isr' = Outside \/ isr' = [isr EXCEPT !.pc = "loop", !.first = FALSE, !.now = clock]
  <2>1. isr' = Outside => isr'.pc = "out"
    BY DEF Outside
  <2>2. isr' = [isr EXCEPT !.pc = "loop", !.first = FALSE, !.now = clock] => isr'.pc = "loop"
    BY Parts
  <2> QED BY <1>1, <1>2, <2>1, <2>2, TakeExactly
<1>3. CASE due(callbacks[1]) /\ isr' = [isr EXCEPT !.pc = "run", !.entry = callbacks[1]]
  <2>1. isr'.pc = "run" /\ isr'.entry = callbacks[1]
    BY <1>3, Parts
  <2>2. callbacks[1].unix_time # NULL_UNIX_TIME
    BY <1>3, Parts, Sizes DEF IsrType, due, NULL_UNIX_TIME
  <2>3. 1 \in Live(callbacks)
    BY <1>1, <2>2, Sizes DEF Exactly, IHeld, Tidy
  <2> QED BY <1>1, <2>1, <2>3, TakeExactly
<1> QED BY <1>1, <1>2, <1>3

(* What is recorded of the request whose callback runs. *)
LEMMA RunRecords ==
  ASSUME IInv, isr.entry.callback \in Request
  PROVE  LET r == isr.entry.callback
             over == isr.entry.next_time = 0
             ran == [asked EXCEPT ![r].runs = 1, ![r].state = IF over THEN "over" ELSE @]
         IN /\ ran \in AskedType
            /\ ran[r].runs = 1
            /\ ran[r].state = IF over THEN "over" ELSE asked[r].state
            /\ ran[r].kills = asked[r].kills
            /\ ran[r].left = asked[r].left /\ ran[r].today = asked[r].today
            /\ \A q \in Request : q # r => ran[q] = asked[q]
<1> DEFINE r == isr.entry.callback
           state == IF isr.entry.next_time = 0 THEN "over" ELSE asked[r].state
           record == [asked[r] EXCEPT !.runs = 1, !.state = state]
           Record == [state : {"none", "waiting", "over"}, id : Nat, left : Nat,
                      today : BOOLEAN, kills : BOOLEAN, runs : Nat]
           ran == [asked EXCEPT ![r].runs = 1,
                                ![r].state = IF isr.entry.next_time = 0 THEN "over" ELSE @]
<1>1. asked \in [Request -> Record] /\ r \in Request
  BY Parts DEF AskedType
<1>2. asked[r] \in Record /\ state \in {"none", "waiting", "over"}
  BY <1>1
<1>3. ran = [asked EXCEPT ![r] = record]
  BY <1>1, <1>2
<1> HIDE DEF state, r, ran
<1>4. /\ record \in Record /\ record.runs = 1 /\ record.state = state
      /\ record.kills = asked[r].kills /\ record.left = asked[r].left
      /\ record.today = asked[r].today
  BY <1>2
<1> HIDE DEF record, Record
<1>5. ran \in [Request -> Record] /\ ran[r] = record
  BY <1>1, <1>3, <1>4
<1>6. \A q \in Request : q # r => ran[q] = asked[q]
  BY <1>1, <1>3
<1>7. /\ ran \in AskedType
      /\ ran[r].runs = 1 /\ ran[r].state = state
      /\ ran[r].kills = asked[r].kills /\ ran[r].left = asked[r].left
      /\ ran[r].today = asked[r].today
  BY <1>4, <1>5 DEF AskedType, Record
<1> QED BY <1>6, <1>7 DEF ran, r, state

LEMMA RunExactly ==
  ASSUME IInv, Exactly, RunCallback
  PROVE  Exactly'
<1> DEFINE e == isr.entry
           r == e.callback
           ran == [asked EXCEPT ![r].runs = 1,
                                ![r].state = IF e.next_time = 0 THEN "over" ELSE @]
<1>1. /\ isr.pc = "run" /\ isr' = [isr EXCEPT !.pc = "remove"] /\ main.pc = "idle"
      /\ UNCHANGED <<id_counter, main>>
      /\ \/ asked[r].kills /\ callbacks' = AllErased /\ asked' = AllOver(ran)
         \/ callbacks' = callbacks /\ asked' = ran
  BY DEF RunCallback, Exactly, IMain, thread
<1>2. isr'.pc = "remove" /\ isr'.entry = e /\ asked \in AskedType
  BY <1>1, Parts
<1>3. /\ 1 \in Live(callbacks) /\ callbacks[1] = e
      /\ Exact(callbacks, Waiting, id_counter) /\ Tidy(callbacks, Index) /\ Mild(e)
  BY <1>1 DEF Exactly, IInterrupt, IHeld, Present, Ids, Tidy, IMild
<1>4. r \in Waiting /\ r \in Request
  BY <1>3 DEF Exact, Waiting
<1>5. Ids' = id_counter
  BY <1>1 DEF Ids
<1> HIDE DEF r
<1>6. /\ ran \in AskedType
      /\ ran[r].state = IF e.next_time = 0 THEN "over" ELSE asked[r].state
      /\ ran[r].kills = asked[r].kills
      /\ \A q \in Request : q # r => ran[q] = asked[q]
  BY <1>4, RunRecords DEF r
<1> HIDE DEF ran
<1>7. CASE asked[r].kills /\ callbacks' = AllErased /\ asked' = AllOver(ran)
  <2>1. e.next_time = 0
    BY <1>3, <1>7 DEF Mild, r
  <2>2. Live(callbacks') = {} /\ Tidy(callbacks', Index) /\ Exact(callbacks', {}, id_counter)
    BY <1>7, NothingLeft
  <2>3. Waiting' = {}
    <3>1. ASSUME NEW q \in Request PROVE asked'[q].state # "waiting"
      BY <1>6, <1>7 DEF AllOver, AskedType
    <3> QED BY <3>1 DEF Waiting
  <2>4. Present' = {}
    BY <1>1, <1>2, <2>2, <2>3 DEF Present, Live
  <2>5. IMain' /\ IInterrupt' /\ IAlarm'
    BY <1>1, <1>2, <2>1, <2>2 DEF IMain, IInterrupt, IAlarm, Live
  <2>6. IHeld'
    BY <1>1, <1>5, <2>2, <2>4 DEF IHeld, Tidy, Exact, Live
  <2>7. IMild'
    BY <1>1, <1>2, <2>1, <2>2 DEF IMild, Mild, Live
  <2> QED BY <2>5, <2>6, <2>7 DEF Exactly
<1>8. CASE callbacks' = callbacks /\ asked' = ran
  <2>1. Waiting' = IF e.next_time = 0 THEN Waiting \ {r} ELSE Waiting
    BY <1>4, <1>6, <1>8 DEF Waiting
  <2>2. Present' = Waiting
    BY <1>1, <1>2, <1>3, <1>4, <1>8, <2>1 DEF Present, Live, r
  <2>3. IMain' /\ IAlarm'
    BY <1>1, <1>2 DEF IMain, IAlarm
  <2>4. IInterrupt'
    BY <1>2, <1>3, <1>4, <1>8, <2>1 DEF IInterrupt, Live, r
  <2>5. IHeld'
    BY <1>1, <1>3, <1>5, <1>8, <2>2 DEF IHeld, Tidy, Exact, Live
  <2>6. IMild'
    <3>1. \A i \in Live(callbacks) : callbacks[i].callback \in Request
      BY <1>3 DEF Exact, Waiting
    <3>2. \A q \in Request : asked'[q].kills = asked[q].kills
      BY <1>6, <1>8
    <3>3. e.next_time # 0 => ~asked'[e.callback].kills
      BY <1>3, <1>4, <3>2 DEF Mild, r
    <3>4. \A i \in Live(callbacks) : Mild(callbacks[i])'
      BY <1>8, <3>1, <3>2 DEF Exactly, IMild, Mild
    <3> QED BY <1>1, <1>2, <1>8, <3>3, <3>4 DEF IMild, Mild, Live
  <2> QED BY <2>3, <2>4, <2>5, <2>6 DEF Exactly
<1> QED BY <1>1, <1>7, <1>8 DEF r, ran

\* The slot of the entry that ran is the first, and the one that Remove finds.
LEMMA RemoveExactly ==
  ASSUME IInv, IInv', Exactly, Remove
  PROVE  Exactly'
<1> DEFINE e == isr.entry
           r == e.callback
           held == Holding(e.id)
           k == Min(held)
           erased == [callbacks EXCEPT ![k] = Erased(@)]
<1>1. /\ isr.pc = "remove" /\ UNCHANGED <<id_counter, main, asked>> /\ main.pc = "idle"
      /\ \/ held # {} /\ SortAndSetAlarm(erased)
         \/ held = {} /\ callbacks' = callbacks
      /\ isr' = IF e.next_time # 0 THEN [isr EXCEPT !.pc = "again"] ELSE Continue
  BY DEF Remove, history, Exactly, IMain, thread
<1>2. callbacks \in [Index -> Entry] /\ Mild(e) /\ held \in SUBSET Index
  BY <1>1, Parts DEF Exactly, IMild, Holding
<1>3. /\ erased \in [Index -> Entry]
      /\ \A i \in Index : erased[i] = IF i = k THEN Erased(callbacks[i]) ELSE callbacks[i]
      /\ \A i \in Index : Erased(callbacks[i]).id = NULL_ID
                          /\ Erased(callbacks[i]).unix_time = NULL_UNIX_TIME
  <2>1. \A i \in Index : Erased(callbacks[i]) \in Entry /\ Dead(Erased(callbacks[i]))
    BY <1>2, EntryWorn
  <2> QED BY <1>2, <2>1 DEF Dead
<1>4. Tidy(callbacks, Index) /\ Ids = id_counter /\ Exact(callbacks, Present, id_counter)
  BY <1>1 DEF Exactly, IHeld, Tidy, Ids
<1>5. Tidy(erased, Index)
  BY <1>3, <1>4 DEF Tidy, Live
<1>6. Waiting' = Waiting /\ Ids' = id_counter
  BY <1>1 DEF Waiting, Ids
<1>7. isr'.pc = IF e.next_time # 0 THEN "again" ELSE isr'.pc
  BY <1>1, Parts
<1>8. e.next_time # 0 => isr'.pc = "again" /\ isr'.entry = e
  BY <1>1, Parts
<1>9. e.next_time = 0 => isr'.pc \in {"sample", "loop"}
  BY <1>1, Continued DEF IInv
<1>10. IMain'
  BY <1>1 DEF IMain
<1> HIDE DEF e
<1>11. CASE Live(callbacks) = {}
  <2>1. e.next_time = 0 /\ Present = Waiting
    BY <1>1, <1>11 DEF Exactly, IInterrupt, Present, e
  <2>2. Waiting = {}
    BY <1>4, <1>11, <2>1 DEF Exact
  <2>3. Exact(erased, {}, id_counter)
    BY <1>3, <1>11 DEF Exact, Live
  <2> HIDE DEF erased, held
  <2>4. Exact(callbacks', {}, id_counter) /\ Tidy(callbacks', Index)
    BY <1>1, <1>3, <1>4, <1>5, <2>1, <2>2, <2>3, SortSets
  <2>5. Live(callbacks') = {}
    BY <2>4 DEF Exact
  <2>6. Present' = {}
    BY <1>1, <1>6, <1>9, <2>1, <2>2, <2>5 DEF Present
  <2>7. IHeld'
    BY <1>1, <1>6, <2>4, <2>6 DEF IHeld, Tidy, Exact, Live
  <2>8. IInterrupt' /\ IAlarm' /\ IMild'
    BY <1>1, <1>9, <2>1, <2>5 DEF IInterrupt, IAlarm, Alarmed, Leads, IMild, Live
  <2> QED BY <1>10, <2>7, <2>8 DEF Exactly
<1>12. CASE Live(callbacks) # {}
  <2>1. /\ 1 \in Live(callbacks) /\ callbacks[1] = e
        /\ r \in Waiting <=> e.next_time # 0
        /\ Present = Waiting \cup {r}
    BY <1>1, <1>12 DEF Exactly, IInterrupt, Present, e
  <2>2. held = {1}
    <3>1. ASSUME NEW i \in held PROVE i = 1
      <4>1. i \in Index /\ callbacks[i].id = callbacks[1].id
        BY <2>1 DEF Holding
      <4>2. i \in Live(callbacks)
        BY <2>1, <4>1 DEF Live
      <4> QED BY <1>4, <2>1, <4>1, <4>2 DEF Exact
    <3>2. 1 \in held
      BY <2>1 DEF Holding, Live
    <3> QED BY <3>1, <3>2
  <2>3. k = 1
    <3> HIDE DEF held
    <3> QED BY <1>2, <2>2, FoundFirst
  <2> HIDE DEF held, k
  <2>4. /\ \A i \in Index : i # 1 => erased[i] = callbacks[i]
        /\ erased[1].id = NULL_ID
    BY <1>3, <2>3, Sizes
  <2> HIDE DEF erased
  <2>5. /\ Live(erased) = Live(callbacks) \ {1}
        /\ \A i \in Live(erased) : erased[i] = callbacks[i]
        /\ Exact(erased, Waiting \ {r}, id_counter)
    <3>1. Exact(erased, Present \ {callbacks[1].callback}, id_counter)
          /\ Live(erased) = Live(callbacks) \ {1}
          /\ \A i \in Live(erased) : erased[i] = callbacks[i]
      <4>1. /\ callbacks \in [Index -> Entry] /\ erased \in [Index -> Entry]
            /\ k \in Live(callbacks) /\ erased[k].id = NULL_ID
            /\ \A i \in Index : i # k => erased[i] = callbacks[i]
            /\ Exact(callbacks, Present, id_counter)
        BY <1>2, <1>3, <1>4, <2>1, <2>3, <2>4
      <4>2. /\ Live(erased) = Live(callbacks) \ {k}
            /\ \A i \in Live(erased) : erased[i] = callbacks[i]
            /\ Exact(erased, Present \ {callbacks[k].callback}, id_counter)
        BY ONLY <4>1, SlotFreed
      <4> QED BY <2>3, <4>2
    <3>2. Present \ {callbacks[1].callback} = Waiting \ {r}
      BY <2>1
    <3> QED BY <3>1, <3>2
  <2>6. Live(erased) # Index
    BY <2>5, Sizes
  <2>7. /\ Tidy(callbacks', Index) /\ Exact(callbacks', Waiting \ {r}, id_counter) /\ Alarmed'
        /\ Live(callbacks') # Index
        /\ \A i \in Live(callbacks') : \E j \in Live(erased) : callbacks'[i] = erased[j]
    BY <1>1, <1>3, <1>5, <2>2, <2>5, <2>6, SortSets
  <2>8. Present' = Waiting \ {r}
    BY <1>1, <1>6, <1>8, <1>9, <2>1 DEF Present
  <2>9. IHeld'
    BY <1>1, <1>6, <2>7, <2>8 DEF IHeld, Tidy, Exact, Live
  <2>10. IInterrupt'
    BY <1>6, <1>8, <1>9, <2>1, <2>7 DEF IInterrupt, Live
  <2>11. IAlarm'
    BY <2>7 DEF IAlarm
  <2>12. IMild'
    <3>1. \A i \in Live(callbacks') : Mild(callbacks'[i])
      <4>1. ASSUME NEW i \in Live(callbacks') PROVE Mild(callbacks'[i])
        <5>1. PICK j \in Live(callbacks) : callbacks'[i] = callbacks[j]
          BY <2>5, <2>7
        <5> QED BY <5>1 DEF Exactly, IMild
      <4> QED BY <4>1
    <3> QED BY <1>1, <1>2, <1>8, <1>9, <3>1 DEF IMild, Mild, Live
  <2> QED BY <1>10, <2>9, <2>10, <2>11, <2>12 DEF Exactly
<1> QED BY <1>11, <1>12

\* The slot that Remove freed takes the entry that goes back, under a new id.
LEMMA AgainExactly ==
  ASSUME IInv, IInv', Exactly, InRange, InRange', Again
  PROVE  Exactly'
<1> DEFINE e == isr.entry
           r == e.callback
           new == [[e EXCEPT !.unix_time = @ + e.next_time] EXCEPT !.id = id_counter]
           k == Min(Holding(NULL_ID))
           inserted == [callbacks EXCEPT ![k] = new]
<1>1. /\ isr.pc = "again" /\ UNCHANGED <<main, asked>> /\ isr' = Continue /\ main.pc = "idle"
      /\ \/ SortAndSetAlarm(inserted) /\ id_counter' = id_counter + 1
         \/ Holding(NULL_ID) = {}
  BY DEF Again, history, Insert, next_id, Exactly, IMain, thread
<1>2. /\ callbacks \in [Index -> Entry] /\ e \in Entry /\ id_counter \in Nat
      /\ isr'.pc \in {"sample", "loop"} /\ id_counter < UINT32_MAX /\ UINT32_MAX \in Nat
  BY <1>1, Parts, Continued, Sizes DEF IInv, InRange, IsrType
<1>3. new \in Entry /\ new.callback = r /\ new.next_time = e.next_time /\ new.id = id_counter
  <2>1. e.unix_time + e.next_time \in Nat
    BY <1>2 DEF Entry
  <2> HIDE DEF e
  <2> QED BY <1>2, <2>1 DEF Entry
<1>4. /\ r \in Waiting /\ Live(callbacks) # Index /\ Mild(e)
      /\ Exact(callbacks, Waiting \ {r}, id_counter) /\ Tidy(callbacks, Index)
  BY <1>1 DEF Exactly, IInterrupt, IHeld, Present, Ids, Tidy, IMild
<1>5. Holding(NULL_ID) # {} /\ Holding(NULL_ID) \in SUBSET Index
  BY <1>4 DEF Holding, Live
<1>6. k \in Index /\ k \notin Live(callbacks)
  <2>1. k \in Holding(NULL_ID)
    BY <1>5, FoundFirst
  <2> QED BY <2>1 DEF Holding, Live
<1>7. SortAndSetAlarm(inserted) /\ id_counter' = id_counter + 1
  BY <1>1, <1>5
<1> HIDE DEF k, new, e
<1>8. /\ inserted \in [Index -> Entry]
      /\ \A i \in Index : i # k => inserted[i] = callbacks[i]
      /\ inserted[k] = new
  BY <1>2, <1>3, <1>6
<1> HIDE DEF inserted
<1>9. new.unix_time < NULL_UNIX_TIME
  <2>1. callbacks' \in qsort(inserted)
    BY <1>7 DEF SortAndSetAlarm
  <2>2. PICK i \in Index : callbacks'[i] = inserted[k]
    BY <1>6, <1>8, <2>1, SortMoves
  <2>3. i \in Live(callbacks')
    BY <1>2, <1>3, <1>8, <2>2 DEF Live, NULL_ID
  <2> QED BY <1>8, <2>2, <2>3 DEF InRange, Live
<1>10. /\ Live(inserted) = Live(callbacks) \cup {k}
       /\ Exact(inserted, Waiting, id_counter + 1)
  <2>1. Exact(callbacks, Waiting \ {inserted[k].callback}, id_counter)
    BY <1>3, <1>4, <1>8
  <2>2. /\ inserted[k].callback \in Waiting /\ inserted[k].id = id_counter
        /\ inserted[k].unix_time < NULL_UNIX_TIME
    BY <1>3, <1>4, <1>8, <1>9
  <2> QED BY <1>2, <1>6, <1>8, <2>1, <2>2, SlotFilled
<1>11. Tidy(inserted, Index)
  BY <1>4, <1>8, <1>10 DEF Tidy
<1>12. /\ Tidy(callbacks', Index) /\ Exact(callbacks', Waiting, id_counter + 1) /\ Alarmed'
       /\ \A i \in Live(callbacks') : \E j \in Live(inserted) : callbacks'[i] = inserted[j]
  BY <1>7, <1>8, <1>10, <1>11, SortSets
<1>13. Present' = Waiting /\ Ids' = id_counter + 1
  BY <1>1, <1>2, <1>7 DEF Present, Ids, Waiting
<1>14. IHeld'
  BY <1>1, <1>12, <1>13 DEF IHeld, Tidy, Exact, Live
<1>15. IMain' /\ IInterrupt' /\ IAlarm'
  BY <1>1, <1>2, <1>12 DEF IMain, IInterrupt, IAlarm
<1>16. IMild'
  <2>1. ASSUME NEW j \in Live(inserted)
        PROVE  inserted[j].next_time # 0 => ~asked[inserted[j].callback].kills
    <3>1. CASE j = k
      BY <1>3, <1>4, <1>8, <3>1 DEF Mild
    <3>2. CASE j # k
      <4>1. j \in Live(callbacks) /\ inserted[j] = callbacks[j]
        BY <1>8, <1>10, <3>2 DEF Live
      <4> QED BY <4>1 DEF Exactly, IMild, Mild
    <3> QED BY <3>1, <3>2
  <2>2. \A i \in Live(callbacks') : callbacks'[i].next_time # 0 => ~asked[callbacks'[i].callback].kills
    BY <1>12, <2>1
  <2> QED BY <1>1, <1>2, <2>2 DEF IMild, Mild, Live
<1> QED BY <1>14, <1>15, <1>16 DEF Exactly

\* A slot in use is of a request.
LEMMA LiveRequests ==
  ASSUME IInv, NEW i \in Live(callbacks)
  PROVE  i \in Index /\ callbacks[i] \in Entry /\ callbacks[i].callback \in Request
<1>1. IKnown /\ i \in Index
  BY DEF IInv, ITable, Live
<1>2. callbacks[i].callback # 0
  BY <1>1 DEF IKnown, KnownAt, Dead, Live
<1> QED BY <1>1, <1>2, Parts, EntryWorn

\* Time passes the table by.
LEMMA TickExactly ==
  ASSUME IInv, Exactly, Tick
  PROVE  Exactly'
<1>1. /\ UNCHANGED <<callbacks, id_counter, main, isr, alarm, enabled>>
      /\ asked' = [r \in Request |-> [asked[r] EXCEPT !.left = IF @ = 0 THEN 0 ELSE @ - 1]]
  BY DEF Tick, table, thread
<1>2. \A r \in Request : asked'[r].state = asked[r].state /\ asked'[r].kills = asked[r].kills
  <2>1. asked \in AskedType
    BY Parts
  <2> QED BY <1>1, <2>1 DEF AskedType
<1>3. Waiting' = Waiting /\ Live(callbacks)' = Live(callbacks)
  BY <1>1, <1>2 DEF Waiting, Live
<1>4. Present' = Present /\ Ids' = Ids
  BY <1>1, <1>3 DEF Present, Ids
<1>5. IMain' /\ IInterrupt'
  BY <1>1, <1>3 DEF Exactly, IMain, IInterrupt
<1>6. IHeld' /\ IAlarm'
  BY <1>1, <1>3, <1>4 DEF Exactly, IHeld, Exact, Tidy, IAlarm, Alarmed, Leads, Live
<1>7. IMild'
  <2>1. \A i \in Live(callbacks) : callbacks[i].callback \in Request
    BY LiveRequests
  <2>2. \A i \in Live(callbacks) : Mild(callbacks[i])'
    BY <1>1, <1>2, <2>1 DEF Exactly, IMild, Mild
  <2>3. main.pc = "store" => Mild(main.entry)'
    <3>1. main.pc = "store" => main.entry.callback \in Request
      BY DEF Exactly, IMain, Waiting
    <3> QED BY <1>1, <1>2, <3>1 DEF Exactly, IMild, Mild
  <2>4. isr.pc \in {"remove", "again"} => Mild(isr.entry)'
    <3>1. isr.pc \in {"remove", "again"} => isr.entry.callback \in Request
      BY Parts, EntryWorn DEF IsrType, IInv, ITable, IKnown, Holds
    <3> QED BY <1>1, <1>2, <3>1 DEF Exactly, IMild, Mild
  <2> QED BY <1>1, <1>3, <2>2, <2>3, <2>4 DEF IMild
<1> QED BY <1>5, <1>6, <1>7 DEF Exactly

-----------------------------------------------------------------------------
\* No callback asked for both goes back and deletes all entries.
NoSelfDelete == \A request \in Asked : ~(request.continuous /\ request.kills)

IExact == ~interrupted => Exactly

LEMMA ExactInit == Init => IExact
<1> SUFFICES ASSUME Init PROVE Exactly
  BY DEF IExact
<1>1. main.pc = "idle" /\ isr.pc = "out"
  BY DEF Init, Resting, Outside
<1>2. \A i \in Index : callbacks[i] = Dummy
  BY DEF Init
<1>3. Live(callbacks) = {} /\ Tidy(callbacks, Index)
  BY <1>2 DEF Live, Tidy, Dummy
<1>4. Waiting = {}
  BY DEF Init, Waiting
<1>5. Present = {}
  BY <1>1, <1>4 DEF Present
<1>6. IHeld
  BY <1>1, <1>3, <1>5 DEF IHeld, Exact, Tidy
<1>7. IMain /\ IInterrupt /\ IAlarm /\ IMild
  BY <1>1, <1>3 DEF IMain, IInterrupt, IAlarm, Alarmed, Leads, IMild
<1> QED BY <1>6, <1>7 DEF Exactly

LEMMA ExactStep ==
  ASSUME NoSelfDelete, Ind, Ind', IWhole, IWhole', InRange, InRange', IExact, [Next]_vars
  PROVE  IExact'
<1> SUFFICES ASSUME ~interrupted' PROVE Exactly'
  BY DEF IExact
<1>1. ~interrupted
  BY Uninterrupted
<1>2. Exactly /\ IInv /\ IInv' /\ cut = NoCut
  BY <1>1, Held DEF IExact, Ind, IWhole, Whole
<1>3. CASE Caller
  <2>1. ASSUME NEW request \in Asked, Schedule(request) PROVE Exactly'
    BY <1>2, <2>1, ScheduleExactly DEF NoSelfDelete
  <2>2. ASSUME NEW r \in Request, Delete(asked[r].id) PROVE Exactly'
    BY <1>2, <2>2, DeleteExactly
  <2>3. CASE DeleteAll
    BY <1>2, <2>3, DeleteAllExactly
  <2> QED BY <1>3, <2>1, <2>2, <2>3 DEF Caller
<1>4. CASE Main
  BY <1>2, <1>4, StoreExactly, SortStoredExactly, CountExactly, ClearIdExactly, ClearTimeExactly,
     SortErasedExactly, DisarmExactly DEF Main, Swap, NoCut
<1>5. CASE Interrupt
  BY <1>2, <1>5, EnterExactly, RunExactly, RemoveExactly, AgainExactly, LoopExactly DEF Interrupt
<1>6. CASE Tick
  BY <1>2, <1>6, TickExactly
<1>7. CASE UNCHANGED vars
  <2>1. UNCHANGED <<callbacks, id_counter, main, isr, alarm, enabled, asked>>
    BY <1>7 DEF vars, table, hardware, history, thread
  <2>2. Waiting' = Waiting /\ Live(callbacks)' = Live(callbacks)
    BY <2>1 DEF Waiting, Live
  <2>3. Present' = Present /\ Ids' = Ids
    BY <2>1, <2>2 DEF Present, Ids
  <2>4. IMain' /\ IInterrupt' /\ IMild'
    BY <1>2, <2>1, <2>2 DEF Exactly, IMain, IInterrupt, IMild, Mild
  <2>5. IHeld' /\ IAlarm'
    BY <1>2, <2>1, <2>2, <2>3 DEF Exactly, IHeld, Exact, Tidy, IAlarm, Alarmed, Leads, Live
  <2> QED BY <2>4, <2>5 DEF Exactly
<1> QED BY <1>3, <1>4, <1>5, <1>6, <1>7 DEF Next

\* A map that tells the slots apart has as many values as there are slots.
LEMMA SameNumber ==
  ASSUME NEW S \in SUBSET Index, NEW g, \A i, j \in S : g[i] = g[j] => i = j
  PROVE  Cardinality({g[i] : i \in S}) = Cardinality(S)
<1> DEFINE T == {g[i] : i \in S}
           h == [i \in S |-> g[i]]
<1>1. IsFiniteSet(S)
  <2>1. IsFiniteSet(Index)
    BY Sizes, FS_Interval DEF Index
  <2> QED BY <2>1, FS_Subset
<1>2. h \in Surjection(S, T) /\ h \in Injection(S, T)
  BY DEF Surjection, Injection, IsInjective
<1> HIDE DEF h, T
<1>3. Cardinality(T) = Cardinality(S)
  BY <1>1, <1>2, FS_Surjection
<1> QED BY <1>3 DEF T

(* As long as no callback cuts through an operation of the main thread, no *)
(* one asked for goes back and deletes all entries, and neither ids nor    *)
(* seconds are used up: between operations the table holds every waiting   *)
(* request once and nothing else, and the alarm is set for the first due.  *)
THEOREM CallbacksTableIsExact ==
  NoSelfDelete => (Spec /\ []InRange => []TableIsExact)
<1> SUFFICES ASSUME NoSelfDelete PROVE Spec /\ []InRange => []TableIsExact
  OBVIOUS
<1>1. Ind /\ Ind' /\ IWhole /\ IWhole' /\ InRange /\ InRange' /\ IExact /\ [Next]_vars => IExact'
  BY ExactStep
<1>2. IExact => TableIsExact
  <2> SUFFICES ASSUME Exactly, AtRest PROVE TableIsExact
    BY DEF IExact, TableIsExact
  <2>1. Active = Live(callbacks) /\ Active \in SUBSET Index
    BY DEF Active, Live
  <2>2. main.pc = "idle" /\ isr.pc = "out"
    BY DEF AtRest
  <2>3. Exact(callbacks, Waiting, id_counter) /\ Alarmed
    BY <2>2 DEF Exactly, IHeld, Present, Ids, IAlarm
  <2>4. {callbacks[i].callback : i \in Active} = {r \in Request : asked[r].state = "waiting"}
    BY <2>1, <2>3 DEF Exact, Waiting
  <2> DEFINE g == [i \in Index |-> callbacks[i].callback]
             h == [i \in Index |-> callbacks[i].id]
  <2>5. /\ \A i \in Index : g[i] = callbacks[i].callback /\ h[i] = callbacks[i].id
        /\ \A i, j \in Active : g[i] = g[j] \/ h[i] = h[j] => i = j
    BY <2>1, <2>3 DEF Exact
  <2> HIDE DEF g, h
  <2>6. Cardinality({g[i] : i \in Active}) = Cardinality(Active)
        /\ Cardinality({h[i] : i \in Active}) = Cardinality(Active)
    BY <2>1, <2>5, SameNumber
  <2>7. /\ {g[i] : i \in Active} = {callbacks[i].callback : i \in Active}
        /\ {h[i] : i \in Active} = {callbacks[i].id : i \in Active}
    BY <2>1, <2>5
  <2>8. Active # {} => /\ enabled
                       /\ \A i \in Active : alarm <= callbacks[i].unix_time
                       /\ \E i \in Active : alarm = callbacks[i].unix_time
    BY <2>1, <2>3 DEF Alarmed, Leads
  <2> QED BY <2>4, <2>6, <2>7, <2>8 DEF TableIsExact
<1> QED BY <1>1, <1>2, ExactInit, WholeInvariant, PTL DEF Spec

-----------------------------------------------------------------------------
(* Callbacks and time.                                                     *)

\* What has yet to pass for a request that has not run, if its entry is still due today.
InTime(entry) ==
  Ran(entry.callback) \/ asked[entry.callback].left = 0
    \/ entry.unix_time = clock + asked[entry.callback].left \/ entry.unix_time >= Day

\* Its time has come, or it ran before.
Elapsed(entry) == Ran(entry.callback) \/ asked[entry.callback].left = 0

IDue ==
  /\ \A i \in Live(callbacks) : InTime(callbacks[i])
  /\ main.pc = "store" => InTime(main.entry)
  /\ isr.pc = "out" => isr.first
  /\ isr.pc = "loop" => ~isr.first
  /\ ~isr.first => \A i \in Live(callbacks) : callbacks[i].unix_time <= isr.now => Elapsed(callbacks[i])
  /\ isr.pc = "run" => Elapsed(isr.entry)
  /\ isr.pc \in {"remove", "again"} => Ran(isr.entry.callback)

\* The interrupt is taken in the second in which the alarm matches.
IPending == pending => isr.pc = "out" /\ main.pc = "idle" /\ enabled /\ alarm = clock

Right == IDue /\ IPending /\ wrongs = {}
IRight == ~interrupted /\ ~overtaken => Right

\* The slots in use are some of those that were.
Fewer(old, new) == \A i \in Live(new) : \E j \in Live(old) : new[i] = old[j]

LEMMA SortFewer ==
  ASSUME NEW old \in [Index -> Entry], NEW new \in qsort(old)
  PROVE  Fewer(old, new)
<1>1. PICK p \in [Index -> Index] : \A i \in Index : new[i] = old[p[i]]
  BY SortMoves
<1> QED BY <1>1 DEF Fewer, Live

LEMMA FewerErased ==
  ASSUME NEW old \in [Index -> Entry], NEW k
  PROVE  Fewer(old, [old EXCEPT ![k] = Erased(@)])
<1> DEFINE new == [old EXCEPT ![k] = Erased(@)]
<1>1. \A i \in Index : new[i] = IF i = k THEN Erased(old[i]) ELSE old[i]
  OBVIOUS
<1>2. \A i \in Index : Erased(old[i]).id = NULL_ID
  BY EntryWorn DEF Dead
<1> HIDE DEF new
<1>3. \A i \in Live(new) : i \in Live(old) /\ new[i] = old[i]
  BY <1>1, <1>2 DEF Live
<1> QED BY <1>3 DEF Fewer, new

\* Two records of a request that say the same of its time.
Alike(new, old) == new.left = old.left /\ new.runs = old.runs /\ new.today = old.today

\* Every operation of the main thread but a schedule adds no slot.
LEMMA MainStepsKeep ==
  ASSUME IInv, cut = NoCut, Exactly,
         CountId \/ SortStored \/ SortErased \/ ClearId \/ ClearTime \/ DeleteAll \/ Disarm
           \/ \E r \in Request : Delete(asked[r].id)
  PROVE  /\ MainRuns /\ UNCHANGED <<clock, isr, pending, wrongs>>
         /\ main'.pc # "store" /\ Fewer(callbacks, callbacks')
         /\ \A r \in Request : Alike(asked'[r], asked[r])
<1>1. MainRuns /\ UNCHANGED <<clock, isr, pending, wrongs>>
  BY DEF CountId, SortStored, SortErased, ClearId, ClearTime, DeleteAll, Disarm, Delete, history, hardware
<1>2. callbacks \in [Index -> Entry] /\ asked \in AskedType
  BY Parts
<1>3. main'.pc # "store"
  <2>1. CASE SortStored \/ ClearId \/ ClearTime
    <3>1. main'.pc \in {"count", "clear_time", "resort"}
      BY <2>1, Parts DEF SortStored, ClearId, ClearTime
    <3> QED BY <3>1
  <2>2. CASE CountId \/ SortErased \/ DeleteAll \/ Disarm
    <3>1. main'.pc \in {"idle", "disarm"}
      BY <2>2, Rest DEF CountId, SortErased, DeleteAll, Disarm
    <3> QED BY <3>1
  <2>3. ASSUME NEW r \in Request, Delete(asked[r].id) PROVE main'.pc # "store"
    <3>1. main'.pc \in {"idle", "clear"}
      BY <2>3 DEF Delete
    <3> QED BY <3>1
  <2> QED BY <2>1, <2>2, <2>3
<1>4. Fewer(callbacks, callbacks')
  <2>1. CASE callbacks' = callbacks
    BY <2>1 DEF Fewer, Live
  <2>2. CASE callbacks' \in qsort(callbacks)
    BY <1>2, <2>2, SortFewer
  <2>3. CASE callbacks' = AllErased
    BY <2>3, NothingLeft DEF Fewer
  <2>4. CASE ClearId
    <3>1. callbacks' = [callbacks EXCEPT ![main.index].id = NULL_ID]
      BY <2>4 DEF ClearId
    <3>2. \A i \in Index : callbacks'[i] = callbacks[i] \/ callbacks'[i].id = NULL_ID
      BY <1>2, <3>1 DEF Entry
    <3> QED BY <3>2 DEF Fewer, Live
  <2>5. CASE ClearTime
    <3>1. /\ callbacks' = [callbacks EXCEPT ![main.index].unix_time = NULL_UNIX_TIME]
          /\ main.index \notin Live(callbacks)
      BY <2>5 DEF ClearTime, Exactly, IMain
    <3>2. \A i \in Index : /\ i # main.index => callbacks'[i] = callbacks[i]
                           /\ callbacks'[i].id = callbacks[i].id
      BY <1>2, <3>1 DEF Entry
    <3> QED BY <3>1, <3>2 DEF Fewer, Live
  <2>6. callbacks' = callbacks \/ callbacks' \in qsort(callbacks) \/ callbacks' = AllErased
          \/ ClearId \/ ClearTime
    BY SortWhole DEF CountId, SortStored, SortErased, DeleteAll, Disarm, Delete, SortAndSetAlarm, table
  <2> QED BY <2>1, <2>2, <2>3, <2>4, <2>5, <2>6
<1>5. \A r \in Request : Alike(asked'[r], asked[r])
  <2>1. CASE asked' = asked
    BY <2>1 DEF Alike
  <2>2. CASE asked' = AllOver(asked)
    BY <1>2, <2>2 DEF AllOver, AskedType, Alike
  <2>3. CASE asked' = [asked EXCEPT ![main.entry.callback].state = "over"]
    <3> DEFINE q == main.entry.callback
    <3>1. asked' = [asked EXCEPT ![q].state = "over"]
      BY <2>3
    <3> HIDE DEF q
    <3>2. ASSUME NEW r \in Request
          PROVE  Alike(asked'[r], asked[r])
      <4>1. CASE r = q
        BY <1>2, <3>1, <4>1 DEF AskedType, Alike
      <4>2. CASE r # q
        BY <1>2, <3>1, <4>2 DEF AskedType, Alike
      <4> QED BY <4>1, <4>2
    <3> QED BY <3>2
  <2>4. CASE CountId
    <3> DEFINE q == main.entry.callback
               id == main.entry.id
    <3>1. asked' = [asked EXCEPT ![q].id = id]
      BY <2>4 DEF CountId
    <3> HIDE DEF q, id
    <3>2. ASSUME NEW r \in Request
          PROVE  Alike(asked'[r], asked[r])
      <4>1. CASE r = q
        BY <1>2, <3>1, <4>1 DEF AskedType, Alike
      <4>2. CASE r # q
        BY <1>2, <3>1, <4>2 DEF AskedType, Alike
      <4> QED BY <4>1, <4>2
    <3> QED BY <3>2
  <2>5. \/ asked' = asked \/ asked' = AllOver(asked) \/ CountId
        \/ asked' = [asked EXCEPT ![main.entry.callback].state = "over"]
    BY DEF SortStored, SortErased, ClearId, ClearTime, DeleteAll, Disarm, Delete, history
  <2> QED BY <2>1, <2>2, <2>3, <2>4, <2>5
<1> QED BY <1>1, <1>3, <1>4, <1>5

\* So it keeps what is in time.
LEMMA MainRight ==
  ASSUME IInv, Right, MainRuns, UNCHANGED <<clock, isr, pending, wrongs>>,
         \A r \in Request : Alike(asked'[r], asked[r]),
         Fewer(callbacks, callbacks'), main'.pc # "store"
  PROVE  Right'
<1>1. isr.pc = "out" /\ isr.first /\ ~pending
  BY DEF MainRuns, Right, IDue, IPending
<1>2. \A i \in Live(callbacks') : InTime(callbacks[i])'
  <2>1. ASSUME NEW i \in Live(callbacks') PROVE InTime(callbacks[i])'
    <3>1. PICK j \in Live(callbacks) : callbacks'[i] = callbacks[j]
      BY DEF Fewer
    <3>2. callbacks[j].callback \in Request
      BY LiveRequests
    <3> QED BY <3>1, <3>2 DEF Right, IDue, InTime, Ran, Alike
  <2> QED BY <2>1
<1>3. IDue'
  BY <1>1, <1>2 DEF IDue, Live
<1>4. IPending' /\ wrongs' = {}
  BY <1>1 DEF IPending, Right
<1> QED BY <1>3, <1>4 DEF Right

LEMMA MainStepsRight ==
  ASSUME IInv, cut = NoCut, Exactly, Right,
         CountId \/ SortStored \/ SortErased \/ ClearId \/ ClearTime \/ DeleteAll \/ Disarm
           \/ \E r \in Request : Delete(asked[r].id)
  PROVE  Right'
BY MainStepsKeep, MainRight

\* A request is in time when it is made, and its entry when it is stored.
LEMMA ScheduleRight ==
  ASSUME IInv, Exactly, Right, NEW request \in Asked, Schedule(request)
  PROVE  Right'
<1>1. PICK r \in Request :
         /\ asked[r].state = "none"
         /\ main' = [pc |-> "store", index |-> Min(Holding(NULL_ID)),
                     entry |-> [id |-> NULL_ID, unix_time |-> clock + request.delta,
                                next_time |-> next_time(request), callback |-> r]]
         /\ asked' = [asked EXCEPT ![r] = [@ EXCEPT !.state = "waiting", !.left = request.delta,
                                             !.today = clock + request.delta < Day,
                                             !.kills = request.kills]]
  BY DEF Schedule
<1>2. /\ MainRuns /\ main.pc = "idle" /\ UNCHANGED <<clock, callbacks, isr, pending, wrongs>>
  BY DEF Schedule, table, hardware
<1>3. isr.pc = "out" /\ isr.first /\ ~pending
  BY <1>2 DEF MainRuns, Right, IDue, IPending
<1>4. asked \in AskedType /\ request.delta \in Nat /\ clock \in Nat
  BY Parts, Sizes
<1>5. /\ asked'[r].left = request.delta
      /\ \A q \in Request : q # r => asked'[q] = asked[q]
  BY <1>1, <1>4 DEF AskedType
<1>6. \A i \in Live(callbacks) : callbacks[i].callback \in Request /\ callbacks[i].callback # r
  BY <1>1, <1>2, <1>3 DEF Exactly, IHeld, Exact, Present, Waiting
<1>7. \A i \in Live(callbacks) : InTime(callbacks[i])'
  BY <1>2, <1>5, <1>6 DEF Right, IDue, InTime, Ran
<1>8. /\ main'.pc = "store" /\ main'.entry.callback = r
      /\ main'.entry.unix_time = clock + request.delta
  BY <1>1
<1>9. InTime(main.entry)'
  BY <1>2, <1>5, <1>8 DEF InTime
<1>10. IDue'
  BY <1>2, <1>3, <1>7, <1>9 DEF IDue, Live
<1> QED BY <1>2, <1>3, <1>10 DEF Right, IPending

LEMMA StoreRight ==
  ASSUME IInv, cut = NoCut, Right, StoreEntry
  PROVE  Right'
<1> DEFINE e == main'.entry
           m == main.index
<1>1. /\ MainRuns /\ main.pc = "store" /\ UNCHANGED <<clock, isr, pending, wrongs, asked>>
      /\ main' = [pc |-> "sort", index |-> 1, entry |-> [main.entry EXCEPT !.id = id_counter]]
      /\ callbacks' = [callbacks EXCEPT ![m] = e]
  BY StoreWhole
<1>2. isr.pc = "out" /\ isr.first /\ ~pending
  BY <1>1 DEF MainRuns, Right, IDue, IPending
<1>3. main.entry \in Entry /\ callbacks \in [Index -> Entry]
  BY <1>1, Parts DEF Storing
<1>4. main' = [pc |-> "sort", index |-> 1, entry |-> [main.entry EXCEPT !.id = id_counter]]
  BY <1>1, Parts
<1>5. main'.pc = "sort" /\ e.callback = main.entry.callback /\ e.unix_time = main.entry.unix_time
  BY <1>3, <1>4 DEF Entry
<1>6. \A i \in Index : callbacks'[i] = e \/ callbacks'[i] = callbacks[i]
  BY <1>1, <1>3
<1> HIDE DEF e
<1>7. \A i \in Live(callbacks') : InTime(callbacks[i])'
  <2>1. ASSUME NEW i \in Live(callbacks') PROVE InTime(callbacks[i])'
    <3>1. CASE callbacks'[i] = e
      BY <1>1, <1>5, <3>1 DEF Right, IDue, InTime, Ran
    <3>2. CASE callbacks'[i] = callbacks[i]
      BY <1>1, <2>1, <3>2 DEF Right, IDue, InTime, Ran, Live
    <3> QED BY <1>6, <2>1, <3>1, <3>2 DEF Live
  <2> QED BY <2>1
<1>8. IDue'
  BY <1>1, <1>2, <1>5, <1>7 DEF IDue, Live
<1> QED BY <1>1, <1>2, <1>8 DEF Right, IPending

\* The alarm matches in the second of the first slot.
LEMMA EnterRight ==
  ASSUME IInv, Exactly, Right, Enter, ~interrupted'
  PROVE  Right'
<1>1. /\ isr.pc = "out" /\ pending /\ ~pending'
      /\ UNCHANGED <<clock, callbacks, main, asked, wrongs>>
      /\ \/ isr' = isr
         \/ /\ callbacks[1].id # NULL_ID /\ main.pc = "idle"
            /\ isr' = [isr EXCEPT !.pc = "run", !.entry = callbacks[1]]
  BY EnterWhole
<1>2. alarm = clock /\ clock \in Nat /\ clock < Day /\ Day \in Nat
  BY <1>1, Parts, Sizes DEF Right, IPending
<1>3. IPending' /\ wrongs' = {}
  BY <1>1 DEF Right, IPending
<1>4. CASE isr' = isr
  <2>1. IDue'
    BY <1>1, <1>4 DEF Right, IDue, InTime, Elapsed, Ran, Live
  <2> QED BY <1>3, <2>1 DEF Right
<1>5. CASE callbacks[1].id # NULL_ID /\ main.pc = "idle"
           /\ isr' = [isr EXCEPT !.pc = "run", !.entry = callbacks[1]]
  <2>1. /\ isr'.pc = "run" /\ isr'.entry = callbacks[1] /\ isr'.first = isr.first
        /\ 1 \in Live(callbacks)
    BY <1>5, Parts, Sizes DEF Live
  <2>2. callbacks[1].unix_time = clock
    BY <1>1, <1>2, <1>5, <2>1 DEF Exactly, IAlarm, Alarmed
  <2>3. asked[callbacks[1].callback].left \in Nat
    BY <2>1, LiveRequests, Parts DEF AskedType
  <2>4. Elapsed(callbacks[1])
    BY <1>2, <2>1, <2>2, <2>3 DEF Right, IDue, InTime, Elapsed
  <2>5. IDue'
    BY <1>1, <2>1, <2>4 DEF Right, IDue, InTime, Elapsed, Ran, Live
  <2> QED BY <1>3, <2>5 DEF Right
<1> QED BY <1>1, <1>4, <1>5

\* The callback that runs is recorded, the other requests are left alone, and no slot is added.
LEMMA RunKeeps ==
  ASSUME IInv, Exactly, RunCallback
  PROVE  /\ isr.entry.callback \in Waiting
         /\ asked'[isr.entry.callback].runs = 1
         /\ \A q \in Request :
              /\ asked'[q].left = asked[q].left /\ asked'[q].today = asked[q].today
              /\ q # isr.entry.callback => asked'[q].runs = asked[q].runs
         /\ \A i \in Live(callbacks') : i \in Live(callbacks) /\ callbacks'[i] = callbacks[i]
                                        /\ callbacks[i].callback \in Request
<1> DEFINE r == isr.entry.callback
           ran == [asked EXCEPT ![r].runs = 1,
                                ![r].state = IF isr.entry.next_time = 0 THEN "over" ELSE @]
<1>1. /\ isr.pc = "run"
      /\ \/ callbacks' = AllErased /\ asked' = AllOver(ran)
         \/ callbacks' = callbacks /\ asked' = ran
  BY DEF RunCallback
<1>2. r \in Waiting /\ r \in Request
  BY <1>1 DEF Exactly, IInterrupt, IHeld, Present, Exact, Waiting
<1> HIDE DEF r
<1>3. /\ ran \in AskedType /\ ran[r].runs = 1
      /\ \A q \in Request : /\ ran[q].left = asked[q].left /\ ran[q].today = asked[q].today
                            /\ q # r => ran[q].runs = asked[q].runs
  <2>1. /\ ran \in AskedType /\ ran[r].runs = 1
        /\ ran[r].left = asked[r].left /\ ran[r].today = asked[r].today
        /\ \A q \in Request : q # r => ran[q] = asked[q]
    BY <1>2, RunRecords DEF r
  <2> QED BY <2>1
<1> HIDE DEF ran
<1>4. /\ asked'[r].runs = 1
      /\ \A q \in Request : /\ asked'[q].left = asked[q].left /\ asked'[q].today = asked[q].today
                            /\ q # r => asked'[q].runs = asked[q].runs
  <2>1. CASE asked' = AllOver(ran)
    BY <1>2, <1>3, <2>1 DEF AllOver, AskedType
  <2>2. CASE asked' = ran
    BY <1>3, <2>2
  <2> QED BY <1>1, <2>1, <2>2
<1>5. \A i \in Live(callbacks') : i \in Live(callbacks) /\ callbacks'[i] = callbacks[i]
                                  /\ callbacks[i].callback \in Request
  <2>1. Live(AllErased) = {}
    BY NothingLeft
  <2> QED BY <1>1, <2>1, LiveRequests
<1> QED BY <1>2, <1>4, <1>5 DEF r

\* What runs is a waiting request whose time has come.
LEMMA RunRight ==
  ASSUME IInv, IInv', Exactly, Right, RunCallback
  PROVE  Right'
<1> DEFINE e == isr.entry
           r == e.callback
           ran == [asked EXCEPT ![r].runs = 1,
                                ![r].state = IF e.next_time = 0 THEN "over" ELSE @]
<1>1. /\ isr.pc = "run" /\ isr' = [isr EXCEPT !.pc = "remove"] /\ main.pc = "idle"
      /\ UNCHANGED <<clock, main, pending>>
      /\ wrongs' = wrongs \cup {w \in {"early", "deleted", "twice"} :
               \/ w = "early" /\ asked[r].left > 0 /\ asked[r].runs = 0
               \/ w = "deleted" /\ asked[r].state = "over" /\ asked[r].runs = 0
               \/ w = "twice" /\ e.next_time = 0 /\ asked[r].runs > 0}
      /\ \/ callbacks' = AllErased /\ asked' = AllOver(ran)
         \/ callbacks' = callbacks /\ asked' = ran
  BY DEF RunCallback, Exactly, IMain, thread
<1>2. /\ isr'.pc = "remove" /\ isr'.entry = e /\ isr'.first = isr.first /\ isr'.now = isr.now
      /\ asked \in AskedType /\ ~pending
  BY <1>1, Parts DEF Right, IPending
<1>3. r \in Waiting /\ r \in Request
  BY <1>1 DEF Exactly, IInterrupt, IHeld, Present, Exact, Waiting
<1>4. asked[r].state = "waiting" /\ asked[r].left \in Nat /\ asked[r].runs \in Nat
  BY <1>2, <1>3 DEF Waiting, AskedType
<1>5. asked[r].runs > 0 \/ asked[r].left = 0
  BY <1>1 DEF Right, IDue, Elapsed, Ran
<1>6. wrongs' = {}
  <2>1. "twice" \notin wrongs'
    BY DEF IInv, Once
  <2> HIDE DEF r, e
  <2> QED BY <1>1, <1>4, <1>5, <2>1 DEF Right
<1> HIDE DEF r, e
<1>8. /\ asked'[r].runs = 1
      /\ \A q \in Request : asked'[q].left = asked[q].left /\ (q # r => asked'[q].runs = asked[q].runs)
  BY RunKeeps DEF r, e
<1>9. \A i \in Live(callbacks') : i \in Live(callbacks) /\ callbacks'[i] = callbacks[i]
                                  /\ callbacks[i].callback \in Request
  BY RunKeeps
<1>10. \A q \in Request : Ran(q) => Ran(q)'
  BY <1>8 DEF Ran
<1>11. ASSUME NEW i \in Live(callbacks')
       PROVE  InTime(callbacks[i])' /\ (Elapsed(callbacks[i]) => Elapsed(callbacks[i])')
  BY <1>1, <1>8, <1>9, <1>10 DEF Right, IDue, InTime, Elapsed
<1>12. IDue'
  <2>1. Ran(isr.entry.callback)'
    BY <1>2, <1>8 DEF Ran, r, e
  <2>2. ~isr.first => \A i \in Live(callbacks') : callbacks'[i].unix_time <= isr.now
                                                 => Elapsed(callbacks[i])'
    BY <1>9, <1>11 DEF Right, IDue
  <2> QED BY <1>1, <1>2, <1>11, <2>1, <2>2 DEF IDue, Live
<1> QED BY <1>1, <1>2, <1>6, <1>12 DEF Right, IPending

\* The interrupt goes on: what it took has run.
LEMMA GoesOnRight ==
  ASSUME IInv, Right, isr.pc \in {"remove", "again"},
         UNCHANGED <<clock, main, asked, wrongs, pending>>,
         \/ isr' = [isr EXCEPT !.pc = "again"]
         \/ isr' = Continue,
         \A i \in Live(callbacks') : \/ \E j \in Live(callbacks) : callbacks'[i] = callbacks[j]
                                     \/ callbacks'[i].callback = isr.entry.callback
  PROVE  Right'
<1>1. /\ isr'.first = isr.first /\ isr'.now = isr.now
      /\ \/ isr'.pc = "again" /\ isr'.entry = isr.entry
         \/ isr'.pc = "sample" /\ isr.first
         \/ isr'.pc = "loop" /\ ~isr.first
  <2>1. CASE isr' = [isr EXCEPT !.pc = "again"]
    BY <2>1, Parts
  <2>2. CASE isr' = Continue
    BY <2>2, Parts DEF Continue
  <2> QED BY <2>1, <2>2
<1>2. Ran(isr.entry.callback) /\ ~pending
  BY DEF Right, IDue, IPending
<1>3. ASSUME NEW i \in Live(callbacks')
      PROVE  /\ InTime(callbacks[i])'
             /\ ~isr.first /\ callbacks'[i].unix_time <= isr.now => Elapsed(callbacks[i])'
  <2>1. CASE callbacks'[i].callback = isr.entry.callback
    BY <1>2, <2>1 DEF InTime, Elapsed, Ran
  <2>2. CASE \E j \in Live(callbacks) : callbacks'[i] = callbacks[j]
    BY <2>2 DEF Right, IDue, InTime, Elapsed, Ran
  <2> QED BY <1>3, <2>1, <2>2
<1>4. main.pc = "store" => InTime(main.entry)'
  BY DEF Right, IDue, InTime, Ran
<1>5. IDue'
  BY <1>1, <1>2, <1>3, <1>4 DEF IDue, Live, Ran
<1> QED BY <1>2, <1>5 DEF Right, IPending

LEMMA RemoveFewer ==
  ASSUME IInv, Remove
  PROVE  Fewer(callbacks, callbacks')
<1> DEFINE k == Min(Holding(isr.entry.id))
           erased == [callbacks EXCEPT ![k] = Erased(@)]
<1>1. callbacks' \in qsort(erased) \/ callbacks' = callbacks
  BY DEF Remove, SortAndSetAlarm
<1>2. callbacks \in [Index -> Entry]
  BY Parts
<1> HIDE DEF k
<1>3. erased \in [Index -> Entry]
  BY <1>2, EntryWorn
<1>4. Fewer(callbacks, erased)
  BY <1>2, FewerErased
<1> HIDE DEF erased
<1>5. CASE callbacks' \in qsort(erased)
  <2>1. Fewer(erased, callbacks')
    BY <1>3, <1>5, SortFewer
  <2> QED BY <1>4, <2>1 DEF Fewer
<1>6. CASE callbacks' = callbacks
  BY <1>6 DEF Fewer
<1> QED BY <1>1, <1>5, <1>6

LEMMA RemoveRight ==
  ASSUME IInv, Right, Remove
  PROVE  Right'
<1>1. /\ isr.pc = "remove" /\ UNCHANGED <<clock, main, asked, wrongs, pending>>
      /\ isr' = [isr EXCEPT !.pc = "again"] \/ isr' = Continue
  BY DEF Remove, history, thread
<1> QED BY <1>1, RemoveFewer, GoesOnRight DEF Fewer

\* What is added is the request that ran.
LEMMA AgainAdds ==
  ASSUME IInv, Again
  PROVE  \A i \in Live(callbacks') : \/ \E j \in Live(callbacks) : callbacks'[i] = callbacks[j]
                                     \/ callbacks'[i].callback = isr.entry.callback
<1> DEFINE e == isr.entry
           new == [[e EXCEPT !.unix_time = @ + e.next_time] EXCEPT !.id = id_counter]
           k == Min(Holding(NULL_ID))
           inserted == [callbacks EXCEPT ![k] = new]
<1>1. callbacks' \in qsort(inserted) \/ callbacks' = callbacks
  BY DEF Again, Insert, SortAndSetAlarm, table
<1>2. callbacks \in [Index -> Entry] /\ e \in Entry /\ id_counter \in Nat
  BY Parts DEF IsrType
<1>3. new \in Entry /\ new.callback = e.callback
  <2>1. e.unix_time + e.next_time \in Nat
    BY <1>2 DEF Entry
  <2> HIDE DEF e
  <2> QED BY <1>2, <2>1 DEF Entry
<1> HIDE DEF e, new, k
<1>4. /\ inserted \in [Index -> Entry]
      /\ \A i \in Index : inserted[i] = new \/ inserted[i] = callbacks[i]
  BY <1>2, <1>3
<1> HIDE DEF inserted
<1>5. \A i \in Live(callbacks') : \/ \E j \in Live(callbacks) : callbacks'[i] = callbacks[j]
                                  \/ callbacks'[i].callback = e.callback
  <2>1. CASE callbacks' \in qsort(inserted)
    <3>1. Fewer(inserted, callbacks')
      BY <1>4, <2>1, SortFewer
    <3>2. ASSUME NEW j \in Live(inserted)
          PROVE  inserted[j].callback = e.callback \/ (j \in Live(callbacks) /\ inserted[j] = callbacks[j])
      <4>1. CASE inserted[j] = new
        BY <1>3, <4>1
      <4>2. CASE inserted[j] = callbacks[j]
        BY <3>2, <4>2 DEF Live
      <4> QED BY <1>4, <3>2, <4>1, <4>2 DEF Live
    <3> QED BY <3>1, <3>2 DEF Fewer
  <2>2. CASE callbacks' = callbacks
    BY <2>2
  <2> QED BY <1>1, <2>1, <2>2
<1> QED BY <1>5 DEF e

LEMMA AgainRight ==
  ASSUME IInv, Right, Again
  PROVE  Right'
<1>1. isr.pc = "again" /\ UNCHANGED <<clock, main, asked, wrongs, pending>> /\ isr' = Continue
  BY DEF Again, history, thread
<1> QED BY <1>1, AgainAdds, GoesOnRight

\* What the loop takes was due in the second it sampled.
LEMMA LoopRight ==
  ASSUME IInv, Exactly, Right, Sample \/ Loop \/ Leave
  PROVE  Right'
<1>1. /\ isr.pc \in {"sample", "loop"} /\ main.pc = "idle" /\ ~pending
      /\ UNCHANGED <<clock, callbacks, main, asked, wrongs, pending>>
  BY DEF Sample, Loop, Leave, table, history, hardware, Exactly, IMain, Right, IPending, thread
<1>2. IPending' /\ wrongs' = {}
  BY <1>1 DEF Right, IPending
<1>3. clock \in Nat /\ clock < Day /\ Day \in Nat
  BY Parts, Sizes
<1>4. \A i \in Live(callbacks) : InTime(callbacks[i])'
  BY <1>1 DEF Right, IDue, InTime, Ran
<1>5. CASE Sample
  <2>1. isr'.pc = "loop" /\ isr'.first = FALSE /\ isr'.now = clock
    BY <1>5, Parts DEF Sample
  <2>2. ASSUME NEW i \in Live(callbacks), callbacks[i].unix_time <= clock
        PROVE  Elapsed(callbacks[i])'
    <3>1. callbacks[i].unix_time \in Nat /\ asked[callbacks[i].callback].left \in Nat
      BY LiveRequests, Parts DEF AskedType, Entry
    <3>2. InTime(callbacks[i])
      BY DEF Right, IDue
    <3>3. Elapsed(callbacks[i])
      BY <1>3, <2>2, <3>1, <3>2 DEF InTime, Elapsed
    <3> QED BY <1>1, <3>3 DEF Elapsed, Ran
  <2>3. IDue'
    BY <1>1, <1>4, <2>1, <2>2 DEF IDue, Live
  <2> QED BY <1>2, <2>3 DEF Right
<1>6. CASE Loop
  <2>1. /\ isr.pc = "loop" /\ isr'.pc = "run" /\ isr'.entry = callbacks[1]
        /\ isr'.first = isr.first /\ isr'.now = isr.now /\ callbacks[1].unix_time <= isr.now
    BY <1>6, Parts DEF Loop, Take, due
  <2>2. callbacks[1].unix_time # NULL_UNIX_TIME
    BY <2>1, Parts, Sizes DEF IsrType, NULL_UNIX_TIME
  <2>3. 1 \in Live(callbacks)
    BY <1>1, <2>2, Sizes DEF Exactly, IHeld, Tidy
  <2>4. Elapsed(callbacks[1])
    BY <2>1, <2>3 DEF Right, IDue
  <2>5. IDue'
    BY <1>1, <1>4, <2>1, <2>4 DEF Right, IDue, Elapsed, Ran, Live
  <2> QED BY <1>2, <2>5 DEF Right
<1>7. CASE Leave
  <2>1. isr'.pc = "out" /\ isr'.first
    BY <1>7 DEF Leave, Outside
  <2>2. IDue'
    BY <1>1, <1>4, <2>1 DEF IDue, Live
  <2> QED BY <1>2, <2>2 DEF Right
<1> QED BY <1>5, <1>6, <1>7

\* The second after the last of the day is the first.
LEMMA Midnight ==
  ASSUME NEW c \in 0 .. Day - 1
  PROVE  (c + 1) % Day = IF c + 1 = Day THEN 0 ELSE c + 1
<1>1. c \in Nat /\ Day \in Nat /\ c < Day
  BY Sizes
<1> QED BY <1>1, SMT

\* A second passes; at midnight what was left is of tomorrow.
LEMMA TickRight ==
  ASSUME IInv, Exactly, Right, Tick, ~overtaken'
  PROVE  Right'
<1>1. /\ UNCHANGED <<callbacks, main, isr, alarm, enabled, wrongs>>
      /\ clock' = (clock + 1) % Day
      /\ asked' = [r \in Request |-> [asked[r] EXCEPT !.left = IF @ = 0 THEN 0 ELSE @ - 1]]
      /\ pending' = (pending \/ alarm = clock')
      /\ ~(isr.pc = "out" /\ pending /\ enabled)
      /\ alarm = clock' => enabled /\ isr.pc = "out" /\ main.pc = "idle"
  BY DEF Tick, table, thread
<1>2. clock \in Nat /\ Day \in Nat /\ (clock' = clock + 1 \/ clock + 1 = Day)
  <2>1. clock \in 0 .. Day - 1
    BY Parts
  <2> QED BY <1>1, <2>1, Midnight, Sizes
<1>3. \A r \in Request : /\ asked'[r].runs = asked[r].runs
                         /\ asked[r].left \in Nat
                         /\ asked'[r].left = IF asked[r].left = 0 THEN 0 ELSE asked[r].left - 1
  <2>1. asked \in AskedType
    BY Parts
  <2> QED BY <1>1, <2>1 DEF AskedType
<1>4. IPending' /\ wrongs' = {}
  BY <1>1 DEF Right, IPending
<1>5. ASSUME NEW e \in Entry, e.callback \in Request
      PROVE  /\ InTime(e) => \/ asked'[e.callback].runs > 0 \/ asked'[e.callback].left = 0
                             \/ e.unix_time = clock' + asked'[e.callback].left \/ e.unix_time >= Day
             /\ Elapsed(e) => asked'[e.callback].runs > 0 \/ asked'[e.callback].left = 0
  <2>1. e.unix_time \in Nat
    BY DEF Entry
  <2>2. Elapsed(e) => asked'[e.callback].runs > 0 \/ asked'[e.callback].left = 0
    BY <1>3, <1>5 DEF Elapsed, Ran
  <2>3. CASE ~Elapsed(e)
    <3>1. /\ asked[e.callback].left # 0 /\ asked[e.callback].left \in Nat
          /\ asked'[e.callback].left = asked[e.callback].left - 1
      BY <1>3, <1>5, <2>3 DEF Elapsed
    <3>2. InTime(e) => e.unix_time = clock + asked[e.callback].left \/ e.unix_time >= Day
      BY <2>3 DEF InTime, Elapsed
    <3> QED BY <1>2, <2>1, <2>2, <3>1, <3>2
  <2>4. CASE Elapsed(e)
    BY <2>2, <2>4
  <2> QED BY <2>3, <2>4
<1>6. \A i \in Live(callbacks) : /\ InTime(callbacks[i]) => InTime(callbacks[i])'
                                 /\ Elapsed(callbacks[i]) => Elapsed(callbacks[i])'
  BY <1>1, <1>5, LiveRequests DEF InTime, Elapsed, Ran
<1>7. main.pc = "store" => InTime(main.entry)'
  <2>1. main.pc = "store" => main.entry \in Entry /\ main.entry.callback \in Request /\ InTime(main.entry)
    BY Parts DEF Storing, Exactly, IMain, Waiting, Right, IDue
  <2> QED BY <1>1, <1>5, <2>1 DEF InTime, Ran
<1>8. isr.pc \in {"run", "remove", "again"} =>
        isr.entry \in Entry /\ isr.entry.callback \in Request
  BY Parts, EntryWorn DEF IsrType, IInv, ITable, IKnown, Holds
<1>9. /\ isr.pc = "run" => Elapsed(isr.entry)'
      /\ isr.pc \in {"remove", "again"} => Ran(isr.entry.callback)'
  BY <1>1, <1>3, <1>5, <1>8 DEF Right, IDue, Elapsed, Ran
<1>10. IDue'
  BY <1>1, <1>6, <1>7, <1>9 DEF Right, IDue, Live
<1> QED BY <1>4, <1>10 DEF Right

-----------------------------------------------------------------------------
LEMMA RightInit == Init => IRight
<1> SUFFICES ASSUME Init PROVE Right
  BY DEF IRight
<1>1. /\ main.pc = "idle" /\ isr.pc = "out" /\ isr.first /\ ~pending /\ wrongs = {}
  BY DEF Init, Resting, Outside
<1>2. Live(callbacks) = {}
  BY DEF Init, Live, Dummy
<1> QED BY <1>1, <1>2 DEF Right, IDue, IPending

LEMMA RightStep ==
  ASSUME Ind, Ind', IWhole, IWhole', IExact, IRight, [Next]_vars
  PROVE  IRight'
<1> SUFFICES ASSUME ~interrupted', ~overtaken' PROVE Right'
  BY DEF IRight
<1>1. ~interrupted /\ ~overtaken
  <2>1. ~interrupted
    BY Uninterrupted
  <2>2. CASE Tick
    BY <2>1, <2>2, Zenon DEF Tick
  <2>3. CASE ~Tick
    <3>1. overtaken' = overtaken
      BY <2>3 DEF Next, Caller, Main, Interrupt, Schedule, StoreEntry, SortStored, CountId, Delete,
                  ClearId, ClearTime, SortErased, DeleteAll, Disarm, Enter, RunCallback, Remove, Again,
                  Sample, Loop, Leave, Swap, thread, history, cuttings, vars
    <3> QED BY <2>1, <3>1, Zenon
  <2> QED BY <2>1, <2>2, <2>3
<1>2. Exactly /\ Right /\ IInv /\ IInv' /\ cut = NoCut
  BY <1>1, Held DEF IExact, IRight, Ind, IWhole, Whole
<1>3. CASE Caller \/ Main
  BY <1>2, <1>3, ScheduleRight, StoreRight, MainStepsRight DEF Caller, Main, Swap, NoCut
<1>4. CASE Interrupt
  BY <1>2, <1>4, EnterRight, RunRight, RemoveRight, AgainRight, LoopRight DEF Interrupt
<1>5. CASE Tick
  BY <1>2, <1>5, TickRight
<1>6. CASE UNCHANGED vars
  <2>1. UNCHANGED <<clock, callbacks, main, isr, alarm, enabled, pending, asked, wrongs>>
    BY <1>6 DEF vars, table, hardware, history, thread
  <2>2. IDue'
    BY <1>2, <2>1 DEF Right, IDue, InTime, Elapsed, Ran, Live
  <2> QED BY <1>2, <2>1, <2>2 DEF Right, IPending
<1> QED BY <1>3, <1>4, <1>5, <1>6 DEF Next

(* No callback runs before its time or after its deletion, as long as none *)
(* cuts through an operation of the main thread, no alarm matches where    *)
(* its interrupt cannot be taken, and the conditions of the table hold.    *)
THEOREM CallbacksCalledRightly ==
  NoSelfDelete => (Spec /\ []InRange => []CalledRightly)
<1> SUFFICES ASSUME NoSelfDelete PROVE Spec /\ []InRange => []CalledRightly
  OBVIOUS
<1>1. Ind /\ Ind' /\ IWhole /\ IWhole' /\ InRange /\ InRange' /\ IExact /\ [Next]_vars => IExact'
  BY ExactStep
<1>2. Ind /\ Ind' /\ IWhole /\ IWhole' /\ IExact /\ IRight /\ [Next]_vars => IRight'
  BY RightStep
<1>3. IRight => CalledRightly
  BY DEF IRight, Right, CalledRightly
<1> QED BY <1>1, <1>2, <1>3, ExactInit, RightInit, WholeInvariant, PTL DEF Spec
-----------------------------------------------------------------------------
(* Callbacks and midnight.                                                 *)

\* The first call of a request that is due before midnight has its time of day.
TodayAt(entry) ==
  asked[entry.callback].today /\ ~Ran(entry.callback) => entry.unix_time < Day

Today ==
  /\ \A i \in Live(callbacks) : TodayAt(callbacks[i])
  /\ main.pc = "store" => TodayAt(main.entry)
  /\ isr.pc \in {"remove", "again"} => Ran(isr.entry.callback)
IToday == ~interrupted => Today

\* As long as such a request waits, the interrupt is on for a time of day, which comes.
ArmedForToday ==
  AtRest /\ ~interrupted =>
    \A r \in Request :
      asked[r].state = "waiting" /\ asked[r].today /\ ~Ran(r) => enabled /\ alarm < Day

\* What the table holds stays due today when no request's day changes and none is forgotten to have run.
LEMMA TableToday ==
  ASSUME IInv, Today,
         \A i \in Live(callbacks') :
           \/ Ran(callbacks[i].callback)'
           \/ \E j \in Live(callbacks) : callbacks'[i] = callbacks[j],
         \A i \in Live(callbacks) :
           LET r == callbacks[i].callback
           IN asked'[r].today = asked[r].today /\ (Ran(r) => asked'[r].runs > 0)
  PROVE  \A i \in Live(callbacks') : TodayAt(callbacks[i])'
<1> SUFFICES ASSUME NEW i \in Live(callbacks') PROVE TodayAt(callbacks[i])'
  OBVIOUS
<1>1. CASE Ran(callbacks[i].callback)'
  BY <1>1 DEF TodayAt, Ran
<1>2. CASE \E j \in Live(callbacks) : callbacks'[i] = callbacks[j]
  BY <1>2 DEF Today, TodayAt, Ran
<1> QED BY <1>1, <1>2

\* A callback runs on the day it is asked for if it is due before midnight.
LEMMA ScheduleToday ==
  ASSUME IInv, Exactly, Today, NEW request \in Asked, Schedule(request)
  PROVE  Today'
<1>1. PICK r \in Request :
         /\ asked[r].state = "none"
         /\ main' = [pc |-> "store", index |-> Min(Holding(NULL_ID)),
                     entry |-> [id |-> NULL_ID, unix_time |-> clock + request.delta,
                                next_time |-> next_time(request), callback |-> r]]
         /\ asked' = [asked EXCEPT ![r] = [@ EXCEPT !.state = "waiting", !.left = request.delta,
                                             !.today = clock + request.delta < Day,
                                             !.kills = request.kills]]
  BY DEF Schedule
<1>2. /\ isr.pc = "out" /\ main.pc = "idle" /\ UNCHANGED <<callbacks, isr>>
  BY DEF Schedule, MainRuns, table
<1>3. asked \in AskedType /\ request.delta \in Nat /\ clock \in Nat /\ Day \in Nat
  BY Parts, Sizes
<1>4. /\ asked'[r].today => clock + request.delta < Day
      /\ \A q \in Request : q # r => asked'[q] = asked[q]
  <2>1. (clock + request.delta < Day) \in BOOLEAN
    BY <1>3, IsBefore
  <2> QED BY <1>1, <1>3, <2>1 DEF AskedType
<1>5. \A i \in Live(callbacks) : callbacks[i].callback \in Request /\ callbacks[i].callback # r
  BY <1>1, <1>2 DEF Exactly, IHeld, Exact, Present, Waiting
<1>6. \A i \in Live(callbacks') : TodayAt(callbacks[i])'
  <2>1. \A i \in Live(callbacks') : \E j \in Live(callbacks) : callbacks'[i] = callbacks[j]
    BY <1>2
  <2>2. \A i \in Live(callbacks) :
          LET q == callbacks[i].callback
          IN asked'[q].today = asked[q].today /\ (Ran(q) => asked'[q].runs > 0)
    BY <1>4, <1>5 DEF Ran
  <2> QED BY <2>1, <2>2, TableToday
<1>7. TodayAt(main.entry)'
  <2>1. main'.entry.callback = r /\ main'.entry.unix_time = clock + request.delta
    BY <1>1
  <2> QED BY <1>4, <2>1 DEF TodayAt
<1> QED BY <1>2, <1>6, <1>7 DEF Today, Live

LEMMA StoreToday ==
  ASSUME IInv, cut = NoCut, Today, StoreEntry
  PROVE  Today'
<1> DEFINE e == main'.entry
           m == main.index
<1>1. /\ isr.pc = "out" /\ main.pc = "store" /\ UNCHANGED <<isr, asked>>
      /\ main' = [pc |-> "sort", index |-> 1, entry |-> [main.entry EXCEPT !.id = id_counter]]
      /\ callbacks' = [callbacks EXCEPT ![m] = e]
  BY StoreWhole DEF MainRuns
<1>2. main.entry \in Entry /\ callbacks \in [Index -> Entry]
  BY <1>1, Parts DEF Storing
<1>3. main' = [pc |-> "sort", index |-> 1, entry |-> [main.entry EXCEPT !.id = id_counter]]
  BY <1>1
<1>4. main'.pc = "sort" /\ e.callback = main.entry.callback /\ e.unix_time = main.entry.unix_time
  BY <1>2, <1>3 DEF Entry
<1>5. \A i \in Index : callbacks'[i] = e \/ callbacks'[i] = callbacks[i]
  BY <1>1, <1>2
<1> HIDE DEF e
<1>6. ASSUME NEW i \in Live(callbacks') PROVE TodayAt(callbacks[i])'
  <2>1. CASE callbacks'[i] = e
    BY <1>1, <1>4, <2>1 DEF Today, TodayAt, Ran
  <2>2. CASE callbacks'[i] = callbacks[i]
    BY <1>1, <1>6, <2>2 DEF Today, TodayAt, Ran, Live
  <2> QED BY <1>5, <1>6, <2>1, <2>2 DEF Live
<1> QED BY <1>1, <1>4, <1>6 DEF Today, Live

LEMMA MainStepsToday ==
  ASSUME IInv, cut = NoCut, Exactly, Today,
         CountId \/ SortStored \/ SortErased \/ ClearId \/ ClearTime \/ DeleteAll \/ Disarm
           \/ \E r \in Request : Delete(asked[r].id)
  PROVE  Today'
<1>1. /\ isr.pc = "out" /\ isr' = isr /\ main'.pc # "store" /\ Fewer(callbacks, callbacks')
      /\ \A r \in Request : Alike(asked'[r], asked[r])
  BY MainStepsKeep DEF MainRuns
<1>2. \A i \in Live(callbacks) :
        LET q == callbacks[i].callback
        IN asked'[q].today = asked[q].today /\ (Ran(q) => asked'[q].runs > 0)
  BY <1>1, LiveRequests DEF Alike, Ran
<1>3. \A i \in Live(callbacks') : TodayAt(callbacks[i])'
  BY <1>1, <1>2, TableToday DEF Fewer
<1> QED BY <1>1, <1>3 DEF Today, Live

\* What the interrupt puts back has run.
LEMMA InterruptToday ==
  ASSUME IInv, Exactly, Today, Interrupt, ~interrupted'
  PROVE  Today'
<1>1. CASE RunCallback
  <2> DEFINE r == isr.entry.callback
  <2>1. /\ isr' = [isr EXCEPT !.pc = "remove"] /\ main.pc = "idle" /\ main' = main
    BY <1>1 DEF RunCallback, Exactly, IMain, thread
  <2>2. isr'.entry = isr.entry
    BY <2>1, Parts
  <2>3. /\ asked'[r].runs = 1
        /\ \A q \in Request : /\ asked'[q].today = asked[q].today
                              /\ q # r => asked'[q].runs = asked[q].runs
        /\ \A i \in Live(callbacks') : i \in Live(callbacks) /\ callbacks'[i] = callbacks[i]
    BY <1>1, RunKeeps
  <2> HIDE DEF r
  <2>4. \A i \in Live(callbacks) :
          LET q == callbacks[i].callback
          IN asked'[q].today = asked[q].today /\ (Ran(q) => asked'[q].runs > 0)
    BY <2>3, LiveRequests DEF Ran
  <2>5. \A i \in Live(callbacks') : TodayAt(callbacks[i])'
    BY <2>3, <2>4, TableToday
  <2>6. Ran(isr.entry.callback)'
    BY <2>2, <2>3 DEF Ran, r
  <2> QED BY <2>1, <2>5, <2>6 DEF Today, Live
<1>2. CASE Remove \/ Again
  <2>1. /\ isr.pc \in {"remove", "again"} /\ UNCHANGED <<main, asked>>
        /\ isr' = [isr EXCEPT !.pc = "again"] \/ isr' = Continue
    BY <1>2 DEF Remove, Again, history, thread
  <2>2. isr'.pc \in {"remove", "again"} => isr'.entry = isr.entry
    <3>1. CASE isr' = [isr EXCEPT !.pc = "again"]
      BY <3>1, Parts
    <3>2. CASE isr' = Continue
      <4>1. isr'.pc \in {"sample", "loop"}
        BY <3>2, Continued DEF IInv
      <4> QED BY <4>1
    <3> QED BY <2>1, <3>1, <3>2
  <2>3. \A i \in Live(callbacks') : \/ \E j \in Live(callbacks) : callbacks'[i] = callbacks[j]
                                    \/ callbacks'[i].callback = isr.entry.callback
    BY <1>2, RemoveFewer, AgainAdds DEF Fewer
  <2>4. Ran(isr.entry.callback)
    BY <2>1 DEF Today
  <2>5. \A i \in Live(callbacks') : TodayAt(callbacks[i])'
    BY <2>1, <2>3, <2>4, TableToday DEF Ran
  <2>6. main.pc = "store" => TodayAt(main.entry)'
    BY <2>1 DEF Today, TodayAt, Ran
  <2> QED BY <2>1, <2>2, <2>4, <2>5, <2>6 DEF Today, Live, Ran
<1>3. CASE Enter \/ Sample \/ Loop \/ Leave
  <2>1. UNCHANGED <<callbacks, main, asked>>
    BY <1>3, EnterWhole DEF Sample, Loop, Leave, table, thread, history
  <2>2. isr' = isr \/ isr'.pc \in {"run", "loop", "out"}
    <3>1. CASE Enter \/ Loop
      BY <3>1, EnterWhole, Parts DEF Loop, Take, IsrType
    <3>2. CASE Sample
      BY <3>2, Parts DEF Sample, IsrType
    <3>3. CASE Leave
      BY <3>3 DEF Leave, Outside
    <3> QED BY <1>3, <3>1, <3>2, <3>3
  <2> QED BY <2>1, <2>2 DEF Today, TodayAt, Ran, Live
<1> QED BY <1>1, <1>2, <1>3 DEF Interrupt

\* A second that passes changes neither the day a callback was asked for nor what ran.
LEMMA TickToday ==
  ASSUME IInv, Exactly, Today, Tick
  PROVE  Today'
<1>1. /\ UNCHANGED <<callbacks, main, isr>>
      /\ asked' = [r \in Request |-> [asked[r] EXCEPT !.left = IF @ = 0 THEN 0 ELSE @ - 1]]
  BY DEF Tick, table, thread
<1>2. \A r \in Request : asked'[r].today = asked[r].today /\ (Ran(r) <=> Ran(r)')
  <2>1. asked \in AskedType
    BY Parts
  <2> QED BY <1>1, <2>1 DEF AskedType, Ran
<1>3. \A i \in Live(callbacks') : TodayAt(callbacks[i])'
  <2>1. \A i \in Live(callbacks) : callbacks[i].callback \in Request
    BY LiveRequests
  <2>2. \A i \in Live(callbacks) :
          LET q == callbacks[i].callback
          IN asked'[q].today = asked[q].today /\ (Ran(q) => asked'[q].runs > 0)
    BY <1>2, <2>1 DEF Ran
  <2>3. \A i \in Live(callbacks') : \E j \in Live(callbacks) : callbacks'[i] = callbacks[j]
    BY <1>1
  <2> QED BY <2>2, <2>3, TableToday
<1>4. main.pc = "store" => TodayAt(main.entry)'
  <2>1. main.pc = "store" => main.entry.callback \in Request /\ TodayAt(main.entry)
    BY DEF Exactly, IMain, Waiting, Today
  <2> QED BY <1>1, <1>2, <2>1 DEF TodayAt
<1>5. isr.pc \in {"remove", "again"} => Ran(isr.entry.callback)'
  <2>1. isr.pc \in {"remove", "again"} => isr.entry.callback \in Request
    BY Parts, EntryWorn DEF IsrType, IInv, ITable, IKnown, Holds
  <2> QED BY <1>1, <1>2, <2>1 DEF Today
<1> QED BY <1>1, <1>3, <1>4, <1>5 DEF Today, Live, Ran

LEMMA TodayInit == Init => IToday
<1> SUFFICES ASSUME Init PROVE Today
  BY DEF IToday
<1>1. main.pc = "idle" /\ isr.pc = "out"
  BY DEF Init, Resting, Outside
<1>2. Live(callbacks) = {}
  BY DEF Init, Live, Dummy
<1> QED BY <1>1, <1>2 DEF Today

LEMMA TodayStep ==
  ASSUME Ind, IWhole, IExact, IToday, [Next]_vars
  PROVE  IToday'
<1> SUFFICES ASSUME ~interrupted' PROVE Today'
  BY DEF IToday
<1>1. ~interrupted
  BY Uninterrupted
<1>2. Exactly /\ Today /\ IInv /\ cut = NoCut
  BY <1>1, Held DEF IExact, IToday
<1>3. CASE Caller \/ Main
  BY <1>2, <1>3, ScheduleToday, StoreToday, MainStepsToday DEF Caller, Main, Swap, NoCut
<1>4. CASE Interrupt
  BY <1>2, <1>4, InterruptToday
<1>5. CASE Tick
  BY <1>2, <1>5, TickToday
<1>6. CASE UNCHANGED vars
  <2>1. UNCHANGED <<callbacks, main, isr, asked>>
    BY <1>6 DEF vars, table, history, thread
  <2> QED BY <1>2, <2>1 DEF Today, TodayAt, Ran, Live
<1> QED BY <1>3, <1>4, <1>5, <1>6 DEF Next

(* What is due before midnight is not passed over: whenever neither the    *)
(* main thread nor the interrupt is at work, the alarm is on and set for a *)
(* time of day as long as such a request waits for its first call, under   *)
(* the conditions of the table.  A request due after midnight has no such  *)
(* promise: rtc_scheduleCallback does not reduce its time.                 *)
THEOREM CallbacksArmedForToday ==
  NoSelfDelete => (Spec /\ []InRange => []ArmedForToday)
<1> SUFFICES ASSUME NoSelfDelete PROVE Spec /\ []InRange => []ArmedForToday
  OBVIOUS
<1>1. Ind /\ Ind' /\ IWhole /\ IWhole' /\ InRange /\ InRange' /\ IExact /\ [Next]_vars => IExact'
  BY ExactStep
<1>2. Ind /\ IWhole /\ IExact /\ IToday /\ [Next]_vars => IToday'
  BY TodayStep
<1>3. Ind /\ IWhole /\ IExact /\ IToday => ArmedForToday
  <2> SUFFICES ASSUME IInv, Exactly, Today, AtRest,
                      NEW r \in Request, r \in Waiting, asked[r].today, ~Ran(r)
               PROVE  enabled /\ alarm < Day
    BY Held DEF IExact, IToday, ArmedForToday, Waiting
  <2>1. Exact(callbacks, Waiting, id_counter) /\ Alarmed
    BY DEF AtRest, Exactly, IHeld, IAlarm, Present, Ids
  <2>2. PICK i \in Live(callbacks) : callbacks[i].callback = r
    BY <2>1 DEF Exact
  <2>3. callbacks[i].unix_time < Day
    BY <2>2 DEF Today, TodayAt
  <2>4. enabled /\ alarm = callbacks[1].unix_time /\ callbacks[1].unix_time <= callbacks[i].unix_time
    BY <2>1, <2>2 DEF Alarmed, Leads
  <2>5. i \in Index /\ callbacks[1].unix_time \in Nat /\ callbacks[i].unix_time \in Nat /\ Day \in Nat
    BY Parts, Sizes DEF Entry, Live
  <2> QED BY <2>3, <2>4, <2>5
<1> QED BY <1>1, <1>2, <1>3, ExactInit, TodayInit, WholeInvariant, PTL DEF Spec

-----------------------------------------------------------------------------
(* The widths of the code's types.  Only what is stored in a used slot can *)
(* grow, and that InRange bounds after every step.                         *)

\* Sorted entries of the type, but for one that a used slot holds.
LEMMA SortTyped ==
  ASSUME NEW entries, NEW index \in Index, NEW new \in qsort(entries),
         DOMAIN entries = Index,
         \A i \in Index \ {index} : entries[i] \in CallbackEntry,
         entries[index].unix_time < NULL_UNIX_TIME => entries[index] \in CallbackEntry,
         entries[index].id # NULL_ID \/ entries[index] \in CallbackEntry,
         \A i \in Live(new) : new[i].unix_time < NULL_UNIX_TIME
  PROVE  new \in [Index -> CallbackEntry]
<1>1. PICK p \in Bijection(Index, Index) : new = [i \in Index |-> entries[p[i]]]
  BY DEF qsort
<1>2. p \in [Index -> Index]
  BY DEF Bijection, Injection
<1>3. ASSUME NEW i \in Index PROVE entries[p[i]] \in CallbackEntry
  <2>1. CASE p[i] = index /\ entries[index] \notin CallbackEntry
    <3>1. new[i] = entries[index]
      BY <1>1, <2>1
    <3>2. i \in Live(new)
      BY <2>1, <3>1 DEF Live
    <3> QED BY <2>1, <3>1, <3>2
  <2>2. CASE p[i] # index
    BY <1>2, <2>2
  <2> QED BY <2>1, <2>2
<1> QED BY <1>1, <1>3

CutType == [pc : {"none", "copying", "sorting", "swapping"}, words : 0 .. 3,
            one : Index, other : Index]

LEMMA Typed ==
  ASSUME TypeOK
  PROVE  /\ clock \in 0 .. Day - 1
         /\ callbacks \in [Index -> CallbackEntry] /\ callbacks[1] \in CallbackEntry
         /\ main.index \in Index /\ main.entry \in CallbackEntry
         /\ main = [pc |-> main.pc, index |-> main.index, entry |-> main.entry]
         /\ isr = [pc |-> isr.pc, entry |-> isr.entry, now |-> isr.now, first |-> isr.first]
         /\ isr.entry \in CallbackEntry
         /\ asked \in [Request -> [state : {"none", "waiting", "over"}, id : 0 .. UINT32_MAX,
                                   left : 0 .. Day, today : BOOLEAN, kills : BOOLEAN,
                                   runs : 0 .. 1]]
         /\ DOMAIN callbacks = Index
         /\ cut \in CutType /\ cut.one \in Index /\ cut.other \in Index
BY Sizes DEF TypeOK, CutType

LEMMA DummyTyped ==
  Dummy \in CallbackEntry /\ NULL_ID \in 0 .. UINT32_MAX /\ 0 \in 0 .. Day - 1
BY Sizes DEF CallbackEntry, Dummy, NULL_ID, NULL_UNIX_TIME

LEMMA IdTyped ==
  ASSUME NEW entry \in CallbackEntry, NEW id \in 0 .. UINT32_MAX
  PROVE  [entry EXCEPT !.id = id] \in CallbackEntry
BY DEF CallbackEntry

LEMMA EntryTyped ==
  ASSUME NEW entry \in CallbackEntry
  PROVE  /\ Erased(entry) \in CallbackEntry
         /\ [entry EXCEPT !.unix_time = NULL_UNIX_TIME] \in CallbackEntry
         /\ entry.id \in 0 .. UINT32_MAX /\ entry.unix_time \in 0 .. UINT32_MAX
         /\ entry.next_time \in 0 .. Day /\ entry.callback \in 0 .. Requests
<1>1. UINT32_MAX \in 0 .. UINT32_MAX
  BY Sizes
<1>2. /\ Erased(entry) \in CallbackEntry
      /\ [entry EXCEPT !.unix_time = NULL_UNIX_TIME] \in CallbackEntry
  BY <1>1 DEF CallbackEntry, Erased, NULL_ID, NULL_UNIX_TIME
<1>3. /\ entry.id \in 0 .. UINT32_MAX /\ entry.unix_time \in 0 .. UINT32_MAX
      /\ entry.next_time \in 0 .. Day /\ entry.callback \in 0 .. Requests
  BY DEF CallbackEntry
<1> QED BY <1>2, <1>3

\* What a cut leaves is made of words of entries.
LEMMA CutTyped ==
  /\ NoCut \in CutType /\ [NoCut EXCEPT !.pc = "sorting"] \in CutType
  /\ \A words \in {0} \cup CutWords :
       [NoCut EXCEPT !.pc = "copying", !.words = words] \in CutType
  /\ \A words \in CutWords, i, j \in Index :
       [pc |-> "swapping", words |-> words, one |-> i, other |-> j] \in CutType
<1>1. NoCut \in CutType /\ [NoCut EXCEPT !.pc = "sorting"] \in CutType
  BY Sizes DEF NoCut, CutType
<1>2. ASSUME NEW words \in {0} \cup CutWords
      PROVE  [NoCut EXCEPT !.pc = "copying", !.words = words] \in CutType
  <2>1. words \in 0 .. 3
    BY Sizes
  <2> QED BY <2>1, Sizes DEF NoCut, CutType
<1>3. ASSUME NEW words \in CutWords, NEW i \in Index, NEW j \in Index
      PROVE  [pc |-> "swapping", words |-> words, one |-> i, other |-> j] \in CutType
  <2>1. words \in 0 .. 3
    BY Sizes
  <2> QED BY <2>1 DEF CutType
<1> QED BY <1>1, <1>2, <1>3

LEMMA WordsTyped ==
  ASSUME NEW words, NEW first \in CallbackEntry, NEW rest \in CallbackEntry
  PROVE  Words(words, first, rest) \in CallbackEntry
BY DEF Words, CallbackEntry

LEMMA OrdersTyped ==
  ASSUME NEW entries \in [Index -> CallbackEntry], NEW new \in Orders(entries)
  PROVE  new \in [Index -> CallbackEntry]
<1>1. PICK p \in Bijection(Index, Index) : new = [i \in Index |-> entries[p[i]]]
  BY DEF Orders
<1>2. p \in [Index -> Index]
  BY DEF Bijection, Injection
<1> QED BY <1>1, <1>2

LEMMA NumberedTyped == ASSUME TypeOK PROVE Numbered \in CallbackEntry
<1>1. main.entry \in CallbackEntry /\ id_counter \in 0 .. UINT32_MAX
  BY Sizes, Typed DEF TypeOK
<1> QED BY <1>1, IdTyped DEF Numbered

\* The alarm is set for an entry of the table.
LEMMA AlarmTyped ==
  ASSUME NEW head \in CallbackEntry, alarm \in 0 .. UINT32_MAX, setAlarm(head)
  PROVE  alarm' \in 0 .. UINT32_MAX /\ enabled' \in BOOLEAN
BY DEF setAlarm, CallbackEntry

LEMMA SortAlarmTyped ==
  ASSUME NEW entries \in [Index -> CallbackEntry], SortAndSetAlarm(entries),
         alarm \in 0 .. UINT32_MAX, InRange'
  PROVE  /\ callbacks' \in [Index -> CallbackEntry]
         /\ alarm' \in 0 .. UINT32_MAX /\ enabled' \in BOOLEAN
<1>1. 1 \in Index /\ callbacks' \in qsort(entries) /\ setAlarm(callbacks'[1])
  BY Sizes DEF SortAndSetAlarm
<1>2. \A i \in Live(callbacks') : callbacks'[i].unix_time < NULL_UNIX_TIME
  BY DEF InRange, Live
<1>3. callbacks' \in [Index -> CallbackEntry]
  BY <1>1, <1>2, SortTyped
<1> QED BY <1>1, <1>3, AlarmTyped

LEMMA FinishTyped ==
  ASSUME TypeOK, InRange', FinishSort
  PROVE  /\ callbacks' \in [Index -> CallbackEntry] /\ cut' \in CutType
         /\ alarm' \in 0 .. UINT32_MAX /\ enabled' \in BOOLEAN
<1>1. cut' \in CutType
  BY CutTyped DEF FinishSort
<1>2. CASE SortAndSetAlarm(callbacks)
  BY <1>1, <1>2, Typed, SortAlarmTyped DEF TypeOK
<1>3. CASE callbacks' \in Orders(callbacks) /\ setAlarm(callbacks'[1])
  <2>1. callbacks' \in [Index -> CallbackEntry] /\ callbacks'[1] \in CallbackEntry
    BY <1>3, Typed, OrdersTyped, Sizes
  <2> QED BY <1>1, <1>3, <2>1, AlarmTyped DEF TypeOK
<1> QED BY <1>2, <1>3 DEF FinishSort

LEMMA TypedInit == Init => TypeOK
<1> SUFFICES ASSUME Init PROVE TypeOK
  OBVIOUS
<1>1. Dummy \in CallbackEntry
  BY DummyTyped
<1>2. callbacks \in [Index -> CallbackEntry]
  BY <1>1 DEF Init
<1>3. /\ main \in [pc : {"idle", "store", "sort", "count", "clear", "clear_time", "resort", "disarm"},
                   index : Index, entry : CallbackEntry]
      /\ isr \in [pc : {"out", "run", "remove", "again", "sample", "loop"}, entry : CallbackEntry,
                  now : 0 .. Day - 1, first : BOOLEAN]
  BY <1>1, Sizes DEF Init, Resting, Outside
<1>4. asked \in [Request -> [state : {"none", "waiting", "over"}, id : 0 .. UINT32_MAX,
                             left : 0 .. Day, today : BOOLEAN, kills : BOOLEAN, runs : 0 .. 1]]
  BY Sizes DEF Init, NULL_ID
<1>5. id_counter \in 0 .. UINT32_MAX - 1 /\ alarm \in 0 .. UINT32_MAX /\ deletes \in 0 .. Deletes
  BY Sizes, CallbacksAssumption DEF Init
<1>6. cut \in CutType /\ cuts \in 0 .. Cuts
  <2>1. Cuts \in Nat
    BY CallbacksAssumption
  <2>2. cut = NoCut /\ cuts = 0
    BY DEF Init
  <2>3. cut \in CutType
    BY <2>2, CutTyped
  <2> QED BY <2>1, <2>2, <2>3
<1> QED BY <1>2, <1>3, <1>4, <1>5, <1>6 DEF Init, TypeOK, CutType

LEMMA RestTyped ==
  ASSUME TypeOK
  PROVE  /\ Resting \in [pc : {"idle"}, index : Index, entry : CallbackEntry]
         /\ Outside \in [pc : {"out"}, entry : CallbackEntry, now : 0 .. Day - 1, first : BOOLEAN]
<1>1. Dummy \in CallbackEntry /\ 0 \in 0 .. Day - 1 /\ 1 \in Index
  BY DummyTyped, Sizes
<1> QED BY <1>1 DEF Resting, Outside

LEMMA ScheduleTyped ==
  ASSUME TypeOK, InRange', NEW request \in Asked, Schedule(request)
  PROVE  TypeOK'
<1>1. PICK r \in Request :
        /\ main' = [pc |-> "store", index |-> Min(Holding(NULL_ID)),
                    entry |-> [id |-> NULL_ID, unix_time |-> clock + request.delta,
                               next_time |-> next_time(request), callback |-> r]]
        /\ asked' = [asked EXCEPT ![r] = [@ EXCEPT !.state = "waiting", !.left = request.delta,
                                            !.today = clock + request.delta < Day,
                                            !.kills = request.kills]]
        /\ Holding(NULL_ID) # {}
  BY DEF Schedule
<1>2. Min(Holding(NULL_ID)) \in Index
  BY <1>1, FoundFirst DEF Holding
<1>3. request.delta \in 1 .. Day /\ next_time(request) \in 0 .. Day /\ request.kills \in BOOLEAN
  <2>1. request \in [delta : 1 .. Day, continuous : BOOLEAN, kills : BOOLEAN]
    BY Sizes
  <2> QED BY <2>1, Sizes DEF next_time
<1>4. clock + request.delta \in 0 .. UINT32_MAX
  <2>1. clock \in 0 .. Day - 1 /\ clock + request.delta < UINT32_MAX
    BY <1>3, Typed, Sizes
  <2> QED BY <1>3, <2>1, Sizes
<1>5. main'.entry \in CallbackEntry
  BY <1>1, <1>3, <1>4, Sizes DEF CallbackEntry, NULL_ID, Request
<1>6. main' \in [pc : {"idle", "store", "sort", "count", "clear", "clear_time", "resort", "disarm"},
                 index : Index, entry : CallbackEntry]
  BY <1>1, <1>2, <1>5
<1>7. asked' \in [Request -> [state : {"none", "waiting", "over"}, id : 0 .. UINT32_MAX,
                             left : 0 .. Day, today : BOOLEAN, kills : BOOLEAN, runs : 0 .. 1]]
  <2> DEFINE today == clock + request.delta < Day
             Asking == [state : {"none", "waiting", "over"}, id : 0 .. UINT32_MAX,
                        left : 0 .. Day, today : BOOLEAN, kills : BOOLEAN, runs : 0 .. 1]
             now == [asked[r] EXCEPT !.state = "waiting", !.left = request.delta,
                                     !.today = today, !.kills = request.kills]
  <2>1. today \in BOOLEAN
    BY <1>3, Typed, Sizes, IsBefore
  <2>2. asked \in [Request -> Asking] /\ request.delta \in 0 .. Day
    BY <1>3, Typed, Sizes
  <2>3. asked' = [asked EXCEPT ![r] = now]
    BY <1>1
  <2> HIDE DEF today
  <2>4. now \in Asking
    BY <1>3, <2>1, <2>2
  <2> HIDE DEF now, Asking
  <2>5. asked' \in [Request -> Asking]
    BY <2>2, <2>3, <2>4
  <2> QED BY <2>5 DEF Asking
<1> QED BY <1>6, <1>7 DEF TypeOK, Schedule, table, hardware, cuttings

\* The operations of the main thread that are under way.
LEMMA MainTyped ==
  ASSUME TypeOK, InRange', Main
  PROVE  TypeOK'
<1> DEFINE MainType == [pc : {"idle", "store", "sort", "count", "clear", "clear_time", "resort",
                              "disarm"}, index : Index, entry : CallbackEntry]
           Asking == [state : {"none", "waiting", "over"}, id : 0 .. UINT32_MAX,
                      left : 0 .. Day, today : BOOLEAN, kills : BOOLEAN, runs : 0 .. 1]
<1>1. /\ main \in MainType /\ asked \in [Request -> Asking]
      /\ main.index \in Index /\ main.entry \in CallbackEntry
      /\ alarm \in 0 .. UINT32_MAX /\ enabled \in BOOLEAN /\ id_counter \in 0 .. UINT32_MAX
  BY Sizes DEF TypeOK
<1>2. Resting \in MainType /\ 1 \in Index
  BY RestTyped, Sizes
<1>3. UNCHANGED <<clock, isr, pending, deletes, wrongs, cuts, interrupted, torn, overtaken>>
  BY DEF Main, StoreEntry, SortStored, Swap, CountId, ClearId, ClearTime, SortErased, Disarm,
         hardware, history, cuttings, table
<1>4. id_counter' \in 0 .. UINT32_MAX - 1
  <2>1. id_counter' \in Nat
    BY <1>1, Sizes DEF Main, StoreEntry, SortStored, Swap, CountId, ClearId, ClearTime, SortErased,
                       Disarm, table, next_id
  <2> QED BY <2>1, Sizes DEF InRange
<1> SUFFICES /\ callbacks' \in [Index -> CallbackEntry] /\ main' \in MainType
             /\ asked' \in [Request -> Asking] /\ alarm' \in 0 .. UINT32_MAX /\ enabled' \in BOOLEAN
             /\ cut' \in CutType
  BY <1>3, <1>4 DEF TypeOK, CutType
<1> HIDE DEF Asking
<1>5. CASE StoreEntry \/ ClearId \/ ClearTime
  <2>1. UNCHANGED <<alarm, enabled, asked>> /\ cut' \in CutType
    BY <1>5, Typed, CutTyped DEF StoreEntry, ClearId, ClearTime, hardware, history
  <2>2. CASE StoreEntry
    <3> DEFINE entry == Words(cut.words, callbacks[main.index], Numbered)
    <3>1. /\ main' = [main EXCEPT !.pc = "sort", !.index = 1, !.entry = Numbered]
          /\ callbacks' = [callbacks EXCEPT ![main.index] = entry]
      BY <2>2 DEF StoreEntry
    <3>2. Numbered \in CallbackEntry /\ entry \in CallbackEntry
      BY <1>1, Typed, NumberedTyped, WordsTyped
    <3> HIDE DEF entry
    <3>3. main' \in MainType
      BY <1>1, <1>2, <3>1, <3>2
    <3> QED BY <1>1, <2>1, <3>1, <3>2, <3>3, Typed
  <2>3. CASE ClearId
    <3>1. /\ main' = [main EXCEPT !.pc = "clear_time", !.entry = callbacks[main.index]]
          /\ callbacks' = [callbacks EXCEPT ![main.index] = [@ EXCEPT !.id = NULL_ID]]
      BY <2>3 DEF ClearId
    <3>2. callbacks[main.index] \in CallbackEntry
      BY <1>1, Typed
    <3>3. [callbacks[main.index] EXCEPT !.id = NULL_ID] \in CallbackEntry
      BY <3>2, IdTyped, DummyTyped
    <3>4. main' \in MainType
      BY <1>1, <3>1, <3>2
    <3> QED BY <1>1, <2>1, <3>1, <3>3, <3>4, Typed
  <2>4. CASE ClearTime
    <3>1. /\ main' = [main EXCEPT !.pc = "resort", !.index = 1]
          /\ callbacks' = [callbacks EXCEPT ![main.index] = [@ EXCEPT !.unix_time = NULL_UNIX_TIME]]
      BY <2>4 DEF ClearTime
    <3>2. callbacks[main.index] \in CallbackEntry
      BY <1>1, Typed
    <3>3. [callbacks[main.index] EXCEPT !.unix_time = NULL_UNIX_TIME] \in CallbackEntry
      BY <3>2, EntryTyped
    <3>4. main' \in MainType
      BY <1>1, <1>2, <3>1
    <3> QED BY <1>1, <2>1, <3>1, <3>3, <3>4, Typed
  <2> QED BY <1>5, <2>2, <2>3, <2>4
<1>6. CASE SortStored
  <2>1. main' \in MainType
    BY <1>1, <1>6 DEF SortStored
  <2> QED BY <1>1, <1>6, <2>1, FinishTyped DEF SortStored, history
<1>7. CASE CountId
  <2>1. asked' = [asked EXCEPT ![main.entry.callback] = [@ EXCEPT !.id = main.entry.id]]
    BY <1>7 DEF CountId
  <2>2. main.entry.id \in 0 .. UINT32_MAX
    BY <1>1 DEF CallbackEntry
  <2>3. \A r \in Request : [asked[r] EXCEPT !.id = main.entry.id] \in Asking
    BY <1>1, <2>2 DEF Asking
  <2>4. asked' \in [Request -> Asking]
    BY <1>1, <2>1, <2>3
  <2> QED BY <1>1, <1>2, <1>7, <2>4, Typed DEF CountId, hardware
<1>8. CASE SortErased
  <2>1. asked' = asked \/ asked' = [asked EXCEPT ![main.entry.callback] = [@ EXCEPT !.state = "over"]]
    BY <1>8 DEF SortErased
  <2>2. \A r \in Request : [asked[r] EXCEPT !.state = "over"] \in Asking
    BY <1>1 DEF Asking
  <2>3. asked' \in [Request -> Asking]
    BY <1>1, <2>1, <2>2
  <2> QED BY <1>1, <1>2, <1>8, <2>3, FinishTyped DEF SortErased
<1>9. CASE Disarm
  <2>1. \A r \in Request : [asked[r] EXCEPT !.state = "over"] \in Asking
    BY <1>1 DEF Asking
  <2>2. asked' \in [Request -> Asking]
    BY <1>1, <1>9, <2>1 DEF Disarm, AllOver
  <2> QED BY <1>1, <1>2, <1>9, <2>2, Typed, AlarmTyped DEF Disarm, table
<1>10. CASE Swap
  <2> DEFINE one == Words(cut.words, callbacks[cut.one], callbacks[cut.other])
             other == Words(cut.words, callbacks[cut.other], callbacks[cut.one])
  <2>1. /\ callbacks' = [callbacks EXCEPT ![cut.one] = one, ![cut.other] = other]
        /\ cut' \in CutType /\ UNCHANGED <<main, alarm, enabled, asked>>
    BY <1>10, CutTyped DEF Swap, hardware, history
  <2>2. one \in CallbackEntry /\ other \in CallbackEntry
    <3>1. callbacks[cut.one] \in CallbackEntry /\ callbacks[cut.other] \in CallbackEntry
      BY Typed
    <3> QED BY <3>1, WordsTyped
  <2> HIDE DEF one, other
  <2> QED BY <1>1, <2>1, <2>2, Typed
<1> QED BY <1>5, <1>6, <1>7, <1>8, <1>9, <1>10 DEF Main

\* The other operations begin or are over in one step.
LEMMA CallerTyped ==
  ASSUME TypeOK, InRange', Caller
  PROVE  TypeOK'
<1>1. CASE \E request \in Asked : Schedule(request)
  BY <1>1, ScheduleTyped
<1>2. CASE \E r \in Request : Delete(asked[r].id)
  <2>1. PICK id : Delete(id)
    BY <1>2
  <2>2. deletes' \in 0 .. Deletes
    BY <2>1, CallbacksAssumption DEF Delete, TypeOK
  <2>3. main' \in [pc : {"idle", "store", "sort", "count", "clear", "clear_time", "resort", "disarm"},
                   index : Index, entry : CallbackEntry]
    <3>1. CASE /\ Holding(id) # {}
               /\ main' = [pc |-> "clear", index |-> Min(Holding(id)), entry |-> Dummy]
      <4>1. Min(Holding(id)) \in Index
        BY <3>1, FoundFirst DEF Holding
      <4> QED BY <3>1, <4>1, DummyTyped
    <3>2. CASE UNCHANGED main
      BY <3>2 DEF TypeOK
    <3> QED BY <2>1, <3>1, <3>2 DEF Delete
  <2> QED BY <2>1, <2>2, <2>3 DEF TypeOK, Delete, table, hardware, cuttings
<1>3. CASE DeleteAll
  <2>1. deletes' \in 0 .. Deletes
    BY <1>3, CallbacksAssumption DEF DeleteAll, TypeOK
  <2>2. main' \in [pc : {"idle", "store", "sort", "count", "clear", "clear_time", "resort", "disarm"},
                   index : Index, entry : CallbackEntry]
    BY <1>3, RestTyped DEF DeleteAll
  <2>3. callbacks' \in [Index -> CallbackEntry]
    BY <1>3, Typed, EntryTyped DEF DeleteAll, AllErased
  <2> QED BY <1>3, <2>1, <2>2, <2>3 DEF TypeOK, DeleteAll, hardware, cuttings
<1> QED BY <1>1, <1>2, <1>3 DEF Caller

LEMMA RanTyped ==
  ASSUME NEW state \in {"none", "waiting", "over"},
         NEW old \in [state : {"none", "waiting", "over"}, id : 0 .. UINT32_MAX,
                      left : 0 .. Day, today : BOOLEAN, kills : BOOLEAN, runs : 0 .. 1]
  PROVE  [old EXCEPT !.runs = 1, !.state = state]
            \in [state : {"none", "waiting", "over"}, id : 0 .. UINT32_MAX,
                 left : 0 .. Day, today : BOOLEAN, kills : BOOLEAN, runs : 0 .. 1]
<1> DEFINE States == {"none", "waiting", "over"}
           Runs == 0 .. 1
           IdRange == 0 .. UINT32_MAX
           Left == 0 .. Day
           Asking == [state : States, id : IdRange, left : Left, today : BOOLEAN, kills : BOOLEAN,
                      runs : Runs]
<1>1. 1 \in Runs /\ state \in States /\ old \in Asking
  OBVIOUS
<1> HIDE DEF States, Runs, IdRange, Left
<1>2. [old EXCEPT !.runs = 1, !.state = state] \in Asking
  BY <1>1
<1> QED BY <1>2 DEF States, Runs, IdRange, Left

LEMMA RunTyped ==
  ASSUME TypeOK, RunCallback
  PROVE  TypeOK'
<1> DEFINE Asking == [state : {"none", "waiting", "over"}, id : 0 .. UINT32_MAX,
                      left : 0 .. Day, today : BOOLEAN, kills : BOOLEAN, runs : 0 .. 1]
           r == isr.entry.callback
           once == isr.entry.next_time = 0
           ran == [asked EXCEPT ![r].runs = 1, ![r].state = IF once THEN "over" ELSE @]
<1>1. /\ isr' = [isr EXCEPT !.pc = "remove"]
      /\ UNCHANGED <<clock, id_counter, main, cut, pending, deletes, cuts, interrupted, torn, overtaken>>
      /\ \/ asked' = AllOver(ran) /\ callbacks' = AllErased /\ setAlarm(callbacks'[1])
         \/ asked' = ran /\ UNCHANGED <<callbacks, alarm, enabled>>
  BY DEF RunCallback, thread, cuttings
<1>2. wrongs' \subseteq {"early", "deleted", "twice"}
  BY DEF RunCallback, TypeOK
<1>3. ran \in [Request -> Asking]
  <2>1. asked \in [Request -> Asking]
    BY DEF TypeOK
  <2>2. CASE r \notin Request
    BY <2>1, <2>2
  <2>3. CASE r \in Request
    <3> DEFINE state == IF once THEN "over" ELSE asked[r].state
               record == [asked[r] EXCEPT !.runs = 1, !.state = state]
    <3>1. ran = [asked EXCEPT ![r] = record] /\ asked[r] \in Asking
      BY <2>1, <2>3
    <3>2. state \in {"none", "waiting", "over"}
      BY <3>1
    <3> HIDE DEF state
    <3>3. record \in Asking
      <4>1. asked[r] \in Asking
        BY <2>1, <2>3
      <4> HIDE DEF r, once
      <4> QED BY <3>2, <4>1, RanTyped
    <3> HIDE DEF record, Asking
    <3> QED BY <2>1, <3>1, <3>3
  <2> QED BY <2>2, <2>3
<1> HIDE DEF ran
<1>4. asked' \in [Request -> Asking]
  <2>1. \A q \in Request : [ran[q] EXCEPT !.state = "over"] \in Asking
    BY <1>3
  <2> HIDE DEF Asking
  <2>2. AllOver(ran) \in [Request -> Asking]
    BY <1>3, <2>1 DEF AllOver
  <2> QED BY <1>1, <1>3, <2>2
<1>5. AllErased \in [Index -> CallbackEntry]
  BY Typed, EntryTyped DEF AllErased
<1>6. /\ callbacks' \in [Index -> CallbackEntry]
      /\ alarm' \in 0 .. UINT32_MAX /\ enabled' \in BOOLEAN
  <2>1. CASE callbacks' = AllErased /\ setAlarm(callbacks'[1])
    <3>1. callbacks'[1] \in CallbackEntry
      BY <1>5, <2>1, Sizes
    <3> QED BY <1>5, <2>1, <3>1, AlarmTyped DEF TypeOK
  <2>2. CASE UNCHANGED <<callbacks, alarm, enabled>>
    BY <2>2 DEF TypeOK
  <2> QED BY <1>1, <2>1, <2>2
<1>7. isr' \in [pc : {"out", "run", "remove", "again", "sample", "loop"}, entry : CallbackEntry,
                now : 0 .. Day - 1, first : BOOLEAN]
  BY <1>1 DEF TypeOK
<1> QED BY <1>1, <1>2, <1>4, <1>6, <1>7 DEF TypeOK

\* The interrupt, wherever it comes.
LEMMA EnterTyped == ASSUME TypeOK, InRange', Enter PROVE TypeOK'
<1>1. /\ pending' = FALSE /\ UNCHANGED <<clock, id_counter, alarm, enabled, deletes, asked, wrongs>>
      /\ overtaken' = overtaken
  BY DEF Enter
<1>2. interrupted' \in BOOLEAN
  BY Zenon DEF Enter, TypeOK
<1>3. CASE UNCHANGED <<callbacks, thread, isr, cuts, torn>>
  <2>1. UNCHANGED <<callbacks, main, cut, isr, cuts, torn>>
    BY <1>3 DEF thread
  <2>2. pending' \in BOOLEAN
    BY <1>1
  <2> QED BY <1>1, <1>2, <2>1, <2>2 DEF TypeOK
<1>4. CASE Cut /\ Take(callbacks'[1]) /\ torn' = (torn \/ cut'.words > 0)
  <2>1. torn' \in BOOLEAN
    BY <1>4, Zenon DEF TypeOK
  <2> SUFFICES /\ callbacks' \in [Index -> CallbackEntry] /\ cut' \in CutType /\ cuts' \in 0 .. Cuts
               /\ main' = main \/ main' = [main EXCEPT !.entry = Numbered]
    <3>1. callbacks'[1] \in CallbackEntry
      BY Sizes
    <3>2. isr' \in [pc : {"out", "run", "remove", "again", "sample", "loop"},
                    entry : CallbackEntry, now : 0 .. Day - 1, first : BOOLEAN]
      BY <1>4, <3>1 DEF TypeOK, Take
    <3>3. main' \in [pc : {"idle", "store", "sort", "count", "clear", "clear_time", "resort", "disarm"},
                     index : Index, entry : CallbackEntry]
      BY NumberedTyped DEF TypeOK
    <3> QED BY <1>1, <1>2, <2>1, <3>2, <3>3 DEF TypeOK, CutType
  <2>2. CASE UNCHANGED <<callbacks, main, cut, cuts>>
    BY <2>2, Typed DEF TypeOK
  <2>3. cuts < Cuts /\ cuts' = cuts + 1 => cuts' \in 0 .. Cuts
    BY CallbacksAssumption DEF TypeOK
  <2>4. CASE cuts' \in 0 .. Cuts /\ CutCopy
    <3>1. PICK words \in {0} \cup CutWords :
            /\ cut' = [NoCut EXCEPT !.pc = "copying", !.words = words]
            /\ callbacks' = [callbacks EXCEPT ![main.index] = Words(words, Numbered, @)]
      BY <2>4 DEF CutCopy
    <3>2. Words(words, Numbered, callbacks[main.index]) \in CallbackEntry
      BY Typed, NumberedTyped, WordsTyped
    <3> QED BY <2>4, <3>1, <3>2, Typed, CutTyped DEF CutCopy
  <2>5. CASE cuts' \in 0 .. Cuts /\ CutSort
    BY <2>5, Typed, OrdersTyped, CutTyped DEF CutSort
  <2>6. CASE cuts' \in 0 .. Cuts /\ CutSwap
    <3>1. PICK entries \in Orders(callbacks), i \in Index, j \in Index, words \in CutWords :
            /\ cut' = [pc |-> "swapping", words |-> words, one |-> i, other |-> j]
            /\ callbacks' = [entries EXCEPT ![i] = Words(words, entries[j], entries[i]),
                                             ![j] = Words(words, entries[i], entries[j])]
      BY <2>6 DEF CutSwap
    <3>2. entries \in [Index -> CallbackEntry]
      BY Typed, OrdersTyped
    <3>3. /\ Words(words, entries[j], entries[i]) \in CallbackEntry
          /\ Words(words, entries[i], entries[j]) \in CallbackEntry
      BY <3>2, WordsTyped
    <3> QED BY <2>6, <3>1, <3>2, <3>3, CutTyped DEF CutSwap
  <2> QED BY <1>4, <2>2, <2>3, <2>4, <2>5, <2>6 DEF Cut
<1> QED BY <1>3, <1>4 DEF Enter

LEMMA InterruptTyped ==
  ASSUME TypeOK, InRange', Remove \/ Again \/ Sample \/ Loop \/ Leave
  PROVE  TypeOK'
<1> DEFINE IsrTypes == [pc : {"out", "run", "remove", "again", "sample", "loop"},
                       entry : CallbackEntry, now : 0 .. Day - 1, first : BOOLEAN]
<1>1. /\ isr \in IsrTypes /\ isr.entry \in CallbackEntry /\ callbacks[1] \in CallbackEntry
      /\ clock \in 0 .. Day - 1
  BY Typed DEF TypeOK
<1>2. Continue \in IsrTypes /\ [isr EXCEPT !.pc = "again"] \in IsrTypes
  BY <1>1, DummyTyped DEF Continue
<1>3. isr' \in IsrTypes
  <2>1. CASE Remove
    BY <1>2, <2>1 DEF Remove
  <2>2. CASE Again
    BY <1>2, <2>2 DEF Again
  <2>3. CASE Sample
    BY <1>1, <2>3 DEF Sample
  <2>4. CASE Loop
    BY <1>1, <2>4 DEF Loop, Take
  <2>5. CASE Leave
    BY <2>5, RestTyped DEF Leave
  <2> QED BY <2>1, <2>2, <2>3, <2>4, <2>5
<1>4. CASE Sample \/ Loop \/ Leave
  BY <1>3, <1>4 DEF TypeOK, Sample, Loop, Leave, table, hardware, history, thread, cuttings
<1>5. CASE Remove
  <2>1. /\ callbacks' \in [Index -> CallbackEntry]
        /\ alarm' \in 0 .. UINT32_MAX /\ enabled' \in BOOLEAN
    <3> DEFINE i == Min(Holding(isr.entry.id))
               entries == [callbacks EXCEPT ![i] = Erased(@)]
    <3>1. CASE Holding(isr.entry.id) # {} /\ SortAndSetAlarm(entries)
      <4>1. i \in Index
        BY <3>1, FoundFirst DEF Holding
      <4> HIDE DEF i
      <4>2. entries \in [Index -> CallbackEntry]
        BY <4>1, Typed, EntryTyped
      <4> HIDE DEF entries
      <4> QED BY <3>1, <4>2, SortAlarmTyped DEF TypeOK
    <3>2. CASE UNCHANGED <<callbacks, alarm, enabled>>
      BY <3>2 DEF TypeOK
    <3> QED BY <1>5, <3>1, <3>2 DEF Remove
  <2> QED BY <1>3, <1>5, <2>1 DEF TypeOK, Remove, history, thread, cuttings
<1>6. CASE Again
  <2>1. /\ callbacks' \in [Index -> CallbackEntry]
        /\ alarm' \in 0 .. UINT32_MAX /\ enabled' \in BOOLEAN
    <3> DEFINE index == Min(Holding(NULL_ID))
               back == [isr.entry EXCEPT !.unix_time = @ + isr.entry.next_time]
               entry == [back EXCEPT !.id = id_counter]
               entries == [callbacks EXCEPT ![index] = entry]
    <3>1. CASE Holding(NULL_ID) # {} /\ SortAndSetAlarm(entries)
      <4>1. index \in Index
        BY <3>1, FoundFirst DEF Holding
      <4> HIDE DEF index
      <4>2. /\ DOMAIN entries = Index /\ entries[index] = entry
            /\ \A i \in Index \ {index} : entries[i] \in CallbackEntry
        BY <4>1, Typed
      <4>3. entry.id # NULL_ID /\ (entry.unix_time < NULL_UNIX_TIME => entry \in CallbackEntry)
        <5>1. id_counter \in 0 .. UINT32_MAX - 1
          BY DEF TypeOK
        <5>2. isr.entry.unix_time + isr.entry.next_time \in Nat
          <6>1. /\ isr.entry.unix_time \in 0 .. UINT32_MAX
                /\ isr.entry.next_time \in 0 .. Day
            BY <1>1, EntryTyped
          <6> QED BY <6>1, Sizes
        <5>3. entry.unix_time = isr.entry.unix_time + isr.entry.next_time /\ entry.id = id_counter
          BY <1>1 DEF CallbackEntry
        <5>4. ASSUME entry.unix_time < NULL_UNIX_TIME PROVE entry \in CallbackEntry
          <6>1. isr.entry.unix_time + isr.entry.next_time \in 0 .. UINT32_MAX
            BY <5>2, <5>3, <5>4, Sizes DEF NULL_UNIX_TIME
          <6>2. back \in CallbackEntry
            BY <1>1, <6>1 DEF CallbackEntry
          <6>3. id_counter \in 0 .. UINT32_MAX
            BY <5>1, Sizes
          <6> HIDE DEF back
          <6> QED BY <6>2, <6>3, IdTyped
        <5> QED BY <5>1, <5>3, <5>4, Sizes DEF NULL_ID
      <4> HIDE DEF entry, entries
      <4>4. \A i \in Live(callbacks') : callbacks'[i].unix_time < NULL_UNIX_TIME
        BY DEF InRange, Live
      <4>5. callbacks' \in [Index -> CallbackEntry]
        BY <3>1, <4>1, <4>2, <4>3, <4>4, SortTyped DEF SortAndSetAlarm
      <4>6. callbacks'[1] \in CallbackEntry
        BY <4>5, Sizes
      <4> QED BY <3>1, <4>5, <4>6, AlarmTyped DEF SortAndSetAlarm, TypeOK
    <3>2. CASE UNCHANGED <<callbacks, alarm, enabled>>
      BY <3>2 DEF TypeOK
    <3> QED BY <1>6, <3>1, <3>2 DEF Again, Insert, table
  <2>2. id_counter' \in 0 .. UINT32_MAX - 1
    <3>1. id_counter' \in Nat
      BY <1>6, Sizes DEF Again, next_id, table, TypeOK
    <3> QED BY <3>1, Sizes DEF InRange
  <2> QED BY <1>3, <1>6, <2>1, <2>2 DEF TypeOK, Again, history, thread, cuttings
<1> QED BY <1>4, <1>5, <1>6

LEMMA TickTyped ==
  ASSUME TypeOK, Tick
  PROVE  TypeOK'
<1> DEFINE Asking == [state : {"none", "waiting", "over"}, id : 0 .. UINT32_MAX,
                      left : 0 .. Day, today : BOOLEAN, kills : BOOLEAN, runs : 0 .. 1]
<1>1. clock' \in 0 .. Day - 1
  <2>1. clock' = IF clock + 1 = Day THEN 0 ELSE clock + 1
    BY Typed, Midnight DEF Tick
  <2> QED BY <2>1, Typed, Sizes
<1>2. asked' \in [Request -> Asking]
  <2>1. \A r \in Request : [asked[r] EXCEPT !.left = IF @ = 0 THEN 0 ELSE @ - 1] \in Asking
    <3> TAKE r \in Request
    <3> DEFINE left == IF asked[r].left = 0 THEN 0 ELSE asked[r].left - 1
    <3>1. asked[r] \in Asking /\ left \in 0 .. Day
      BY Typed, Sizes
    <3> HIDE DEF left
    <3>2. [asked[r] EXCEPT !.left = left] \in Asking
      BY <3>1
    <3> QED BY <3>2 DEF left
  <2> HIDE DEF Asking
  <2> QED BY <2>1 DEF Tick
<1>3. pending' \in BOOLEAN /\ overtaken' \in BOOLEAN
  BY Zenon DEF Tick, TypeOK
<1> QED BY <1>1, <1>2, <1>3 DEF TypeOK, Tick, table, thread

(* Every value keeps within the width its C type gives it, as long as      *)
(* InRange holds: ids and times of day are never read after they wrapped.  *)
THEOREM CallbacksTypeCorrect == Spec /\ []InRange => []TypeOK
<1>1. TypeOK /\ InRange' /\ [Next]_vars => TypeOK'
  <2> SUFFICES ASSUME TypeOK, InRange', [Next]_vars PROVE TypeOK'
    OBVIOUS
  <2>1. CASE UNCHANGED vars
    BY <2>1 DEF vars, table, thread, hardware, history, cuttings, TypeOK
  <2> QED BY <2>1, CallerTyped, MainTyped, RunTyped, EnterTyped, InterruptTyped, TickTyped DEF Next, Interrupt
<1> QED BY <1>1, TypedInit, PTL DEF Spec
=============================================================================
