# IntelliSat: verification models

TLA+ models of the IntelliSat flight software (the PFC board of a CubeSat: STM32L476, C, bare metal), the
TLC configurations that check them on small instances, and proofs that TLAPS checks. `PROJECT.json` lists the
runs, the theorems, the source lines each definition translates, the hazards of the code and a mutant of the
code for each checked property.

Contents: 1 the system; 2 the modules; 3 the runs; 4 assumptions, bounds and fairness; 5 the proofs;
6 disagreements between code and documentation; 7 what is not modelled; 8 the plan.

## 1. The system

`main` initialises the platform, counts the boot in FRAM, runs the deployment sequence `Startup()` and then
enters the scheduler. One main thread and a few interrupts (heartbeat timer, RTC alarm and wake-up, UART
receive, QUADSPI); no task switch on the modelled paths. The board may lose power, or be reset by its watchdog,
at any instruction; what survives is FRAM, flash, the RTC's backup domain and whatever the radio board holds.

| Component | State it keeps | Operations | Talks to | What must hold |
|---|---|---|---|---|
| Startup store (`startup_store.c`) | two 20-byte FRAM slots; `s_active` (slot and sequence of the last load) | load, save | FRAM driver below; Startup above | a save is all or nothing across resets and device faults; OK means durable; a loadable device stays loadable |
| Startup sequence (`startup.h`) | `StartupStoreState` in RAM; locals of the waits | inhibit, reserve, burn, wait, handshake, hand-off | store, pyro output, radio, clock, battery monitor | the burn wire is ON only for a durably reserved attempt and never early; the record moves one way; an armed device keeps trying |
| FRAM provisioning tool (`tools/startup_fram/onboard`) | the private image, the media | validate, eight staged writes and checks | FRAM; its output is what the loader reads at the next boot | a cut leaves old or new records, never a mixture; success means the flight loader boots the image |
| CRC link (`crc.c`) | nothing between calls; bytes in the receive ring | transmit with retry, wait for the ACK, read, chunked transfers | UART driver; same code at both ends | complete and in-order results; a report of success is true; bounded calls |
| RTC callbacks (`rtc.c`) | callback table, `id_counter`, alarm register | schedule, delete, delete all; alarm interrupt | RTC hardware; main thread and interrupt share the table | each callback runs once per period, not early, not after its deletion; the alarm is set for the earliest entry |
| UART driver (`uart.c`) | 128-byte receive ring, timeout flag, `gotFullPacket`, `gotUplink` | interrupt enqueues; reader dequeues | CRC link; uplink flag to the main thread | no byte lost or taken twice below capacity; an uplink is announced only when complete; both sides see the same packets |
| Radio intercom (`Radio_intercom.c`) | `communicatingWithRadio` | push, force_pull, pull, state, downlink, uplink | CRC link; the radio's firmware | a message is returned whole or not at all; a failed pull does not poison the next one |
| Boot and power-up (`platform_init.h`) | boot counter in FRAM | read, increment, write, verify | FRAM, Startup | a counted boot is counted once; saturation is reported |
| Sleep and watchdog (`PWR`, `WDG`) | `sleep_cycles`, `sleep_remainder` | wake-up cycles, kicks | RTC wake-up interrupt | no lost wake-up; the watchdog is kicked within its interval in both modes |
| QSPI and flash | command state, status flags | command, poll, transfer | QUADSPI interrupt, littlefs callbacks | one command at a time; a timeout leaves the peripheral usable |
| Logger and filesystem (`virtual_loggers.c`, `lfs_config.c`) | the open log and its row, the littlefs image on the FLASH | mount or format, create, open, log, read, close | littlefs (vendored), flash | rows stay aligned; a close commits what was accepted; what reached the part is kept |
| ADCS control | coil outputs, control loop counters | detumble, PID, ramp | IMU, magnetometer, PWM | the coils are OFF whenever the loop is left |
| Others | sensors, power monitors, timers, DMA, SPI and I2C drivers, mathematics, scheduler stubs | register reads and writes, arithmetic | | see section 7 |

The hard behaviours are resets between any two device operations (store, provisioning, boot counter), device
writes that fail, are ignored or land in part (store, FLASH), time that runs on while work is done (the waits),
answers that are lost or late (CRC link, radio), interrupts in the middle of table and ring updates (RTC, UART), and
loops that must not settle in a state from which nothing is attempted again (Startup). `PROJECT.json` lists them one by one, with line
numbers and the properties that would catch each.

## 2. The modules

| Module | Models | Notes |
|---|---|---|
| `StartupRecord` | `MCUState`, `StartupStoreState`, `startup_store_retry_ms`, `startup_store_state_is_valid` | shared by all Startup modules |
| `StartupMedia` | the two slots, `store_decode`, the selection of `startup_store_load` | extends `StartupRecord` |
| `DurableRecord` | abstract specification: one register, updated all or nothing, that survives resets | no slots, markers or sequences |
| `StartupStore` | `startup_store_load` and `startup_store_save`, one action per device operation | refines `DurableRecord` |
| `Deployment` | abstract specification: which burns may happen, after how much powered time, and what ends them | no records, saves, boots, clocks or radio |
| `Startup` | `Startup()` and everything it calls, over `DurableRecord` | one action per iteration or per blocking call; refines `Deployment` |
| `Provision` | `startup_fram_provision_image` | shares `StartupMedia` with the loader it must agree with |
| `CrcLink` | both ends of `crc_chunked_transmit` / `crc_chunked_read` and the line between them | |
| `RtcCallbacks` | the callback table, `setAlarm` and `RTC_ALARM_IRQHandler` | |
| `Logger` | `virtual_loggers.c`, `fs_mount`, and what the littlefs calls they make do to handle and image | FLASH failures and resets at any step; refines `Journal` |
| `Journal` | abstract specification: the open log is a transaction, committed whole or not at all | no pages, caches, flushes or formats |
| `ByteQueue` | abstract specification: a bounded queue of bytes that a byte too many empties | no indices |
| `RadioUart` | `USART1_IRQHandler` against the reader of `radio_uplink` | refines `ByteQueue` |
| `MC*` | constants for TLC, nothing else | |
| `StartupMedia_proofs`, `StartupStore_proofs`, `Startup_proofs`, `Provision_proofs`, `CrcLink_proofs`, `RtcCallbacks_proofs`, `Logger_proofs`, `RadioUart_proofs` | the proofs about the module they are named after | |

**Composition.** `Startup` uses the store through the actions of `DurableRecord` (`Store!Begin`,
`Store!Acknowledge`, `Store!Abandon`, `Store!Load`, `Store!Reset`), and `StartupStore` is shown, by TLC and by
proof, to implement `DurableRecord`. So whatever `Startup` relies on is what `startup_store.c` provides, including
the unpleasant case: a save that failed may or may not be durable. Above, `Startup` implements `Deployment`, in which a
reservation consumes its attempt at once, an ON needs a reservation and nothing owed, a reset does nothing but turn the wire
off, and each stage is entered once. The mapping reads the stage and the attempts off the durable record, that is, off what a boot
starting now would find, and the wire off `pyro` and `pc`.

**StartupStore.** `slots` is the media, `s_active` the static of the same name, `pc` the next device operation of a
running save, `state` its argument, `result` what the last call returned. `Invalidate`, `WritePayload` and `Commit`
may leave the old bytes, the new ones or (payload only) a torn mixture; `Verify*` go on only when the bytes
read back are the intended ones; `SaveFails` is the early return of any device call; `Reset` may come anywhere.

**Startup.** `pc` names the place the thread has reached (`loop` is the `switch`, `gate` the battery check,
`reserved` the place between the reservation and ON, `burn` the burn loop, `wait`/`count`/`sleep` the parts of
`startup_wait`, `saving` inside `startup_store_save`, `ops` after the hand-off). `remaining`, `unsaved` and `lag`
are the locals of `startup_wait` (`lag` is `getSysTime() - reference`), `timer` the elapsed burn or response time,
`hello` the pacing of HELLO. Locals that are dead are reset to a fixed value. `owed`, `heard` and `queued` are
history variables for the properties. The `DIAGNOSTICS_MODE` and `default` cases are unreachable: the store
never returns such a record.

**Provision.** `stage` walks through `Steps`; `written` separates the write of a stage from its verification.
`former` remembers the media at the start of the run. `startup_fram_image_is_valid` is translated from the tool's
own rules, which share no code with the loader's; the loader's rules are those of `StartupMedia`.

**CrcLink.** `frames` and `answers` are the bytes in flight or in a receive ring. A frame is a transfer number and
a chunk index, or `Garbled` when its escapes, terminator or CRC do not hold. `sender` holds the loops of
`crc_chunked_transmit`, `crc_transmit` and `crc_wait` (`chunk`, `attempts`, `tries`), `reader` those of
`crc_chunked_read`. The order of the code is kept where it matters: `crc_read` acknowledges a frame before its index
is looked at; any `'A'` counts as the answer; a `;` or a last byte of noise ends the wait without a retry, only
silence leads to one. `late` records that a wait used its last read with an answer still to come.

**RtcCallbacks.** `main` is the operation of the main thread, divided at its accesses to the table (`StoreEntry`,
`SortStored`, `CountId`; `ClearId`, `ClearTime`, `SortErased`); `isr` is the interrupt. The interrupt is taken as soon as
its line is enabled and pending, and the main thread waits for it to return. It comes between two steps of the main
thread or inside one (`Cut`): with an entry numbered and some of its words copied (`CutCopy`), with the sort between two
exchanges (`CutSort`), or with some of the words of two entries exchanged (`CutSwap`). `cut` remembers where, and the
main thread goes on from there, on whatever the interrupt left in those slots (`Swap`, `FinishSort`): it copies or
exchanges the other words, and a sort whose earlier comparisons no longer hold may leave any order. Time
may pass inside the interrupt, so the alarm can match again. `pending` is the latched interrupt flag (`EXTI->PR1`), which
`setAlarm` does not clear. `asked` is the history of each request.

**Logger.** `disk` is what a reset leaves, `log_file` the one open handle with its littlefs state: `content` and `tail`
(before and after the last flush), `pos`, and the flags of lfs.h (`writing`, `dirty`, `erred`, `inline`). A row is
`RowSize` cells, each saying what the row says and which part of it the cell is, so a shifted or cut row is told
from a whole one. The calls of littlefs are translated from lfs.c as far as they change handle or image: a file
leaves its directory entry when it outgrows it (`outlines`), a write reaches the FLASH only when it starts a
block or fills a page (`starts_block`, `touches_flash`), and one that crosses a block has two steps of which the second may fail (`WriteSplit`). Nobody
reads `writeRow`'s result; `written` keeps it for the properties. `fs_mount` formats on any failed mount.

**RadioUart.** `Receive` is the interrupt, one byte at a time: it stores at `rear`, reads that byte back and keeps `escaped`,
`gotFullPacket` and `gotUplink`. The main thread is the loop of `Radio_intercom_tester.c`, the only user of
`gotUplink`: `radio_uplink` on the flag, `crc_read` byte by byte (load the byte, then advance `front`, the interrupt
in between), `setCommunicatingRadio(false)`, and last the clearing of `gotUplink`. A byte is a terminator, an escape or
another. Each cell of the ring carries, as history, whether a packet begins or ends with it as the interrupt sees
them; `insync`, `stale` and `broken` are history variables too.

## 3. The runs

| Run | States | Shows |
|---|---|---|
| `startup_store` | 4 936 | from every pair of slot images: the loaded slot stays intact, OK is durable, the device stays loadable, sequences advance by one, and the store implements `DurableRecord` |
| `startup_safety` | 179 481 | over any number of boots: ON only with a durable reservation; owed time passed in full before ON (`BurnSpacing`); handshake entry and end are final and caused, which is part of implementing `Deployment` (`ImplementsDeployment`); saves are valid; a reset loses at most a checkpoint; the durable record moves one way and stays as it is while unarmed (`DurableProgress`) |
| `startup_liveness` | 41 412 | once faults cease: an armed device burns again and again until it is told to stop, and every burn ends (`KeepsTrying`); HELLO is repeated until answered |
| `startup_queued_start` | violation | section 6 |
| `provision` | 9 020 | a cut leaves complete slots of one generation; OK means the flight loader boots the image |
| `crc_link` | 129 956 | results are complete and in order, and of one transfer while no wait ended with its answer still to come (`ReturnedIntact`); each believed chunk used an intact answer of its own; reports are true on the same condition, whichever read of a wait finds the answer (`PromptReportsAreTrue`); both ends always return (`BothReturn`) |
| `crc_link_late` | violation | section 6 |
| `rtc_callbacks` | 286 045 | the table, the alarm set for it and the calls are right as long as the interrupt never comes in the middle of an operation of the main thread; a one-shot callback runs at most once as long as it never comes in the middle of an entry being copied or exchanged; what is due today is called |
| `rtc_early`, `rtc_midnight` | violations | section 6 |
| `logger` | 455 676 | two logs, FLASH failures and resets at any step: rows stay whole unless a failure falls between the two blocks of one; reads follow the order of logging; a clean close commits every row accepted; the open log is a transaction, and nothing on the part is lost before a first failure (`ImplementsJournal`) |
| `radio_uart` | 607 750 | any bytes at any moment: the ring is a queue that an overrun empties; reader and interrupt see the same packets; a report finds a packet's end in the ring and its beginning before it, but for three named cases |

Each property of a passing run has a mutant in `PROJECT.json`: a changed definition, as a plausible bug would
change the code, under which TLC finds the property violated. Mutants sit beside the definition they replace and
are marked `mutant`; nothing else uses them.

Where a property carries a condition, the condition is a history variable that says exactly what
must not have happened, and the run shows that nothing else breaks it. For `logger` that is `split` (a failure at a
block boundary inside one row), for `radio_uart` `insync` (no overrun, no read that gave up behind an escape byte) and
`stale` (no packet completed during the last communication, none lost in an overrun) and `broken`: the packet at which the
reader stands lost its first bytes to an overrun or to a `crc_read` that took them and gave up. Then only its end is claimed.

The properties of `rtc_callbacks` carry their condition openly. `TableIsExact` and `CalledToday` assume `~interrupted`,
that is, that the interrupt never came in the middle of an operation of the main thread; without it they
fail (shared ids, an erased time of another entry: see the hazards at `rtc.c:600` and `rtc.c:626`), and the code has no
critical section. `CalledRightly` adds `~overtaken`: the alarm did not match inside the interrupt or with its line
disabled. `OnceOnly` needs less, `~torn`: the interrupt may come in the middle of an operation, before the copy of an entry and
between two exchanges of a sort, but not between two words of an entry being copied or exchanged. Without that condition it
fails in the same instance: an interrupt in the middle of an exchange sorts the table, the other words then land in
another entry, and a callback that has run is in the table once more (`rtc.c:603`).

Deadlock checking is off where the system may stop: `MCStartup*` (the program hands off to the scheduler and the
radio's queue may be full) and `MCCrcLink*` (the bounded number of calls ends). It is on everywhere else.

## 4. Assumptions, bounds and fairness

**Store and provisioning.** One byte is written whole or not at all; a read that reports success returns the bytes
on the media; no torn payload satisfies the CRC (`Torn` is never a `Payload`). These are the assumptions of the code
itself. Bytes that a read silently corrupts are outside them. Sequences go up to 4 in the run, so that exhaustion is
reached by saving; the proofs are for any `UINT32_MAX`. Initially any pair of slot images is on the device. After
a load that failed the dead fields of `s_active` are normalised.

**Startup.** Times are ticks: inhibit 5, retry 5, weekly 7, checkpoint 2, poll 1, burn 2. What matters is
preserved: an interval spans several checkpoints, a checkpoint several polls, the saturated interval differs from
the ordinary one. `Work` = 1 lets each wait take one tick more than was asked, which makes elapsed time exceed the
request, the checkpoint and the remaining time. `STARTUP_ATTEMPT_LIMIT` is 3 for safety (first attempt, a retry,
saturation) and 2 for liveness. The radio holds at most `InboxCap` messages of three kinds. The radio may give
the head of its queue, nothing, or lose the head in a failed transfer. The run starts from every valid durable record.

**CrcLink.** Two transfers of two chunks, three attempts of two reads, two reads calls, two faults: enough for a
retransmission of a retransmission, for answers of one transfer to be found by the next, and for a fault in each
direction. One garbled frame is one `Garbled`; a frame cut by an inserted terminator would be two, which is the same as
two faults. Ring capacity, escapes and the remainder are not part of this module.

**RtcCallbacks.** Two slots, two requests (once, repeating, and one that deletes all entries), one deletion by the
main thread, a day of three seconds (four in the two violation runs) so that midnight is crossed at any point. `qsort` may
return any order of equal keys. It sorts in place by exchanges, word by word, as newlib's does. `Cuts` = 1: a copy or a sort
is interrupted inside once, besides any number of interrupts between steps, which is enough for the failures described in
section 3; `CutWords` = {1}: after one word of an entry, its callback. The proofs are for any number of cuts, at any word.
Inside the exchange of a single word no cut is modelled: nothing is claimed of it, it is `torn`. The searches for a slot or an id,
the loop of `rtc_deleteAllEntries` and each call inside the interrupt are one step. So is `setAlarm`: an interrupt inside it
closes the write protection of the alarm
registers, so the rest of the interrupted call has no effect and the alarm the interrupt set stays. Ids do not wrap.
`id_counter` and the times stay below the small `UINT32_MAX` of the run because each repetition moves its entry
towards midnight, where it stops. The entry that deletes all entries runs once; one that repeats would be inserted again, under
a new id that its caller does not hold (`rtc.c:719`). That two days are shorter than `UINT32_MAX` is an
assumption of the module: an unused slot sorts behind every time of day, and the time of day of a repeating entry plus its interval
does not wrap.

**Logger.** Two names, two tags, two records, at most four rows to a file and two failures. Rows are of 3 and 4 cells
against pages of 4, blocks of 8 and directory entries of up to 4 (the code: rows of 125 and 155 bytes, pages of 256, blocks of
4096), so that within four rows a file leaves its entry, fills pages, ends a row on a block's end and crosses a
block. The block pointers of littlefs are not counted, bad blocks not relocated. Names and records are symmetric; no
liveness is claimed. A failed program or erase may leave the old image or the new one of what was being committed, as
littlefs commits; a cut format may leave the old part, an unreadable one or a fresh one.

**RadioUart.** A ring of four cells and packets of at most four bytes (the code: 128 and the size of the message), so
that the ring is lapped, an overrun falls at every step of the reader, and a packet may be longer than the ring. What a
packet says is left out: `radio_uplink` may go on after any complete packet, or give up on it. The
read times out whenever the ring is empty. A load of a byte is one step, as is the body of the interrupt, which on the
chip cannot be preempted by the reader.

**Fairness.** `Startup`: weak fairness of the program as a whole (one thread that never blocks), and after `Settle`
no reset or fault and eligible power; resets before that are unrestricted. Resets more frequent than a checkpoint starve the
wait by design (`startup.h:80`), which is why liveness is only claimed from there on. `CrcLink`: weak fairness of sender
and reader, which are loops with bounded reads; none of the line or of the callers. `RtcCallbacks`: weak fairness of the
interrupt and of time, strong fairness of an operation of the main thread, because an interrupt suspends it again and
again but always for less than a second's work of the thread. `Logger` and `RadioUart` state no fairness: nothing is claimed to
happen by itself there.

## 5. The proofs

Checked by `tlapm`; all leaves are closed.

**StartupStore_proofs.** For every set of requests, every initial media, every `UINT32_MAX` and any intervals, from
`IntervalAssumption`, `MediaAssumption` and `StoreAssumption`. The properties are not inductive: that OK is durable
depends on which slot is being written and on what the stages already done have established. The inductive invariant
is `IInv`:

- `TypeOK`;
- `SaveInv`: what each value of `pc` says about the target slot (its marker is down from
  `payload` to `commit`, its body is the new payload from `commit` on) and of the call: a record was loaded, its sequence can
  advance, the argument is valid and nothing was returned yet;
- `LoadedSlotIntact`: the slot the load chose decodes with the loaded sequence, and the other, if it decodes, is a copy,
  older, or the next record;
- `AcknowledgedIsDurable`.

The proof that a step preserves it has one step per action. From it follow `TypeCorrect`, `LoadedSlotIsIntact`,
`AcknowledgementIsTrue`, the action properties `AlwaysLoadable` and `SequencesAdvance`, and `Refinement`: initial
states map to initial states and every step to a step of `DurableRecord` or a stutter. The mapping takes `durable` to what a
boot starting now would load, `committed` to the record in the slot of `s_active`, `pending` to the argument of the running
save. Lemmas about the selection are in `StartupMedia_proofs`.

**Provision_proofs.** For every set of images and initial devices. The inductive invariant `ProvInv` is `TypeOK`, `RunInv`
(the accepted image is valid, success means the media is the image) and `StageInv`, which says of each stage which slots
hold the former generation, which hold nothing and which the new one. It gives `ProvisionTypeCorrect`, `NoHalfRecord`,
`NoMixedGenerations` and `ReportedSuccessBoots`. `SlotRulesAgree` proves that the tool's slot rules and the loader's
`store_decode` accept exactly the same slots although the two are written separately, and `AcceptedImageBoots` that
every accepted image is loadable.

**Startup_proofs.** For every interval, limit, slack `Work` and inbox capacity, from `TimingAssumption` and the
actions of `DurableRecord`. One inductive invariant, `IInv`, carries all thirteen theorems: `TypeOK` and

- `IStore`: the durable and the pending record are valid; the thread is saving exactly while a record is pending, and while
  it runs `committed` is what a boot would find;
- `IAhead`: where RAM may differ from the media (counted time, `WAIT_POWER_ON` over `WAITING_FOR_UPLINK`, the way back from
  the ACK timeout);
- `ISaving`, `IPlace`: every pending record is an update of the durable one; from `reserved` to the end of the burn the durable
  record is a full reservation of the attempt;
- `IWait`: what `startup_wait` counted but did not save is less than a checkpoint and the work of one iteration;
- `IOwed`, `IHeard`: the time owed to the wire is never more than what any record says remains; a record past
  a message was written after the message was heard.

`OnImpliesReserved`, for instance, is not inductive: that the record under the burn is a reservation depends on which record was
pending when the save was acknowledged. It gives `BurnSpacing`, `HandshakeIsFinal` and `DurableProgress` for any number of
boots as well.

`StartupImplementsDeployment` needs one thing more, `ISuccessor`: the record being saved is one step of `Deployment` ahead of the
durable one. So whatever an acknowledged, a failed or a cut save leaves, the deployment took that step or none. Each action of
`Startup` is then mapped to a step or a stutter. `HandshakeIsFinal` remains a theorem; the run checks
`ImplementsDeployment` in its place. `StartupUsesStore` closes the composition from below: every behaviour of `Startup` is one of
`DurableRecord`, and the store is in the state each of its calls needs: nothing pending when a load or a save begins, a record
pending as long as the thread is inside a save.

Two theorems bound how long the sequence may stay in one place; they are the part of `KeepsTrying` that needs no fairness.
`StartupWaitAdvances`: every step of a wait, a checkpoint's save included, decreases `WaitLeft`, the time not yet counted
together with the place in the iteration. It rests on `ILeft`, that a wait never sleeps with nothing left: then
`until_checkpoint` is never 0 and no sleep is empty. So a wait that begins with r ms ends within 4(r + 1) steps.
`StartupBurnAdvances`: each step under the ON wire counts the burn on, and it ends at most one tick and one overrun late.

**CrcLink_proofs.** For any number of chunks, attempts, reads, transfers and faults. `ISender` says that a frame is sent
only with an attempt left and `IReader` that what the reader collected is the chunks in their order. While no
answer came late, `IPrompt` says that at most one thing is under way, and that it is the frame the reader waits for or its
answer; then a report of success cannot be for anything else (`IProgress`), and what is collected comes of the transfer under way
(`IWhole`, `LinkReturnedIntact`). `EveryBeliefAnswered` holds late or not. So does `LinkOnlyForward`: every step inside a call
advances its loops in lexicographic order and none goes back, so a call of the sender has at most `Chunks * Attempts * (Tries + 1)`
steps and one of the reader `Chunks`. That is the part of `BothReturn` that does not depend on fairness.

**RtcCallbacks_proofs.** `CallbacksOnceOnly`: for a table of any size and any requests, a one-shot callback runs at most once,
as long as the interrupt does not come in the middle of an entry being copied or exchanged (`~torn`), and wherever else it comes.
A one-shot request has one entry in the table (`IOnce`), one about to be stored has none and has not run (`IStore`), the entry that runs stays the first until it is removed (`IFirst`), and only the entry being
removed has run and is not yet dead (`ISpent`). A sort is a permutation that orders the table, or any permutation when
it was cut; a cut before the copy leaves the entry to be stored. The inductive invariant is `Ind`: `IShape` always, and as long
as `~torn` also `Uncut`, that no entry is partly copied or exchanged, and `IInv`. `IShape` is what this argument needs of
`TypeOK`; `TypeOK` itself, that every value keeps the width of its C type, is `CallbacksTypeCorrect`, on condition of `InRange` (below).

`CallbacksTableIsExact` and `CallbacksCalledRightly` are theorems under two conditions that the statements carry. `InRange`: neither
the ids nor the seconds of 32 bits are used up (an id that wraps to 0 frees a slot in use, and a wrapped time sorts first).
`NoSelfDelete`: no request both repeats and deletes all callbacks, because such an entry goes back into the table after its own deletion.
The run `rtc_callbacks` meets both. `IExact` says what the table holds inside each operation of the main thread and between the steps of
the interrupt: which requests (`IMain`, `IHeld`), the sorted order with the free slots last and the alarm of the first slot (`IAlarm`).
`IWhole` says that until the interrupt first comes in the middle of an operation nothing is cut, so each sort orders the table.
`IRight` adds the clock: an entry is never due before its request's time is up (`IDue`), and a pending interrupt is
taken in the second in which its alarm matched (`IPending`).
`CallbacksArmedForToday`, under the same two conditions and as long as the interrupt never came in the middle of an operation, is the safety half of
`CalledToday`: when neither thread is at work and a request due before midnight waits for its first call, the alarm is on and below
`Day`, a time that comes (`IToday`: the first call of such a request is stored with a time of day, through every sort and every entry
that goes back). A request due after midnight, the case of `rtc_midnight`, is what it leaves out.

**Logger_proofs.** For every set of files, tags and records, every geometry that `LoggerAssumption` admits and any number of
failures. `Inv` relates the handle to the part: one that is neither dirty nor writing is what the part holds, and without
failures the part holds a beginning of it once `createFile` has returned. From it `TypeOK`, `CloseCommits` and `LogsGrow`:
without a failure a log on the part only grows, until a `createFile` replaces it. `LoggerImplementsJournal` takes the logs on the part and all that
the handle holds, flushed or not, for the state of `Journal`. A row, split or whole, extends what was accepted; flushes and reads change
nothing of it; a sync is a commit; and a close that does not sync needs `ErredInv`, that only a failure marks a handle as erred.
The run checks `ImplementsJournal` in place of `LogsGrow`, which remains a theorem.
`RowInv` counts rows on top of it: every log that no failure split, open or on the part, is some k rows of its tag with the
header as row 0, and the handle's `row` is below k with the rows read so far equal to those of the file. It is stated with k as a
witness, so that no quotient or remainder is needed until `RowsAreWhole` and `ReadsInOrder` are drawn from it; the lemma that
appending a row leaves the earlier ones carries the induction.

**RadioUart_proofs.** For a ring of any size greater than one. The indices form a queue (`IsQueue`), which gives the
refinement of `ByteQueue` and `TypeOK`; `IChain` says that
the interrupt's marks on the unread bytes are one run of its escape rules, starting where the reader stands when the two agree,
which gives `BoundariesAgree`. `ReportsAreTrue` has two halves: `IReport`, that `gotFullPacket` left standing is always `stale`
and that a report has an end in the ring, and `IBegins`, that between two reads the reader stands at a packet's beginning unless
`broken`.

**Model-checked only.** Liveness and everything under fairness, out of the prover's reach (`KeepsTrying`, `HelloRepeats`,
`BothReturn`, `CalledToday`); of three of them the part that does not depend on fairness is proved (`StartupWaitAdvances`,
`LinkOnlyForward`, `CallbacksArmedForToday`).

## 6. Where code and documentation disagree

Each of the first four is a run that finds the violation.

- **A queued START does not always win** (`startup_queued_start`). `startup.h:158` and the tests' README say that a
  queued START wins over a due retry. Each of the two polls before ON takes one message, so a START behind two others
  is not seen and the retry burns.
- **A late ACK is taken for another chunk** (`crc_link_late`). `crc.h` says that the result is whether the message was
  received. With no byte lost, a reader that starts after the sender's first wait finds two copies of chunk 0, answers both
  and abandons the transfer; the second answer is taken for chunk 1, which no one has read, and the sender reports success.
  For the same reason a reader may return chunk 0 of one transfer with chunk 1 of the next: what `ReturnedIntact` leaves out.
- **A new callback runs at once** (`rtc_early`). After the last entry was deleted only the NVIC line is off; the alarm
  still matches and stays pending. The next schedule enables the line, and the interrupt runs the new entry
  without looking at its time.
- **A callback due after midnight is never called** (`rtc_midnight`). The time of day is not reduced modulo 24 hours.

Two more came out of `Logger`, where the properties state what does hold:

- **A failed read at boot erases the logs.** `lfs_config.c:149-151` says that the FLASH is formatted if it does not hold a valid
  image; `fs_mount` formats on any error of `lfs_mount`, one of the FLASH driver among them. `Journal` therefore allows
  its `Erase` after any failure, and `LogsGrow` assumes that none occurred.
- **Rows are not uniform after every failure.** `virtual_loggers.c:51-53` says that `writeRow` holds the uniform-row invariant that
  `readRecord` depends on. When the second block of a row cannot be had, its first part stays in the file and every later row is
  shifted: the case `split` that `RowsAreWhole` leaves out.

## 7. What is not modelled

- The byte layout of records and frames, the CRC polynomials and the remainder: a payload or frame is complete or it is not.
  Of the escape encoding, `RadioUart` has what the receiver does with it. Formatting, logging text and console output.
- The radio intercom beyond `radio_uplink`: the other transfers call `crc_read` and `crc_transmit` in a fixed order, and
  the far side of the cable is firmware of another board. `Startup` takes it as a queue, `CrcLink` as the same code.
- The UART driver beyond USART1's receive path: transmission waits for TXE without a timeout (`uart.c:385`), which is a
  question of the hardware alone; the other two rings only enqueue.
- The boot counter of `platform_init.h`: one write and its verification, read by nothing else. A reset between the two counts a
  boot that is then reported as failed.
- The SPI transactions below the FRAM driver's contract and the QSPI commands below the FLASH driver's; sensors, power monitors,
  DMA, PWM and clock setup: register reads, writes and unit conversions without protocol state.
- Sleep and watchdog: timing between one flag and one peripheral, off the modelled paths. A wake-up taken between `mode = LPRUN` and
  the wait for interrupt (`sleep_bare_metal.c:15`) is only seen at the next interrupt.
- ADCS control and mathematics, determination, `spa`, `sgp4`, `novas`: floating point, out of TLC's reach. At this commit
  `vi_control_coil` is a stub that reports failure, so the detumble loop ends at its first coil command.
- FreeRTOS, littlefs and CMSIS: vendored. Of littlefs, `Logger` has what the logger's calls do; not its directories, its relocation of bad
  blocks, nor its allocator. `lsRecord` changes nothing and is left out. Scheduler tasks are stubs at this commit.
- The calendar getters and setters, the oscillator configuration and the wake-up timer of `rtc.c`.

## 8. The plan

Done, in this order because the burn wire is the most consequential behaviour of the system: the store and its
refinement; the Startup sequence over it; provisioning; the CRC link; the RTC callbacks; the logger; the radio's receive
path and its refinement; `Deployment` above Startup and `Journal` above the logger; and proofs for each of them.

What would come next, and what it would add:

1. `RadioIntercom` over the link: what a failed `radio_force_pull` leaves in the ring for the next one, shown to implement the
   outcomes `Startup` assumes of `Pull`.
2. `CrcFrame`: escapes and remainder as recursive functions, round trip against a reference over bounded inputs.
3. The detumble loop once `vi_control_coil` drives the coils; the QUADSPI driver against its interrupt, under the contract
   that `Logger` assumes; the boot counter with the boot prefix that `Provision` writes.
