# A verification project for the Anbo kernel

Anbo is a small C kernel for microcontrollers without an operating system: a
main loop, interrupt handlers, and services they share, with a port to the
STM32L4S5. This directory holds TLA+ specifications of its services, the TLC
configurations that check them on small instances, and proofs for TLAPS that
establish the central results for every instance.

Everything runs on one core. A *context* is the main loop or an interrupt level
(SysTick lowest, then EXTI15_10, USART1 and RTC wakeup, LPTIM1 highest); a higher one preempts a
lower one anywhere, and the lower one goes on when the higher one has returned.
`Anbo_Arch_Critical_Enter/Exit` mask all interrupts with nesting
(`port/stm32l4s5/b_l4s5i_port.c:63-86`). So in all modules **a critical section
is one step, and what lies between two critical sections is not**.

## 1. The system's parts

| Part | State | Operations | Interacts with | What is hard |
|---|---|---|---|---|
| Ring buffer (`anbo_rb.c`) | `buf`, free-running `head`, `tail` | put, get, write, read, peek, skip, reset | UART driver, log | one producer and one consumer share it without a lock; indices wrap |
| Block pool, event queue (`anbo_pool.c`) | free list inside the blocks, pointer queue, a reference count in each event | alloc, free, post, get, retain, release, dispatch | event bus, interrupts | critical sections that end before the decision they prepare is carried out; a count in a byte that a link overlays |
| Intrusive list (`anbo_list.h`) | `next`, `prev` of each node | insert, remove, traverse | timers, bus | traversals that let others change the list |
| Timers (`anbo_timer.c`) | sorted list, deadlines, states, tick | create, start, stop, update, ms to next, compensate | SysTick, idle, callbacks | callbacks run in the middle of the traversal; the tick wraps; sleep |
| Event bus (`anbo_ebus.c`) | hash buckets of subscribers | subscribe, unsubscribe, four publish variants | everything | handlers run in the middle of the traversal; publishes nest |
| State machines (`anbo_fsm.c`) | current state, subscriptions | init, subscribe, unsubscribe all, transfer, dispatch | bus, interrupts | transfers are not atomic, handlers re-enter |
| Watchdog (`anbo_wdt.c`) | slots, check-in times | register, check in, suspend, resume, monitor | main loop, idle, IWDG | feeding must mean that all are alive |
| Log (`anbo_log.c`) | log ring buffer, device, sink, flash writer | format, printf, flush, drain, raw write | ring buffer, device, flash log | bytes accepted in part, producers in several contexts |
| Device, UART (`anbo_dev.h`, `b_l4s5i_uart_drv.c`) | open count, flags, two ring buffers, CR1 | open, close, write, read, interrupt | ring buffer, bus, log | transmit interrupt switched on and off by two contexts |
| Port (`b_l4s5i_port.c`, `b_l4s5i_hw.c`) | interrupt mask, tick, LPTIM, IWDG | critical, tick, idle, feed | all | sleep races with interrupts; time compensation |
| Flash log (`b_l4s5i_log_flash.c`) | flash cells, cursors, sequence number | init, write, read, dump, erase | log | power failure at any programming step; rotation |
| Parameter store (`b_l4s5i_flash_drv.c`, `b_l4s5i_ospi_flash_drv.c`) | flash cells | read latest, read validated, append | application | power failure; which page is newest |
| OSPI flash access (`b_l4s5i_ospi_drv.c`) | the chip's write enable and busy bits | program, erase, wait | parameter store | a chip that works on when the call has failed or the processor restarts |
| IMU, I2C (`b_l4s5i_imu_drv.c`) | scales, FIFO configuration; the chip | init, FIFO and wakeup configuration, power down, FIFO read, INT1 | EXTI, application | the chip samples between any two register accesses; a line that is high gives no edge |
| Start-up code, vendor stubs | hardware | | | not control logic |

The repository has no tests; the promises quoted below are those of its headers,
comments and guides.

## 2. Modules and how they correspond to the code

| Module | What it is |
|---|---|
| `ByteFifo` | abstract: a bounded first-in first-out queue of bytes |
| `RingBuffer` | `anbo_rb.c`, one step per access to shared memory |
| `RingBufferProofs` | proofs about `RingBuffer` |
| `EventPool` | abstract: a block is free, queued or in hands; the queue is first-in first-out |
| `EvtPool` | `anbo_pool.c` |
| `EvtPoolAgain` | `EvtPool` with a subscriber that posts the event it retains once more |
| `EvtPoolProofs` | proofs about `EvtPool` |
| `IntrusiveList` | `anbo_list.h` as operators on pointer maps, used by `Timer` and `EBus` |
| `TimerService` | abstract: timers in unbounded time |
| `Timer` | `anbo_timer.c`, `SysTick_Handler`, the tick compensation of `Anbo_Arch_Idle` |
| `Lemmas` | proofs about `%`, induction over numbers, and traversals of a list, insertion and removal |
| `TimerProofs` | proofs about `Timer` |
| `EBus` | `anbo_ebus.c` |
| `Fsm` | `anbo_fsm.c` on top of `EBus` |
| `BusProofs` | proofs about `EBus`, and about `Fsm` on it |
| `Watchdog` | `anbo_wdt.c` and the hardware watchdog |
| `IdleLoop` | a main loop with `Anbo_Arch_Idle`, the low-power timer and `Watchdog` |
| `Format` | `Anbo_Format` as a function of limit, format and arguments |
| `BytePipe` | abstract: a bounded queue of numbered bytes |
| `LogPipe` | `anbo_log.c`, `anbo_dev.h` and `b_l4s5i_uart_drv.c` |
| `RingLog` | abstract: a log that grows at the end and loses its oldest entries |
| `LogFlash` | `b_l4s5i_log_flash.c` and the flash chip under it |
| `LogFlashProofs` | proofs about `LogFlash` |
| `DurableValue` | abstract: one value, replaced as a whole or not at all |
| `Ospi` | the external flash chip, and the steps in which the driver has it program or erase |
| `Nvm` | `b_l4s5i_flash_drv.c`, and `b_l4s5i_ospi_flash_drv.c` with the same algorithm on `Ospi` |
| `NvmProofs` | proofs about `Nvm` |
| `Imu` | `b_l4s5i_imu_drv.c`, the sensor chip and the INT1 line |
| `PortProofs` | proofs about `IdleLoop`, `Imu`, `Format` and `LogPipe` |
| `MC*` | instances for TLC |

**RingBuffer.** `buf`, `head`, `tail` are the fields of `Anbo_RB`; `ppc`, `pdata`
and `cpc`, `cleft`, `cidx`, `out` are what the producer's and the consumer's call
have still to do. A call opens with one step that reads the fill level
(`Write`, `Read`, ...), then stores or loads a byte and moves an index in separate
steps. A request that is refused changes nothing and is not a step. The store of
the byte comes before the store of `head`, as in the source: `head` is volatile
and `buf` is a `uint8_t *` that may alias it, so the compiler keeps the order.
`sent`, `taken` and `from` are history.

**EvtPool.** `link` and `ref` are the two readings of a block's first bytes: a
free block is a link, and writing the link overwrites the reference count with a
byte of it (`LinkByte`). `pc[c]` and `blk[c]` place a context inside a publisher
(allocated and filling, refused by the queue) or between the two critical
sections of `Anbo_Pool_Release`; `dpc` places the main loop in
`Anbo_Pool_Dispatch`. `MayRun(c)` is preemption. The subscribers are those of
`anbo_pool.h`: they retain in their callback and release once, later, anywhere. Only the
producer of an event posts it; `EvtPoolAgain` adds the subscriber that hands on what it
retains, which the code does not survive (section 4).

**Timer.** Each API call and each piece of `Anbo_Timer_Update` between two
callbacks is one step. While `upc = "callback"` a callback runs and every API call
may happen, made by it or by an interrupt above SysTick; `saved` is the node
that `ANBO_LIST_FOR_EACH_SAFE` has read ahead. `Disciplined` is the condition
under which the promises hold: during an update nobody stops or restarts another
*running* timer. With `Disciplined = FALSE` TLC finds the consequence (section 4).
`TimerService` shows the callback that runs (`calling`): one starts only for an armed timer
whose time has passed and than which no other is earlier, time stands still until the
last one has ended, and that is only when nobody is due. In `Timer` it is the `cur` of an
update that is in a callback.

**EBus.** `stack` holds the nested dispatches, each with its signal, the
subscriber whose handler runs and the node read ahead. Nodes of other signals
are passed over within one critical section. `Disciplined` again states the
condition: a subscriber is removed only when no dispatch has saved its node as the
one to go on with (`SafeToRemove`). The weaker condition documented for the traversal
macro is not enough (section 4). `MaxServed` bounds the history of a dispatch; with
as many as there are subscribers it never stops a disciplined one, which calls
nobody twice without a new subscription.

**Fsm.** The engine has no critical section: its calls run the callbacks of the states,
which call the engine and the bus again, and interrupts dispatch and publish on top.
`calls` holds what each unfinished call has still to do, each with the number of bus
dispatches in progress when it began, so that `calls` and the `stack` of `EBus` together
tell what runs; only the innermost activity goes on. The first `on_entry` runs within
`Anbo_FSM_Init`. `anbo_fsm.h` lets interrupts drive the machine, and nothing in the engine
says when. `Atomic` names what the promises need of them: nothing drives the machine
between the assignment of `current` and the call of `on_entry` (`MayDrive`), and its
subscriptions are not changed there or in the midst of another change of them
(`MaySubscribe`). Everything else is left in: dispatches, publishes and transfers from
`on_event`, `on_entry` and interrupts, inside `on_exit` too, where an interrupt's transfer
completes before the interrupted one goes on. `Disciplined` is that of `EBus`, and
`Anbo_FSM_UnsubscribeAll` is then called only when each of its removals is safe in its
sense. An unlinked node points to itself, so a walk that had saved it never ends, inside
the critical section. Without either condition TLC finds the consequence (section 4).

**Watchdog, IdleLoop.** The processor's steps take no time; `Millisecond` passes
between them, as long as the code may stay at its point (`MaxRun`, `MaxArm`,
`MaxRecovery`), and moves tick, hardware watchdog and low-power timer, those that
run at that moment. `Monitor` is a step per slot, because a check-in may come between two.
`Anbo_Arch_Idle` is modelled point by point: the short sleep in which SysTick goes
on, arming the timer, the interrupt mask, the suspended tick, the wakeup by the timer or by
another interrupt, the recovery of the clocks, the compensation. A main loop sleeps
or does not (`loop.idles`) and hangs or does not (`loop.hangs`). A failed recovery of
the clocks stays where it is until the hardware watchdog ends it. Tick interrupts
between reading the timer's start (`port.c:212`) and suspending SysTick (`:215`) are
counted twice, at most `MaxArm` for each sleep; `slack` counts the sleeps.

**Format, LogPipe.** `Format` is evaluated on the printed lines and compared with what
their items mean (`LineFormatted`): digits, widths, zero padding (which precedes a minus
sign), the limit, the most negative integer, `%%` and unknown conversions. A width has the
digits 1 to 9 only; an item has a width of at most one digit. In `LogPipe` a byte is its
number, so that each queue shows what was lost, repeated or overtaken. The main loop's
call, the USART interrupt and the transmitter are three actors; the transmitter holds up
to `Fifo` bytes and the receiver as many, since the port switches the FIFO mode of the
USART on (`b_l4s5i_hw.c:298`), and a drain returns while some of them are still there. The
read-modify-write of CR1 is two steps of the main loop between which the interrupt may
come. The race is benign: an interrupt switched on again with nothing to send switches
itself off (`FallsSilent`). `Careful` names what the code leaves to the application:
without a log device, flush only when the driver's queue has room for a chunk (`log.c:396`
skips a chunk of which only a part was taken; characters written directly overtake that
queue), and close the device only when it is empty. `Anbo_Log_Flush` is not re-entrant and
is called by the main loop only. Without a device an open driver's queue is not waited for
by `Anbo_Log_DrainAll`, and `DrainedMeansSent` leaves this case out.

**LogFlash.** `cells` is the flash: each slot is erased, holds an entry, known by
its sequence number, or is *corrupt*, which stands for whatever is not erased and
fails its CRC. `cur`, `head` and `seq` are the static variables, which a power
failure loses. A write is the choice of the slot (`BeginWrite`, or `BeginRotate`
and `RotateDone` when the next page has to be erased), the first programming
operation, which makes the slot corrupt, and the last, which completes it; power
may fail before, between and after them, and the chip may refuse any of them.
`BSP_LogFlash_Erase` goes page by page. An interrupted erase leaves the page as it
was, erased, or unreadable, which is what the comments of `find_cursors` take for
granted. The chip refuses to program what is not erased, as the internal flash
does; the external one would corrupt the entry silently, and `NeverReprogram` says
that neither happens. `Boot` is `find_cursors`. Reading changes nothing but the
caller's context, so `Dump` is a function of the state. `DumpExact` is about logs that do not go
on from the last page in page 0 and have no slot torn behind a full page, the two that a dump does
not survive (section 4).

The driver does not survive everything, and `Careful` names what the promises
need: writing stops after a failed call until a restart (the failed slot is
neither marked nor skipped, so every later write is refused); power does not fail
so that page 0 is torn while no page is readable (the first write of a log: the
next boot takes it for empty and starts on the torn slot); power does not cut an
erasure of the whole log short in the middle of the ring (the head may stay on an
erased page and is then overtaken, although the comment at `log_flash.c:396` speaks
of the "next non-empty page"); an interrupted erase leaves a page uniform
(`page_is_empty` looks at its first slot only). Leaving any of the four out
of `Careful` makes TLC find the consequence.

**Nvm.** `cells` as in `LogFlash`, but of any record; the drivers keep nothing in RAM
between calls, so `target` and `storing` are the locals of the one call in
progress. On the processor's flash each operation is a step that may be refused or
cut short by power. On the external chip it is write enable, command and wait
(`Ospi`), and the chip finishes its job although the bus fails or the processor
restarts. An interrupted erase may leave any slots erased and the others corrupt. It
leaves no record of the page intact: with old records next to erased slots
`LatestIsLast` fails. `Patient` says that the application leaves the chip
its time after a failed call or a restart. `OSPI_Init` fails on a chip that is still at work.
The number of pages and the kind of chip are variables that never change, so that
one run covers several builds.
`MayWrap = FALSE` stops the writer where `nvm_wrap` finds the code wrong: at the
end of the last of several pages. A single page is rewritten without end.

**Imu.** Each register access is one step that may fail, a write before or after it has
reached the chip. The chip takes sets between any two accesses, drops its oldest set when
the FIFO is full, raises INT1 at the watermark and goes on when the processor restarts. A
word of the FIFO carries its set, its place and the range it was taken with. `Init`,
`FIFO_Config`, `ConfigWakeup` and `PowerDown` are the sequences of their writes, in order;
a chip with another identity, or that does not finish its reset, ends `Init` as a failing
access does. A watermark is capped as `BSP_IMU_FIFO_Config` caps it, at a value that the
eleven bits of the registers do not hold, and the registers take the bits they have.
Assumed: both sensors have one rate, as the driver configures them; the application reads
until nothing is left on each edge, and once after `BSP_IMU_INT1_Init` (`Prompt`); a
failed burst has taken all of its words from the FIFO or none (`Torn`); a full FIFO whose
size is no multiple of a set, as 4096 words are none of six, loses its oldest set and not
single words (`WholeSets`: the driver does not look at the pattern register, which would
tell); and a burst is one step, in the midst of which no set overruns a full FIFO.

## 3. Runs

| Run | Instance | What it shows |
|---|---|---|
| `ringbuffer` | 2 slots, indices mod 4, requests to 3 bytes, 6 bytes sent, 2 byte values | all interleavings of both sides: contents, copies, grants; implements `ByteFifo` |
| `evtpool` | 2 blocks, queue of 1 event, main loop and two interrupt levels, 2 subscribers | ownership, free list, counts; implements `EventPool`; with fairness every block comes back |
| `timer` | 3 timers, ticks mod 9, periods 1 and 2, sleeps of up to 1 tick | list, order, sleep, termination of the update; implements `TimerService`: who fires, when and in which order |
| `ebus` | 3 subscribers, 3 signals in 2 buckets, 3 nested dispatches | who is called, in which order, nobody missed and nobody else |
| `fsm` | 2 states, 2 nodes of the machine and 1 other, 2 signals in one bucket or two, 2 nested dispatches, 2 calls | the current state is the one entered last; the machine is called for its subscriptions only; its node count is right |
| `wdt` | 2 slots, timeout 2, hardware period 4, sleeps asked for 0, 1, 3 and 6 with a cap of 3, ticks mod 22 | healthy systems run, silent tasks reset a loop that does not sleep, refusals are just, sleeps are counted |
| `wdt_idle` | 1 slot, a loop that sleeps, with fairness | **violation**: a silent task never resets the system |
| `logpipe` | log of 4 bytes, driver of 2 and 1, hardware FIFOs of 2, chunks of 2, lines to 6 characters, integers of 6 bits, 4 inputs | formatting; implements `BytePipe`; drains send everything; everything falls silent |
| `logflash` | 3 pages of 2 slots, sequence numbers mod 16 | recovery, rotation, reading; implements `RingLog` |
| `nvm` | 1 or 2 pages of 3 slots, 2 record values, either flash, no wrap of several pages | recovery; implements `DurableValue` |
| `nvm_wrap` | 1 or 2 pages of 2 slots, with the wrap | **violation**: a stale record is read |
| `imu` | sets of 2 words, FIFO of 7 words, word counts mod 8, watermark registers of 3 bits, watermarks of 2 and 5 sets or none | sets are whole and scaled right; a high line is answered |

Every property of a passing run is also known to fail when a definition of the model is
replaced by a faulty form of it; these forms stand beside the definitions, marked *Faulty*.

Seven more configurations reproduce what the conditions named in section 2 keep out of the
passing runs. TLC finds each of their properties violated:

| Configuration | Module | Properties |
|---|---|---|
| `MCEvtPoolAgain.cfg` | `MCEvtPool` | `RetainedSurvives` |
| `MCTimerStop.cfg` | `MCTimer` | `OnlyRunningFire` |
| `MCEBusRemoved.cfg` | `MCEBus` | `RemovedNotCalled` |
| `MCFsmInterrupted.cfg` | `MCFsm` | `EnteredIsCurrent`, `NodesCounted`, `OldStateWasLeft` (each by itself, or with `-continue`) |
| `MCFsmUnsubscribe.cfg` | `MCFsm` | `WalksEnd` |
| `MCLogFlashDump.cfg` | `MCLogFlash` | `WholeLogDumped`, `TornLogDumped` (likewise) |
| `MCImuFull.cfg` | `MCImu` | `EdgeAnswered` |

**Why the bounds are enough.** *Ring buffer:* `Modulus = 4` and 6 bytes mean the slots
wrap three times and the indices once within one run, and a request of 3 exceeds the
capacity of 2. *Pool:* with two blocks and room for one event the pool runs empty and
posts are refused; two interrupt levels let one interrupted release be interrupted again.
*Timers:* three timers are a current, a saved and a third node, the fewest for which the
saved node can be neither the first nor the last; with `Wrap = 9` every deadline
comparison crosses the wrap. *Bus:* a third nested dispatch adds the case where the
innermost one invalidates two outer ones; three signals over two buckets give a collision.
*State machine:* two nodes in one bucket let the machine's own dispatch meet its second
node after the first; one foreign subscriber makes other handlers run before, between and
after them; two calls are a transfer inside a callback, and those the bus makes come on
top. *Watchdog:* two slots are one the scan has passed and one it has not; the requests
lie below, at and above the short sleep and above the cap, and `Wrap` is close to the
least the assumptions allow. Ticks and stamps enter only by their differences, so states
that differ by a shift of all of them are one (`Shifted`). *Log:* a line is longer than
the log, the log longer than a chunk, and a chunk as long as the driver's queue, so that
each of them cuts; four inputs are a line, an interrupt's line and a change of the device
between them, with one to spare. *Flash log:* three pages are an oldest, a newest and one
between them, with two pages the erased page is always next to both; the second slot of a
page is the one that can be torn behind a good one. With sequence numbers mod 16 the
number wraps every two to three turns of the ring, and the state space is closed: no bound
stops the log from growing on. *Parameter store:* three slots let an erased one lie
between two that are not; two record values tell a stale record from a new one. *IMU:* a
set of two words is the least that can be cut; the FIFO holds three sets and half a one,
as that of the chip holds 682 and two thirds, so it overflows and does so off the sets'
grid. It is larger than the smaller watermark, so that sets come while one is read; the
larger one is ten words, of which the registers keep the bits that mean two. The level of
seven words is below the eight values of its count; where it is not, `MCImuFull.cfg` shows
the consequence. `nvm` does not check for deadlock because the writer stops when the pages
are full, `logpipe` because its inputs end. The proofs of section 5 remove the bounds from
all safety properties.

**Fairness.** `evtpool`: a context inside a call finishes it
(strong fairness: it can be interrupted again and again, but interrupts are finite
and leave the processor), the main loop keeps polling the queue, and a subscriber
that retained an event releases it, which `anbo_pool.h` demands. Nothing is
assumed of interrupts, which may never come. `logpipe`: the main loop goes on with
what it has begun, a pending interrupt is taken, the transmitter shifts its byte out.
`imu`: a call goes on, an access is answered, a pending edge is taken; it promises
something only while the bus is sound. `wdt_idle`: time passes and the code goes on.

## 4. Disagreements between code and documentation

Two are shown by runs of their own:

1. `b_l4s5i_flash_drv.c:104` takes the last page in use, in address order, for the
   newest. With two or more pages, after the rotation back to page 0 every read
   returns the last record of the last page, and every write erases page 0 once
   more (`nvm_wrap`; `b_l4s5i_flash_drv.h:56`, `PORTING_GUIDE.md:565`). No fault of the
   chip or of power is needed.
2. `b_l4s5i_port.c:228` feeds the hardware watchdog around every sleep without
   asking the slots, so a task that falls silent in a loop that sleeps never leads
   to a reset (`wdt_idle`; `anbo_wdt.h:35`, `PORTING_GUIDE.md:109` and `:535`).

The others are kept out of the passing runs by the conditions named. For 3 to 7 and the
level of 9 the configurations of section 3 find them; for the rest leaving the condition out does.

3. `anbo_pool.c:287` stores `ref_count = 1` whatever the count was. An event that a
   subscriber holds and posts again is freed under the subscriber (`anbo_pool.h:194`
   promises that it survives; `RetainedSurvives`).
4. `anbo_timer.c:179` reads the next node before a callback that may stop it; the
   stopped timer fires if it is due (`anbo_timer.h:126`; `OnlyRunningFire`).
5. `anbo_ebus.c:119` does the same with subscribers: the handler of one that is
   unsubscribed meanwhile is called after `Anbo_EBus_Unsubscribe` has returned
   (`RemovedNotCalled`), and from its node, which points to itself, the walk never comes to the
   end of the bucket (`WalksEnd`). With nested publishes the removal of a dispatch's *own* current
   node, which `anbo_list.h:164` allows, is enough to derail an outer
   dispatch. `Anbo_FSM_UnsubscribeAll` in a callback of the machine does it if two of
   the machine's signals share a bucket, although `anbo_fsm.h:34` speaks of "zero blocking".
6. The state machine engine has no critical section, and `anbo_fsm.h:178` offers
   `Anbo_FSM_Dispatch` for interrupts. One that drives the machine between the assignment
   of `current` and `on_entry` (`anbo_fsm.c:147`) leaves it in one state while it enters
   another (`EnteredIsCurrent`); one that transfers during `on_exit` has its new state
   replaced without leaving it (`OldStateWasLeft`; `anbo_fsm.h:33`); one that changes the
   subscriptions in the midst of another change leaves a node on the bus that is not
   counted, or counts one that is not there (`NodesCounted`; `anbo_fsm.c:106`).
7. `b_l4s5i_log_flash.c:477` takes the context 0 for "start from head", but 0 is also the
   position of page 0, slot 0, where a wrapped log goes on behind the last page. The dump
   then repeats the older entries and never reaches the newest (`b_l4s5i_log_flash.h:115`;
   `WholeLogDumped`). A slot that a power failure has torn in the page behind a full one
   is neither erased nor the cursor (`:520`), so the dump goes on around the ring and
   repeats the oldest entries (`b_l4s5i_log_flash.h:41`; `TornLogDumped`).
8. A call of the external parameter store while its chip is still at work
   reads every slot as erased and reports success for a record nobody can read (`Patient` in `Nvm`).
9. `b_l4s5i_imu_drv.c:400` takes 11 bits of the FIFO level, while `b_l4s5i_imu_drv.h:195`
   has it go up to 4096 words: a FIFO with 2048 words, or a few more, reads as empty, INT1
   stays high and no further edge comes (`EdgeAnswered` in `MCImuFull.cfg`). The watermark
   is capped at 4095 words (`:269`), and of one above 2047 the registers lose the highest
   bit. `BSP_IMU_INT1_Init` after `BSP_IMU_Init`, the order the header asks for, misses an
   edge that came between them (`Prompt` in `Imu`); a burst that fails in the middle
   shifts the words of all later sets (`Torn`), and so does an overflow of single words
   (`WholeSets`). `ConfigWakeup` changes the range without the scale of
   `BSP_IMU_ReadAccel`, and it and `PowerDown` ignore failed writes.
10. "NULL (buffer only, no output)" for the log device, although the flush then
   writes to the UART driver directly.

## 5. Proofs

All theorems hold under the `ASSUME`s of the component's module, which TLC also evaluates
in each run, and under the conditions named with each part, which its theorems assume.

**Ring buffer** (`RingBufferProofs`): for every capacity, every index width that is
a proper multiple of it, every request length. `TypeCorrect`, `ContentsAreIntact`,
`CopiesAreInOrder`, `GrantsAreKept`, and `RefinesFifo`, that it implements `ByteFifo`.
The invariant (`IInv`) relates the wrapping indices to the unbounded positions of
history: `head = Len(sent) % Modulus`, `tail = taken % Modulus`, and at most `Size`
bytes lie between. From there the slot that holds byte `k` of the stream is
`k % Size`, and two stored bytes never share one (`SlotsDistinct`). The property
alone is not inductive: nothing in it says that the slot a producer is about to
fill is outside what a reader was granted; `ProducerInv` and `ConsumerInv` do.

**Event pool** (`EvtPoolProofs`): for every number of blocks, subscribers, interrupt
levels and every queue depth. `TypeCorrect`, `BlocksHaveOnePlace`, `FreeListStaysIntact`,
`RefCountsAreExact` and `RefinesEventPool`, for events that are posted once. The invariant
says of each possible owner of a block (a call, the dispatcher, a subscriber, the queue)
that the block is in none of the other places; `OnePlace` alone does not exclude two
contexts that hold the same block in the middle of two calls.

**Event bus** (`BusProofs`, `Lemmas`): for any set of subscribers and signals, any number
of buckets and any depth of nested dispatches. Without any assumption on who unsubscribes
whom: `SubscriptionsAreSound`, and `OnlyTheSubscribed`, that a dispatch calls only
subscribers of its signal, but for the one node it had saved when that was unsubscribed.
The node then points to itself, and the signal it is kept with is still the old one
(`CalledFacts`). Under `Disciplined`: `ServiceFollowsTheLists` and `NobodyIsMissed`. That
the pointers agree says nothing of which list a node is in, and `Following` is defined by
recursion over the number of nodes. The invariant therefore gives the subscribers
positions that ascend along each list and end at its head. A new subscriber gets a
position behind the last one, and nobody's changes while it stays, so the order in which a
dispatch has called its subscribers outlives every change. Of each dispatch in progress,
however deep, `Walk` says that its saved node is still in the bucket, behind everyone
called and not behind anyone still to be called. `SafeToRemove` is what keeps it there
when somebody unsubscribes. `Lemmas` turns the positions into facts about `Following`:
such a list has no cycle that misses the head, so a traversal ends, and it meets everyone
from its start on (`Traversal`). Induction over numbers is taken from their least members,
which the library's theorem on well-founded relations gives.

**State machine** (`BusProofs`): for any states, nodes, signals, buckets and depth of
nesting and any bound on the calls in progress, under `Disciplined` and `Atomic`.
`MachineUsesTheBus` is the step from the bus to the machine on it: no call of the engine
does anything that the bus does not allow a disciplined application, so the bus's
invariant and its four theorems hold of `FsmSpec`. On that rest `NodesAreCounted`,
`OnlyTheLiveState` and `EnteredStateIsCurrent`. None of the three is inductive: callbacks
begin dispatches, which come back to the machine and begin calls again, transfers inside
`on_exit` among them. The invariant `FInv` describes the calls in progress by the depth of
dispatch at which each has begun: the levels ascend (`Levels`); one call at most changes
the subscriptions, and above a transfer that has assigned `current` and not called
`on_entry` nothing runs but `UnsubscribeAll` (`Alone`), nor has a dispatch begun there
that carries a signal the machine is subscribed to (`Quiet`); the state of such a transfer
is the current one, and without one the current state is that entered last (`Marked`); and
from the change of the subscriptions in progress one can tell which nodes are on the bus
(`Counted`).

**Timers** (`TimerProofs`, `Lemmas`): for any number of timers and every wrap, longest
period and longest sleep with `2 * (MaxPeriod + 2 * MaxSleep) < Wrap`, under
`Disciplined`: `ListIsSound`, `SleepEndsInTime`, `UpdateLeavesNoneDue`,
`UpdateComesToAnEnd` and `WrappingTimeIsTime`, that it implements `TimerService`: a
callback starts only for a running timer whose time has passed, the earliest first, and
the update ends when nobody is due. Nothing in `ActiveListSound` bounds how late a timer
can be, and without such a bound the signed difference of two deadlines need not be the
difference of the times their timers have left (`Diff`, `DiffOfDeadlines`). The invariant
has one for each point of the loop (`Clocks`, `Floor`): between two updates a timer is
late by less than a sleep, since the idle loop does not sleep when one is due
(`IdleStep`), and by less than two on waking from a deep sleep. From there on
`timer_insert_sorted` keeps the order (`InsertSortedOK`), and so does the loop of
`Anbo_Timer_CompensateAll` that inserts every timer again (`GoodAll`). During a callback
the saved node is the first of the list as long as any timer is due (`WalkOK`), so an
update that stops at the first timer not due has passed nobody by.

**Watchdog** (`PortProofs`): for every number of slots and every timeout, period, cap and
tick width that the assumptions of `Watchdog` and `IdleLoop` admit, and for loops that
sleep and loops that do not. The assumptions on the times are those the port's
configuration meets: a sleep, a run and a recovery are shorter than the hardware period,
and timeouts are far below half the tick range. Neither property says anything of the
points between two feeds, so each needs a bound at every point of the program.

- `HealthySystemsRun` and `SleepTimeIsKept` rest on three invariants: the low-power timer
  has counted exactly what the tick lacks since SysTick was suspended (`TimerInv`,
  `GainInv`), and at each point the down-counter holds at least what the code may still
  spend before the next feed (`DogInv`).
- `SilentTasksReset`: a slot's stamp lags behind the tick by the age of its
  check-in, so the scan finds a late slot; the slots the scan has passed were
  young when the tick was read, so an old one can be fed at most once more.
- `RefusalsAreJust`: the stamp may lag by more than the age, by at most `MaxArm`
  for each sleep since, and a slot checked in during the scan is not late against the
  older tick, because its stamp is then ahead of it (`ScanInv`, `PassedInv`, `AgeInv`).

**Parameter store** (`NvmProofs`): for any number of pages and slots and any set of
records, with and without the external chip. `ReadsLast`: while no write is in progress,
an intact record that `BSP_Flash_ReadLatest` returns is the last one accepted, never an
older one. After a write cut short it may return the rest of a record, which its caller
tells by the checksum. In a store of several pages it returns, intact, the record of a
call that has returned true until the next call, and some record ever after the first;
this rests on `StoreGrows`, that the places are used one after the other and none is
erased. `KeepsOneValue`: the store implements `DurableValue`, which is about
`BSP_Flash_ReadValidated`. They assume `Patient` and `~MayWrap`: without the first a call
may find the chip still at work (8 in section 4), so of several pages they tell what
happens until the last one is full; without the second a store of several pages goes on
behind its last one (1). Nothing in `LatestIsLast` says where records are, so after a
write cut short an older one might come back. The invariant (`IInv`) says that records lie
in the order in which they were written: nothing is erased before a record
(`RecordsInOrder`) nor in a page before one in use (`PagesInOrder`), and the newest is the
last (`Newest`). The place a call works on lies behind all records (`Beyond`), and each
step of a call finds its slot in the state the step before has left (`Pending`, `Done`),
whether or not the chip has obeyed. From this order `ReadLatest` finds the newest record.

**Flash log store** (`LogFlashProofs`): for any number of pages and slots and any modulus
of the sequence numbers with `2 * (Pages * Slots + 1) < SeqMod`, for power failures of the
kinds that `Careful` lists (`Survivable`): `ErasedWhenProgrammed`, `RingStaysInOrder`,
`LogIsARing`, that it implements `RingLog`, and `DumpIsExact`. No property says why
`find_cursors` finds the ends of the log by comparing numbers that wrap. The invariant
(`IInv`) does: of two entries the one farther from the head is newer, and by a number that
is not larger than the distance of their slots (`Ordered`), since an entry takes one
number and one slot, and a torn slot no number. So two entries on the chip are never
farther apart than there are slots, and `seq_after` is right about them (`LagAfter`); the
distance outlives rotations, restarts and partial erasures because it is one of pairs. A
page is filled from its first slot on (`Filled`), for which the binary search is proved to
find the first erased slot (`FirstEmptyFacts`; the search is a recursive function that is
compared with an explicit one); a page with entries has one in its first slot (`Begun`),
so a recovery that looks at first slots only misses none; and between the head and the
cursor no page is erased (`Solid`), so a write never moves on to the head page without
erasing it. The abstract log is what `EntriesOf` collects on a walk around the ring from
the oldest page. It is the same from every page that no entry lies before (`LogFrom`), so
a step is seen from the page that was the head before it: an entry beyond all others is
appended (`LogGrows`), and erasing a page takes one block of entries out, the first one if
the page is the head (`LogLoses`). A read finds the first entry from its position on
(`ReadsFirst`), so what one read and those after it return is the part of the same walk
from there on (`ReadsRest`). In a log that has not wrapped no entry but that of the head
may have the position zero, which `BSP_LogFlash_Read` takes for the start
(`ContextsMean`).

**Log** (`PortProofs`): for all sizes of the log, the driver's buffers, the chunk and the
lines, and any bound on the inputs: `LogIsTyped`, `LogIsAPipe`, that it implements
`BytePipe`, and `DrainingSends`. They assume `Careful`, that the application does not
close the device before everything is sent nor flush more than there is room for without a
log device. `ImplementsPipe` says nothing of the chunk in hand: the bytes copied into the
driver's buffer are still in the log until `Anbo_Log_Flush` skips them. The invariant
(`LogInv`) says that the chunk stays the beginning of the log though others print
meanwhile (`ChunkInv`), that the driver has room for all it has promised to take while its
interrupt only makes more, and that bytes go to the hardware's FIFO by hand only while the
driver's buffer is empty (`ProgressInv`). From the bytes on their way as one sequence
(`Way`) each step then takes none, copies one to its place (`WayCopied`, `WayByHand`),
appends what is printed (`WayGrows`) or lets the first one go (`WayLeft`). What a drain
owes is among the bytes on their way, and once the log was empty, in the device
(`DrainInv`).

**Formatter** (`PortProofs`): for every width of integers, size of the line buffer and
line of items: `LinesAreFormatted`, from which the proofs about the log take that a line
keeps within its buffer (`LinesFit`). The format string, what it means and its arguments
are cut into the same items (`Laid`, `IsLayout`); each turn of the loop then takes a
character of a text (`TextTurn`) or a whole conversion (`ConversionTurn`), and what has
been put is what the items so far mean, cut at the limit (`Turned`). Under it lie that the
digits found from the last to the first are the places of the number (`NumeralIsPlaces`),
for the most negative integer too, and that a zero and a width are read as they are
written (`FlagsAreRead`).

**Sensor** (`PortProofs`): for every depth of the FIFO, the 4096 words of the chip among
them, every size of a set, number of values of the level and the registers, set of
set-ups, ranges and sizes of a request: `ReadingsAreTrue`. So an overflow, a level that
the driver cannot count and a watermark that the registers do not hold may make a read
return too little, but never a set that is not one. It assumes `WholeBursts`, that a
failed burst has taken nothing from the FIFO or a whole set, and `WholeLoss`, that a full
FIFO loses whole sets, or holds a whole number of them: the driver never looks at the FIFO
pattern register, and after anything else every later set is made of the words of two.
What `ReadingsTrue` says of a set handed over depends on what the FIFO held when it was
read. The invariant (`ImuInv`) says that the FIFO holds whole sets (`FifoInv`), each word
measured with the range the driver converts with (`TuneInv`), also in the middle of
`BSP_IMU_Init`: from the reset of the chip until the second sensor is started nothing is
measured (`Blank`), so the ranges the driver has kept and those the chip measures with are
never seen to differ (`InitGoesOn`).

**Only model-checked:** liveness (`EveryBlockReturns`, `EdgeAnswered`, `FallsSilent`),
which rests on fairness and `ENABLED`.

## 6. Not modelled, and what comes next

- Soft-timer mode (`Anbo_Timer_Update` from the main loop), periods of zero (two periodic
  timers of period zero keep the update going for ever) and periods of more than half the
  tick range are outside `Timer`; timeouts that long are outside `Watchdog`.
- Retains beyond what the count's byte holds, and a second release of one reference, are
  outside `EvtPool`.
- The names of states and a machine without an initial state are outside `Fsm`, and it has
  one machine.
- The flash sink with its writer and the filter by level, `Anbo_Dev_Ioctl`,
  `ISR_Post` and the completion callbacks, which have no caller in the port, are
  outside `LogPipe`.
- Failing reads of the external flash are outside `Nvm`: the driver takes a slot it cannot
  read for an erased one (`b_l4s5i_ospi_flash_drv.c:66`).
- The temperature reading, and a sample that overruns a full FIFO in the midst of a burst,
  are outside `Imu`.
- The fault handler, the RTC wakeup, the reset reason and the initialisation of
  clocks, pins and UART change nothing the modelled parts depend on. Start-up code and
  library stubs are vendor code.

`PROJECT.json` lists every part and every hazard with the property that covers it or
the reason why none does.
