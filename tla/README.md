# libhy_mcu: specification and proofs

TLA+ models of the parts of libhy_mcu that have logic of their own: the timer,
UART and system-tick services for the AT32F4xx, the Ethernet port that connects
lwIP to its MAC, lwIP's timers as the port builds them, and the HC32L13x drivers
whose registers take more than one write: flash, clocks and real-time clock.
TLC checks them on small instances. TLAPS proves every safety property of the
runs for every instance, and that the Ethernet receiver implements an abstract
queue and lwIP's wrapping timer list an abstract list of timers.

    tlc -config MCHyTime.cfg MCHyTime      # and likewise for every run below
    tlapm EthProofs.tla                    # and HyTimeProofs, HyUartProofs,
                                           # HyUartTxProofs, HySystemProofs,
                                           # SysTimeoutsProofs, HcProofs, HcRtcProofs

Paths below are relative to `src/at32f4xx/` of the repository unless they say
otherwise.

## The system

libhy_mcu is a library for one microcontroller. A client's main program calls
the services; interrupt handlers run the callbacks it gave them. There is one
CPU, no operating system (`NO_SYS 1` in lwIP's options), and all handlers have
the same preemption priority (`hy_time.c:82`, `hy_uart.c:140`, and
`hy_system.c:116` sets the tick's to 1, sub-priority bits only, under priority
group 2). So: a handler is never interrupted by another one; the main program is
interrupted between any two accesses to memory or a register; and it executes
nothing while an enabled interrupt is pending. The DMA and the peripherals run
beside both.

| Part | State | Operations | Who else touches it |
|---|---|---|---|
| Timer service, `hy_time.c` | `context_array`, heap blocks, TMR2, its NVIC line | HyTimeCreate / Destroy / Enable / Disable, TMR2_GLOBAL_IRQHandler | the counter raises the overflow flag; `time_cb` |
| UART service, `hy_uart.c` | `context_array`, heap blocks, one USART, its NVIC line | HyUartCreate / Destroy, the handlers, HyUartSendByte / SendBuf, `_write` | bytes arriving; the transmitter; `read_cb`, and any callback that sends |
| System tick and delays, `hy_system.c` | the static `context`, SysTick | HySystemCreate / Destroy, SysTick_Handler, HySystemDelayUs / Ms / S | the counter; callbacks that delay |
| Ethernet port, `lwip-2.1.2/port/ethernetif.c` | the two descriptor rings, DMARxDescToGet, DMATxDescToSet, pbufs | low_level_output, low_level_input, ethernetif_input | the Ethernet DMA; the stack, which keeps and frees pbufs |
| AT32 peripheral drivers | registers | one function per register field | |
| lwIP's timers, `lwip-2.1.2/src/core/timeouts.c` | `next_timeout`, `tcpip_tcp_timer_active`, the pool of entries | sys_timeout, sys_untimeout, sys_check_timeouts, tcp_timer_needed, sys_restart_timeouts | handlers, which set and remove timers from inside sys_check_timeouts; the clock |
| HC32 flash, `src/hc32l13x/driver/src/flash.c` | CR.OP, the locks, CR.BUSY | write a byte, half-word, word; erase a sector, the chip | the flash itself; interrupts that write the same protected registers |
| HC32 clocks, `.../sysctrl.c` | the sources, CLKSW, dividers, PLL, gates, SystemCoreClock | enable, switch, ClkInit, ClkDeInit, gates, trim, PLL | crystals that start late or never; interrupts that unlock, write or move a gate |
| HC32 RTC, `.../rtc.c` | the calendar, CR1.WAIT and WAITF | read and set the time, StartWait, Init, Cmd | the running calendar; an interrupt that reads the time |
| rest of lwIP, `lwip-2.1.2/src` and `port/sys_arch.c` | heap, pools, pbufs, protocols | vendored upstream code | |
| other HC32 drivers | registers | one function per field | |

What is hard in it:

* **Interleaving.** Each service publishes its context before filling it in,
  and each handler looks the context up again. The DMA and the port hand
  buffers to each other through one bit.
* **Teardown.** None of the Destroy functions turns its peripheral off.
* **Sharing.** Delays and the tick share one counter; callbacks and the main
  program share one transmitter. Nothing locks either.
* **Limits.** Full rings, an empty pbuf pool, an empty pool of timers, a 24-bit
  reload register, a 16-bit index, a 32-bit clock that wraps, polls that give up.
* **One write per unlock.** The HC32's protected registers take one write after
  each unlock, and an interrupt's own write can be that one.

What makes each part correct, and is checked: the handler reads only
initialised, allocated contexts; callbacks happen when they should and only
then; calls return; bytes and frames are neither lost, repeated nor reordered
except where the code's own rule says so; the ring's two owners never hold the
same buffer. `PROJECT.json` lists every hazard at its line, with the properties
that cover it.

## Modules

Every model has one action per statement that the other side can observe.
"Mutant" definitions are plausible bugs that stand next to the definition they
replace; nothing uses them.

### HyTime, MCHyTime, HyTimeProofs

`HyTime` is `hy_time.c` with the few register bits of TMR2 it uses. HyTimeCreate
is CreateAlloc, CreatePublish (the context is in the table), CreateMemcpy
(`config_save` is filled in), CreateBase (which, through TMR_TimeBaseInit,
forces an update event and so raises the flag), CreateCmd, CreateNvic, CreateInt.
The handler is IsrEnter, IsrCallback and IsrReturn; `Overflow` is the counter.
`heap` says whether a block is free, allocated but not filled in ("raw"), or
live. Only HY_TIME_2 has a clock and an interrupt in the code, so only it has in
the model; the registers of the others ignore writes. `misused` records that the
caller destroyed the handle of TMR2 while it ran, or created a timer that already
had a context: the code relies on callers not doing so.

Abstractions. The read-modify-writes of TMR_Cmd are single steps, because no
handler changes the same register bit between their two accesses. A failed
malloc returns NULL and changes nothing, so it is no action. A callback may call
HyTimeEnable or HyTimeDisable on its own timer (IsrCallback), and nothing else of
the API.

### HyUart, MCHyUart, HyUartProofs

Creating, destroying and receiving, for one UART. The handler reads the status
(IsrEnter) and then the data register (IsrRead); a byte may arrive in between.
The overrun flag shares the interrupt line and is cleared by a read of the data
register only if a read of the status saw it before (`seen`). `lost` and
`received` are histories.

### HyUartTx, MCHyUartTx, HyUartTxProofs

HyUartSendBuf with a caller that sends again from the count returned, `_write`,
and callbacks that call HyUartSendByte on the same UART. The transmitter has a
data and a shift register and TRAC, which is set out of reset and is cleared by a
write that follows a read of the status (`armed`). The poll limit 0x1CE2 is
`CountMax`, the range of the `uint16_t` index is `IMod`.

### HySystem, MCHySystem, HySystemProofs

Tick and delays on the counter's own cycles. SysTick_Config is ConfigLoad,
ConfigVal and ConfigCtrl, one for each register it writes. A delay of the main
program is DelayLoad, DelayGo (VAL), DelayEnable (CTRL) and DelayEnd for each
step: interrupts, and with them a callback's delay, come between any two. The
counter wraps whenever it has counted down, however long the handler then takes:
during a delay LOAD is the delay's own length, with the tick's interrupt still on. A callback's delay is not
interrupted and is CbDelay, CbDelayEnd. The delays exist when the library is
built with `USE_SYSTICK_DELAY`. HySystemDelayS is repeated calls of
HySystemDelayMs. `cut` records that a callback's delay fell into the main
program's; `delayed`, that the counter was used by a delay since the tick was
configured. A wait that never ends is modelled by no step being taken, so this
run does not check deadlock.

### EthFifo, EthRx, MCEthRx, EthProofs

`EthFifo` is what the receiver promises: a queue of frames in which one may be
lost but none overtakes another, is changed or comes twice, and which refuses
none while fewer than its capacity wait. `EthRx` implements it: `Waiting`, the
frame low_level_input has copied and the frames in the descriptors from the
oldest on, is the queue, and InOrder is `EthFifo`'s specification under that
mapping.

The receive ring. `desc[i].own` is the OWN bit; ETH_RxPkt_ChainMode is RxPkt;
low_level_input is RxPkt, AllocCopy, GiveBack, ResumeReception, and Input is what
ethernetif_input does with the pbuf. The DMA fetches a descriptor, sets RBU and
suspends in separate steps, as the port's test of RBU is a race with them. The
caller is not in the repository: it asks first whether a packet is ready, either
through ETH_GetRxPktSize or by the OWN bit (`style`). The size of an error frame
is 0, so a caller of the first kind has to give such a descriptor back itself
(ETH_DropRxPkt or ETH_HandleRxPkt of `at32f4xx_eth.c`, which nothing in the
repository calls); the model leaves that to it, and says nothing about how such a
caller goes on.

### EthTx, MCEthTx, EthProofs

The transmit ring. Its names begin with Tx where the receive ring has the same
one, so that EthProofs can reason about both with one set of lemmas on chains. low_level_output is CopyBegin, CopyEnd (the copy into the
current buffer, whoever owns it), TxPkt (OWN is tested, and set), Kick (TBU is
tested and transmission resumed), Advance. A frame is "whole" once its copy is.
CopyEnd is disabled while the DMA is between finding no descriptor and setting
TBU: copying a frame takes longer than that.

### Timers, SysTimeouts, MCSysTimeouts, SysTimeoutsProofs

`Timers` is an abstract list of timers in a time that does not wrap: each has a
time still to wait, none fires before it is due, the one due first fires first,
and of two due together the one set first. A timer is set at most a maximal delay
ahead. `SysTimeouts` is `timeouts.c`: a list sorted by due time modulo W (2^32),
whose comparisons are those of TIME_LESS_THAN; InDueOrder is the refinement, with
`Ahead`, the signed distance of a due time from the clock, as the time to wait.

The program begins in sys_timeouts_init, whose loop sets one cyclic timer per
InitCyclic, with the clock running between two of them. Every action of a handler
(setting and removing timers, registering and removing TCP control blocks, letting
time pass) can happen while sys_check_timeouts runs it, as a handler is ordinary
code of the stack or the application. The entry of a timer goes back to the pool
before its handler runs, and a pool found empty is an assertion that stops the
program ("abort": LWIP_NOASSERT is not set in lwipopts.h).

TimeoutsAssumption says what the code relies on: a delay is at most a quarter of
the clock's range, which sys_timeout asserts; the main loop calls
sys_check_timeouts before a timer is `Late`, and half the range, by which times
are compared, exceeds delay and lateness together; the pool has room for the
cyclic timers (`init.c:129` does not compile otherwise); and the entries of
lwip_cyclic_timers are different timers. A delay may be 0: a timer of 0 ms that a
handler sets is run by the same sys_check_timeouts, although the comment at
`timeouts.c:358` says that only timers expired at its start are processed, and if
it sets itself again, again and again. CheckReturns holds all the same, because
the clock goes on: a timer set after it has ticked is due later than the time
sys_check_timeouts began with.

### HcFlash, MCHcFlash, HcProofs

The five calls that program or erase (Flash_WriteByte and Flash_WriteHalfWord are
the same but for the store), from the check of the address, which returns
ErrorInvalidParameter at once, through the wait for an idle flash to the lock.
FLASH_BYPASS opens CR and SLOCK to one write (`bypass`), and an interrupt
that calls Flash_EnableIrq or Flash_DisableIrq uses it up; setting CR.OP is read
back and tried again, Flash_UnlockAll and Flash_LockAll are not (`unlockRobbed`,
of the call; `lockRobbed`, of the last locking). The flash finishes an operation at
any time, or not within the time-out. `started` is the operation the call's store
began, `done` the one the flash has finished for it, and `timedOut` lasts from a
time-out to the next locking: calls in between leave the sectors as they are.
FLASH_BYPASS itself writes two keys; that an interrupt between them does no
other harm than one after them is assumed.

### HcClock, MCHcClock, HcProofs

A call of the main program is the list of register operations it makes
(`todo`): ClkInit is enable, switch, divide; ClkDeInit is the longest. Enabling a
source copies PERI_CLKEN, opens the gate the source needs, writes, waits for
STABLE without a bound, and restores the copy. A crystal may never start
(`broken`). Between an unlock and its write an interrupt may unlock and write
itself (`usurped`), and at any time it may move a gate. The main program makes any
call with any source: Sysctrl_SysClkSwitch to one that does not run,
Sysctrl_ClkSourceEnable to switch off the one in use, Sysctrl_SetPLLFreq to give
the PLL it runs on a reference that is off. None of these checks, and `misused`
records that the call in progress is one of them. A PLL whose reference stops, or
is changed to one that does not run, stops; otherwise a change of its multiplier
leaves it stable.

### HcRtc, MCHcRtc, HcRtcProofs

Two calendar registers with a carry between them stand for seven. WAIT asks for
the window, WAITF follows it some clock periods later, and the calendar holds
still while WAITF is set. Rtc_ReadDateTime and Rtc_SetTime poll WAITF with their
two different loops; the application's interrupt handler may read the time at
any point of the main program. The clock of the RTC may stop. `seen` is what the
calendar has shown since the call began, `torn` that a read returned something
else.

## Runs

| Run | Instance | What it shows |
|---|---|---|
| hytime | 2 blocks, 2 timers | The handler finds copied, allocated contexts when the caller keeps the rules. A timer created stopped is never called back later. An overflow after Destroy takes the CPU for ever. Calls return, running timers call back. |
| uart_rx | 2 blocks, 3 creations, 5 bytes | No freed context is ever found; an uncopied one only by a creation that is not the first. Every byte is delivered once and in order, overrun, or waiting. The overrun spin ends only with a byte; a call returns unless a byte is for nobody or the spin is on. |
| uart_tx | buffers of 0 to 4 bytes, 3 polls, IMod 4, 4 calls, 2 bytes from callbacks | What the returned count means; when a waiting byte can be overwritten; order on the line; termination when the length fits the index. |
| system | 2 blocks, counter mod 4, steps of 2, delays up to 5, 2 nested | A delay is long enough unless a callback cut it or it exceeds the counter; when the main program runs again and again, only delays of 0 modulo the counter hang; no tick after a delay; ticks go on otherwise. |
| eth_rx | N 3, pool 3, frames of 0, 1 or 2 pbufs, 5 frames | The ownership window of the ring, the refinement of EthFifo, conservation of frames and pbufs, and, for a caller that looks at the OWN bit, the drained ring. |
| eth_tx | N 3, 6 frames | The window of the transmit ring; what the wire carries until the ring is overrun; whatever is accepted before the last frame is sent. |
| eth_tx_doc | N 2, 4 frames | Violated: low_level_output returns ERR_OK for a frame that was refused. |
| timeouts | clock mod 12, cyclic timers of 3 and 1, TCP timer of 2, 1 one-shot timer of 0 or 2, pool 4, Late 2 | The wrapping list is a list of timers in time that does not wrap; cyclic timers are neither lost nor doubled and the TCP timer is in the list when it is marked so; sys_check_timeouts returns. |
| flash | time-out 2 | The sectors are locked between calls, Ok means finished and idle, and no call starts another operation than its own, each with its exceptions. |
| clock | RCH, XTH and PLL, trims 4 and 24 MHz, multiplier 3, dividers 1 and 2 | The CPU's clock does not stop under it unless a call names the wrong source, gates and SystemCoreClock are what they should be, the PLL keeps its limit, and calls return, each with the cases in which they do not. |
| rtc | registers of 2 values, 3 polls | Reads return a time the calendar showed, writes find it still, only a time-out leaves it stopped, and calls return but for three ways to hang. |
| rtc_doc | as rtc | Violated: a Rtc_ReadDateTime whose polling loop ran out returns ErrorTimeout. |

Why the bounds are enough. Two blocks are the fewest with which a second context
can replace a registered one; three creations follow one such replacement with
another. Three descriptors tell "next" from "previous" on a ring, six frames go
round it twice, and the pool of three is exhausted by two frames of two pbufs.
Five bytes fill the data register, overrun it and end the spin, twice. IMod and
the counter's range are smaller than the longest buffer and delay, so that both
wrap; three polls allow success, success on the last poll and none. The clock of 12
lets the cyclic timers wrap it with every order of their due times, 1 and 2 ms
late; four entries are one more than the cyclic timers and the TCP timer need
together, so the one-shot timer fills the pool. A multiplier of 3 is allowed at
4 MHz and not at 24, so the order of trimming and tuning matters. The bounds
`MaxCreates`, `MaxBytes`, `MaxCalls`, `MaxEchoes`, `MaxWire`, `MaxFrames` and
`MaxNested` are guards of the actions they bound, named where they are declared.
`MaxWire` is reached only by a buffer whose length the index cannot hold, which
would be sent for ever.

Deadlock is checked for hytime and flash: the other models stop when their
bounded environment is used up, HySystem in an endless wait, HcClock when the
CPU's clock stops, HcRtc when a call hangs, and SysTimeouts by an assertion.

## Fairness

The CPU executes the call in progress and serves handlers (WF), counters run
(WF), and the DMA goes on after a fetch (WF). Callers, the network, the stack and
the UART's transmitter owe nothing: sends return because each wait is given up.
HyTime and HySystem take strong fairness for the main program: an interrupt
suspends it, and if it gets to run again and again it goes on. HyTime's timer has a period longer than its handler,
and the model says so directly: it does not overflow again while its handler
runs, except where the forced update event makes the handler late. HySystem
assumes no such thing, since during a delay the period is the delay; DelayReturns
has as its premise that the main program runs again and again (`[]<>Main`), and a
callback longer than the delay takes that away. The drivers of the HC32 assume that the main
program goes on between interrupts (HcRtc: strong fairness, as an interrupt is
over before the next), that a source that can start becomes stable and that
WAITF follows WAIT while the clock runs. SysTimeouts assumes that handlers return and that
the clock goes on.

## What is proved

`HyTimeProofs`, from HandleAssumption and NumAssumption, for any sets of blocks
and timers:

* TypeCorrect: `Spec => []TypeOK`. TypeOK is inductive by itself because it
  includes what ties the table, the blocks and the statement together: a
  registered block is allocated and registered under its own number; only the
  block being created is uninitialised.
* Invariance: `Spec => []IInv`. IInv adds, for callers that keep the rules
  (`Kept`): while TMR2 has no owner, or one whose TMR_TimeBaseInit has not run, it
  neither counts nor interrupts; every handle held is registered; the NVIC line is
  as the owner's creator asked; a running callback has an owner. The two
  properties say none of this about the hardware, so neither is inductive.
* IsrSafe and Silent follow from IInv.
* StormForever: `Spec => StormNeverEnds`, since every step of the main program
  requires that no interrupt is pending and the handler that finds no context
  changes nothing.

`HyUartProofs`, from HandleAssumption and BoundAssumption, for any sets of
contexts and any number of bytes: IsrSafe, Accounted and SpinEnds
(IsrReadsLiveContext, EveryByteAccounted, OnlyAByteEndsSpin). The inductive
invariant adds to TypeOK which blocks are half made (`Registration`), that the
line is still disabled during the first creation (`QuietAtFirst`), and that a
handler about to read the data register finds a byte there that is newer than all
it passed on (`Fresh`).

`HyUartTxProofs`, from CountAssumption and BoundAssumption, for any poll limit,
width of the index, buffer and number of callbacks that send:

* TypeCorrect: `Spec => []TypeOK`.
* Overwrites: `Spec => []OverwriteNeedsGiveUp`. `Free` says that until a wait has
  given up or a callback has sent, TRAC is set only when DR is free and a write to
  a busy transmitter finds it armed, and so clears TRAC.
* InOrder: `Spec => []LineInOrder`, with `InBuffer`, where in its buffer the caller
  is, and `NotAhead`, that no byte beyond the caller's is on the line: what it
  writes next comes after everything there.
* Counted: `Spec => []CountMatchesLine`. `OnLine` says that the bytes the caller has
  behind it are on the line, NotAhead that no others are but the one a short count
  leaves out. `Filled` keeps the line together: a byte waits in DR only behind one
  that is being shifted.

`EthProofs`, from SizeAssumption and BoundAssumption (and TxSizeAssumption,
TxBoundAssumption), for any number of descriptors and any pool. Receiving:

* TypeCorrect: `Spec => []TypeOK`.
* NoFault: `Spec => []NoNullDescriptor`. The inductive invariant is `Taken`: from
  the test that a packet is ready to the statement that gives its descriptor
  back, that descriptor is the CPU's.
* OwnedRun: `Spec => []RingWindow`. RingWindow alone is not inductive: it does not
  say where the DMA is when the ring is full, so giving a descriptor back could
  break it. `Window` says that the filled descriptors run from the oldest to the
  one the DMA is at, or that the ring is full and the DMA is back at the oldest.
  RunFill and RunTake are the two moves on that run.
* Implements: `Spec => InOrder`, the refinement of EthFifo. StoreAppends shows
  that a frame the DMA stores goes to the end of the queue, TakeOldest that
  giving a descriptor back takes the head off the ring; there the copied frame,
  which TrueCopy says is the head, stands in for it, so the queue does not change
  unless the frame is lost. QueueStep goes through the actions.
* NothingLost: `Spec => []Conservation`. Two sums, of frames and of pbufs, that each
  step leaves alone: a frame stored makes the filled descriptors one more
  (FilledCount), one given back makes them one fewer. It needs `EmptyHanded`, that
  no chain of pbufs is held before low_level_input has allocated one.

Sending, with the same lemmas about chains:

* TxOwnedRun: `TxSpec => []TxRingWindow`, for a caller that overruns the ring as it
  likes.
* WireInOrder: `TxSpec => []WireFaithful`. Counted says that what is accepted and not
  yet sent is exactly what the DMA owns, and gives every descriptor of the window a
  place among the frames accepted; Faithful, that until a call finds the ring full
  each of them holds the frame of its place, whole, and that a call in progress
  works in a descriptor of the CPU's. SentStep moves the window's start on,
  AcceptStep its end; FramesStep shows that no other step touches it.

`HySystemProofs`, from LoadAssumption and BoundAssumption, for any width of LOAD
and any length of a delay:

* LongEnough: `Spec => []DelayLongEnough`. `Waited` says that cycles waited and
  cycles still to wait add up to those asked at every statement of a delay that
  no callback's delay has cut; in the wait itself, with what VAL holds, or with the
  whole step once COUNTFLAG is set.
* TickStops: `Spec => []NoTickAfterDelay`, which is inductive by itself.

`SysTimeoutsProofs`, from TimeoutsAssumption, for every width of the clock that is
a multiple of 4, list of cyclic timers, set of delays and size of the pool:

* TypeCorrect: `Spec => []TypeOK`.
* DueOrder: `Spec => InDueOrder`, the refinement of Timers. The inductive invariant
  is `DueList` with `Checked`: due times are so near to now and to each other that
  comparing them modulo W is comparing distances from now (Less, Later, Ticked,
  Rebased are that arithmetic), also in the time that sys_check_timeouts began in,
  which it goes on comparing with while handlers take time. AddDue, CancelDue,
  FireDue, TickDue and RebaseDue map each step to one of Timers.
* TimersNeverLost: `Spec => []TimersKept`. `Kept` counts each timer in the list: none
  while its handler runs, it is not marked as active, or sys_timeouts_init has not
  come to it, else one. The cyclic timers are added in the order of their table, so
  that the one added next is not there yet. TimersKept says nothing of the loop
  that sets them, and so is not inductive.

`HcProofs`, for the flash from TimeOutAssumption, for any time-out: NothingElse,
FlashDone and Locked (OnlyWhatIsAsked, OkMeansDone, LockedBetweenCalls), from an
invariant that says of each statement what CR.OP, SLOCK and the flash are by then,
what the store has started, and that a sector open at the start of a call is due to
a time-out or a locking that an interrupt took.
For the clocks from SourceAssumption and TuningAssumption, for any dividers, trims,
multipliers and board:

* ClockRuns: `Spec => []RunningSourceOn`. `Powered` adds what a call's list of
  operations looks like (`Ordered`: one switch at most, first of all or to a source
  enabled just before; `Spared`: what it switches off is not in use, or no longer once
  it has switched to RCH), that an unlock is only undone by an interrupt, that the
  source switched to is stable, and that a PLL without its reference is not. The calls
  are any, with any source: those that name the wrong one are excepted by `misused`,
  for as long as they last.
* Gates: `Spec => []GatesRestored`, from `Copied`: the copy of PERI_CLKEN a call holds
  is what it has to store.
* CoreClock and PllLimit (CoreClockFresh, PllWithinLimit) need no more than the
  types and how the registers are written together.

`HcRtcProofs`, from BaseAssumption and TimeOutAssumption: Written, Stopped and
Snapshot (SetInWindow, StoppedByTimeout, ReadIsSnapshot). `Windows` says where
WAIT and WAITF are at each statement of a call no interrupt has disturbed, `Cut`
that only an interrupt's read disturbs one, `Reads` that what has been read is
still the calendar's.

Only model-checked: the properties with `~>` or `<>` (CallsReturn of four models,
RunningTimerFires, SendReturns, DelayReturns, TicksGoOn, RingDrains,
AllButLastSent, CheckReturns). They rest on fairness, that is on ENABLED, which is
outside what the prover handles. Every other property of the passing runs is a
theorem.

## Findings and observations

* eth_tx_doc: `ethernetif.c:192-193` documents an error value for frames that
  cannot be sent; `ethernetif.c:214-216` never returns one.
* rtc_doc: `rtc.c:344` documents ErrorTimeout; the loop at `rtc.c:355-364` leaves
  its counter at -1 when it runs out, so the call goes on and returns Ok, and
  returns ErrorTimeout when WAITF comes on the last poll.

Behaviour the models make explicit, about which the repository says nothing:

* A UART or timer destroyed while it runs locks the CPU in its handler.
* HySystemDestroy leaves the tick on and the static pointer dangling: TicksGoOn
  holds after it too. Any delay, on the other hand, stops the tick for good.
* A second HyUartCreate can be interrupted while its context is not copied.
* HyUartSendBuf sends one byte for length 0, counts a byte that succeeds on the
  last poll as failed, and never ends for lengths above 65535.
* With a callback sending on the same UART, a byte counted as sent may have been
  overwritten without any wait giving up.
* HySystemDelayUs waits modulo 2^24 cycles, and for ever for 0.
* During a delay the tick's interrupt comes once per delay: with a callback that
  runs longer than that (1 us is some 200 cycles) the handler is pending again
  whenever it returns, and the delay never ends. Take `[]<>Main` out of
  DelayReturns and TLC shows it.
* An interrupt that reads the time while the main program does closes its window.
* A time-out of the RTC leaves the calendar stopped until the next call. One of the
  flash leaves it unlocked until a later call reaches Flash_LockAll, which one with a
  bad address, or one that times out as well, does not.
* Sysctrl_SysClkSwitch writes CLKSW whether or not the source runs, and
  Sysctrl_ClkSourceEnable switches off the source in use: either stops the CPU.
* A timer of 0 ms set by a handler is run by the sys_check_timeouts in progress
  (see SysTimeouts).
* An interrupt's write between an unlock and its write is not noticed by the
  flash's locking and unlocking or by the clock driver: Sysctrl_ClkDeInit can then
  switch off the source the CPU runs on.
* SystemCoreClock is not updated when the dividers or the trim change.
* A handler that sets a timer takes the pool entry its cyclic timer has just given
  back, so the pool needs one entry more than there are timers.

## Not modelled

* UART numbers that `_init_uart_gpio` and `_init_uart_interrupt` do not support:
  the table at `hy_uart.c:70` has three entries and the loop runs to HY_UART_MAX,
  and the entries of USART2 and USART3 at `hy_uart.c:132` enable USART1's line.
  What an out-of-bounds read finds depends on the stack's layout.
* Callbacks that create or destroy (one that destroys the handle HyTimeEnable was
  interrupted on would have it read a freed block, `hy_time.c:121`).
* Baud rates, pins and clocks of the AT32; MAC configuration; checksum options.
* The other fields and calls of the HC32 drivers, listed under "components" in
  `PROJECT.json`: they write one register and keep no state.
* `port/sys_arch.c`, which `NO_SYS 1` leaves out. Read, it has a limit worth
  knowing: its mailboxes of N slots hold N - 1 messages (line 265).
* lwIP other than its timers, CMSIS with its DSP library, and the vendors'
  register headers and peripheral libraries. They are most of the repository's
  lines (tables of constants, bit definitions, signal processing, upstream
  protocol code), are unchanged from upstream, and have no behaviour of this
  repository to state, so the share of all lines that the models cover is small.
  Of the code written for this repository every file that is compiled and keeps state is modelled.

## Plan

Done: the services, both rings, lwIP's timers and the HC32 drivers, with the
refinements and proofs above. Worth doing next:

1. An abstract specification of HyUartTx's line, which Counted and InOrder state
   in pieces, and its refinement.
2. `HyMcu`: timer, UART and tick on one CPU, with callbacks that call the API.
3. `Memp` and `Pbuf`, so that EthRx and SysTimeouts share pools with the rest of lwIP.
