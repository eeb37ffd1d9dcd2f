# Tag card (Tag_sim32L): TLA+ models, checks and proofs

The repository is the firmware of a personnel tag for mines and tunnels: a SiM3L1xx
microcontroller with an AS3933 low-frequency wake-up receiver, an RF2xx 2.4 GHz radio and
an RTC. The card sleeps nearly always. A low-frequency *exciter* wakes it; it then
synchronises with the exciter by radio, listens once per period for the *node* of the cave
it is in, sends a packet series when it passes an entrance, or is configured and given a
new program over the air.

Everything below `src/` was surveyed. Source lines are given as `file:line`, relative to
`src/`.

## 1. Inventory

| Part | Source | State | Operations | Model |
|---|---|---|---|---|
| Main loop, card state machine | `main.c`, `app/workstate.h`, `app/event_exciter.c` | `c_state`, session ids, period counters, flags, `tDelay` | five sections per iteration: false wake-up, exciter, time-out, packet, alarm | `TagCard` |
| Power and wake-up | `arch/PMU.c`, `arch/Modes.c`, `as3933/` | `wake`, `false_wake_up`, PMATCH enable, LDO | `pmu_enter_sleep`, `as3933_data_read`, `PMATCH_IRQHandler` | `TagCard` |
| System tick | `arch/CPU.c`, `app/systick.c` | `tDelay`, `tDelayValid` | `SysTick_Handler` | `TagCard` |
| RTC clock, absolute alarms | `arch/RTC0.c` | counter, `long_counter`, three alarms | `get/set_current_time`, `rtc_alarm_enable`, `time_synchronizing`, handler | `RtcClock`, `RtcAlarms`; alarm 1 in `TagCard` |
| Relative alarms | `arch/rtc_alarm_relative.c` | linked list over a static table, alarm 2 | add, handle time-out | `RtcAlarms`; the program's one event in `TagCard` |
| Packet pool, reception | `rf2xx/rf2xx_recv.c`, `rf2xx_protoc.c`, `rf2xx_mcu.c` | byte ring of 512, count of records | receive in the interrupt, parse in the loop | `PacketPool`, `FrameFifo` |
| Radio, transmission | `rf2xx/rf2xx_tat.c`, `rf2xx_send.c`, `rf2xx_hal.c`, `rf2xx_mcu.c`, ... | transceiver state, end and direction flags, `is_sent` | `mac_init`, change of state, both ways to send, interrupt, sleep | `Radio` |
| Radio settings | `rf2xx/rf2xx_init.c`, `rf2xx_tat.c`, `rf2xx_version.c`, register maps | registers of the transceiver, channel, network, address | `rf2xx_Init` and each setting it makes | `RadioSettings`, `RfBand` |
| Frames received | `app/event_receive_pkt.c` | `next_wakeup_time`, update session | `parse_rx_syn_pkt`, `parse_rx_cave_pkt`, `parse_rx_update_code_pkt` | `TagCard`, `CodeUpdate` |
| Frames sent, wake time | `app/event_wk_time.c` | - | `set_next_wake_time`, `get_delay_time`, `send_*_pkt` | `TagCard` (the first two), `Radio` (the senders) |
| Code update, flash | `app/event_receive_pkt.c:274-437`, `arch/FLASHCTRL.c` | session statics, flash pages | request, piece, completion; erase, program | `CodeUpdate`, `ImageTransfer` |
| Configuration | `app/configuration.c`, `app/flash_operation.c` | `config_item`, its flash page | read, default, write | `CodeUpdate` (the flash side) |
| Time-out multiplexer | `arch/timeout.c` | two arrays of time-outs, halves of TIMER0 | add, remove, handler | `TimeoutMux` (compiled, but no call is left in) |
| Exciter waveform | `exciter/` | bit and state index | timer events | not in the project file; not modelled |
| Check sums | `option/crc.c` | - | two CRC implementations | not modelled |
| System parameter page | `system_param/` | one page | read, default, write | not modelled |
| Clocks, ports, start-up | `arch/CLKCTRL.c`, `PB.c`, ... | registers | - | not modelled |
| Build output | `build/`, `*.uvproj` | - | - | generated |

**How they interact.** There is no operating system. The loop of `main.c:106-626` is the
only thread; the handlers of the wake-up receiver, the RTC, SysTick and the radio preempt it
and communicate through globals: `wake`, `false_wake_up`, `time_waking`, `tDelay`, the
packet pool, the flags of the radio. The loop gives up the processor in `pmu_enter_sleep`,
called from *within* a section and returning into it. Alarm 0 is the overflow of the clock,
alarm 1 the cave period, alarm 2 the relative queue (entrance and exit series); the last two
set `time_waking`. Alarm 2 is never enabled, as no code initialises the queue. The radio is on only in the windows that `mac_init` opens; each
`mac_init` resets the transceiver and sets all its registers again.

**What is hard here.**

* Flags set by handlers and tested by the loop, with a WFI in between (`PMU.c:143`).
* Critical regions that do not nest: `LEAVE_CRITICAL_REGION` (`mcu.h:14`) enables interrupts
  whatever they were.
* A chip at the other end of the SPI that moves on between two accesses of its driver, and
  flags shared between the driver, its handler, reception and transmission.
* A 64 bit time made of a counter that does not stand still and an overflow flag that three
  places clear.
* Counters of periods spread over three sections, abandoned and begun again by exciters at
  any moment.
* Two time bases (RTC ticks and quarter seconds) in one variable (`next_wakeup_time`).
* Losses of power between the writes of an update, and sessions over an unreliable radio.
* Table, ring and counter limits: eight-bit counters, a 512 byte ring, 350 pieces, 30 pages.

**What makes each part correct.** Loop: counters within limits, a session never leaks into
another, a session that hears nothing ends, a series begun is completed, the receiver does
not stay on. Wake-up: a wake-up is genuine and none is slept over. Update: only what was
accepted and received is booted, parameters survive. Alarms: each event fires once, not
early and not late, the list stays ordered. Pool: what comes out is what went in, whole and
in order. Clock: no overflow lost or counted twice, the time read is right. Transmission: it
ends, what it reports happened, and the radio receives again afterwards. Settings: all or
none of them are made, and what is read back is what was set.

The full list, each at its line, is `hazards` in `PROJECT.json`.

## 2. Modules

| Module | Role |
|---|---|
| `TagCard` | loop, sleep, interrupts; safety and liveness properties |
| `TagCardAudit` | `TagCard` with observers: what the receiver and the radio really delivered |
| `CodeUpdate` | update session and flash, with losses of power |
| `ImageTransfer` | what an update promises; `CodeUpdate` implements it |
| `Radio` | driver of the transceiver, senders, interrupt handler, the transceiver itself |
| `RadioSettings`, `RfBand` | registers and `rf2xx_Init`; arithmetic of the RF212's channels |
| `PacketPool` | the ring between the handler that receives and the loop that parses |
| `FrameFifo` | what the pool promises; `PacketPool` implements it |
| `RtcClock`, `RtcAlarms` | the 64 bit time; the relative alarms that extend it with alarm 2 |
| `TimeoutMux` | several time-outs on one timer |
| `TagCardProofs`, `CodeStoreProofs`, `RadioProofs`, `RadioSettingsProofs`, `PacketPoolProofs`, `RtcProofs`, `AlarmProofs`, `MuxProofs` | TLAPS proofs (section 5) |
| `MC...` | instances for TLC: constants that a `.cfg` cannot write, symmetry, state constraint |

### TagCard

`pc` is the section about to be executed: `excite` (with the false wake-up test before it,
`main.c:109-274`), `timeout` (279-356), `packet` (360-494), `alarm` (498-622). There is one
action per section and case of its `switch`. A section is one step, because nothing that a
handler writes is read twice inside it: a handler in the middle has the effect of one just
after. The exception is the sleep, which therefore is three steps, `doze` (before the WFI),
`wfi` and `woken`, with `ret` as the return address. Interrupt actions are enabled
in every state in which the code leaves the interrupt enabled.

| Variable | Code |
|---|---|
| `pc`, `ret` | program counter |
| `wake`, `false_wake_up`, `ex_id`, `pmatch` | flags of `main.c:24-30`, id read by `as3933_data_read`, NVIC enable of PMATCH |
| `exciterID`, `lastEID`, `lastRID`, `c_state` | session (`main.c:30-44`) |
| `PconSignal`, `PnoSignal`, `CnoSignal`, `enCount`, `exCount`, `HnoSignal`, `*_received_flag` | counters of the same names |
| `tDelayValid`, `tDelay` | window; `tDelay` only as running, 0, below 0 |
| `time_waking`, `alarm1`, `next_wake_ok` | alarm flag, alarm 1, whether `next_wakeup_time` is what alarm 1 holds |
| `listening`, `pool` | receiver on; packet pool |

*Abstractions.* Time is what the loop can tell apart: the alarm is `ahead` (after any
window that is open), `due`, `recent` (matched in this period) or `remote` (in the past: it
matches after the 36 h wrap). A frame is its kind, sender, distance of its wake time and
signal strength. Transmissions carry no state; they are steps only where they wait (a frame
may come during them: `Heard`). No code calls `rtc_alarm_relative_init`:
the head of the relative list is NULL, and a store through it faults (`halt`) or is ignored, a
choice of the model (`AddAlarmAndSleep`). No relative alarm is ever set, and the series wait
for alarm 1, whatever it was set to before.
`PoolMax` bounds the pool (whose bytes are the subject of `PacketPool`). `Elapse` and
`WindowOpen` are external: they state that a window fits into the period, which is true of
the default configuration (50 ms against seconds).

### CodeUpdate

A cell stands for 32 bytes: a piece (96 bytes) has 3 in the code, a page (1024) has 32. The
flash is a function from cells to contents; programming a cell that is not blank gives a
mixture, `ErasedFor` are the pages `write_data_to_flash` erases. `receive` is the state in
which a frame is parsed; a request or a piece is one action, since nothing else runs on this
state; the completion is one action per write, because power may be lost between them, and
`PowerLost` is the loss between erasure and programming. `Bootloader` is external: the
repository has only the words it reads. `acked` and `answer` record what the updater was
told. The check sum of a file is the file itself (collisions left out). `Images` has no
empty file. It has files of any length, and `OldImages` are those that may be announced with an
old version: they are refused and taken all the same, before the test of their size. Two
observers name what such files do. `mishap` is what has befallen the page of the parameters
since they were configured: power lost in their own write, or a piece over them. `legal` says
of a file that is completed that it was accepted and ends before the boot page. What is written
behind the flash is lost in the model, and what the entries of `write_flash_ok` past the 350th
overwrite is not in it: that is up to the linker.

### Radio

One step is one access of the driver: each is an SPI exchange in a critical region
(`rf2xx_hal.c`), and the transceiver moves between any two. `trx` is the state of the chip,
`cmd` a state commanded while it was busy, which it takes up afterwards. `FrameStarts`,
`FrameEnds` and `TransmitEnds` are its own moves; `irq` the interrupts pending in its
register, which `PBEXT1_IRQHandler` reads and clears at once. The handler preempts the
program, hence no step of the program while `irq` is not empty.

| Variable | Code |
|---|---|
| `pc`, `caller` | place in `rf2xx_tat_send_packet`, `mac_send_packet_*`, `send_*_pkt`, `rf2xx_recv_on`, the loops around RX_ON; return address of `rf2xx_tat_set_trx_state` |
| `want`, `status` | its argument and result |
| `retry`, `cnt`, `send_count` | counters of the three nested repetitions |
| `end_flag`, `rx_flag` | `rf2xx_trx_end_flag`, `rx_flag` of `rf2xx_option.c` |
| `configured` | whether the last `rf2xx_Init` came to its end (interrupt mask, address) |
| `job` | which sender: mode, attempts, length of the payload |

*Abstractions.* Contents of frames, times on the air and the CSMA inside the chip: a
transmission ends with success or failure, as it likes. `aired`, `ender` and `crossed` are
observers. The chip (`external`) is modelled as the driver uses it: a command in a busy
state is carried out at its end; RX_AACK and TX_ARET are the extended modes.

### RadioSettings, RfBand

A register is a byte, a subregister some of its bits: `Write` reads, changes and writes back,
so that settings that share a register can undo each other, which is what `AllOrNothing`
is about. A subregister is its register, the value of its lowest bit and the number of its
values (`SR`), which is the mask and position of the register map. `pc` walks through `rf2xx_Init` setting by setting, each with its tests and its
early return in `tat`. The program around it is what `main.c` does with the parameters:
a channel or identifier that was configured, the network of a synchronizing packet,
the wake-up. `RfBand` is `rf2xx_version.c:34-200`, in units of 100 kHz.

### PacketPool, FrameFifo

`packet_buffer`, `tail`, `header` and `packet_received` are those of `rf2xx_recv.c`. A byte
is a pair of a record and its place in it, so that a byte out of place is seen. The handler
is one step, since nothing preempts it; the parser is three, because
`packet_received--` is a load and a store. Frame lengths include those of 9 and 10 bytes,
whose payload length is computed by subtraction in a byte and comes out near 255, and the
longest, which `spi1_read_buff` does not read: nobody looks at its result, the check sum is
taken of what is in `rx_frame` (`rx_frame`, `LastRead`), and if it fits the frame before is
accepted again, as a longer one. `Start` and `Used` say where the records that
wait begin and how many bytes they take, one record at a time. `pending` is an observer and, under the
refinement, the queue of `FrameFifo`.

### RtcClock, RtcAlarms

The counter ticks between any two steps of the processor; `Late` bounds how many ticks an
operation, or an interrupt that waits, may take. Times are counted from the last time the
clock was set. `get_current_time` is two steps (capture; flag, sum and the enabling of
interrupts), `set_current_time` three. `add_item` is a step per access to the list from
where its nested `get_current_time` has enabled interrupts again: `search`, `unlink`,
`malloc`, `walk`, `link`, `rearm`, `arm`, `enable`. The handler is two steps, of which the
second reads the time (`isr`); its walk through the list is `Remaining`, item by item.
The table has at least as many entries as there are events (`main.c` has one, the table
five), and a delay is at most a period of the counter. `due`, `left` and `early` are observers, and so is `upset`,
the mishaps that have happened. Each property says which of them it excepts; TLC
finds it violated when one of these exceptions is dropped:

| Mishap | What happens | Where |
|---|---|---|
| `lost` | the sleep clears a pending overflow, or the clock is set over one | `PMU.c:122`, `RTC0.c:192` |
| `jumped` | the time is read in the last tick of a period, after its overflow was counted: 36 h ahead | `RTC0.c:163` |
| `moved` | the clock is set while relative alarms wait | `RTC0.c:186` |
| `raced` | the handler changes the list under `add_item` | `mcu.h:14` |
| `missed` | an alarm is armed for a time that has passed | `rtc_alarm_relative.c:117` |

`RtcAlarms` starts with `rtc_alarm_relative_init` called, which no code does; `TagCard` has the
other case. `rtc_alarm_relative_delete_item` and `_adjust_item` are not modelled: nobody calls
them, and their loops do not advance.

### TimeoutMux

`unit` chooses between the two arrays. The functions are split where the handler can come
in: for the microseconds the timer is stopped first, for the milliseconds it is not
(`timeout.c:224`, `236` test `TIMEOUT_US` twice). `remains` counts the ticks each event really
has left. `get_timeout_time` returns minus the time elapsed (`timeout.c:182`), modulo
`Width`: the events it makes late or early are `disturbed`. Left to the caller, as in the code:
an event that waits is not added again, and the array is not overrun (`timeout.c:277` has no test).

## 3. Runs

| Run | Question | Result |
|---|---|---|
| `card_cave` | counters, session and patience in a cave with two nodes | `TypeOK`, `CounterBounds`, `OneRunAtATime`, `KnowsItsNode`, `Patience` hold |
| `card_mixed` | cave, entrance and test exciter: do sessions leak, does the exit series end | `EntrySession`, `ExitEnds` hold |
| `card_live` | do listening, the cave session and configuration mode end | `ListeningEnds`, `SilenceEndsTheSession`, `ConfigurationEnds` hold |
| `code_update` | update with losses, repetitions, power failures, refused and long files | `TypeOK`, `StoreHoldsWhatIsSummed`, `ParamsKept`, `NoHole` hold; refines `ImageTransfer` but for the completion of a refused or long file (`BootsWhatWasAccepted`) |
| `radio_send` | driver, handler and transceiver, three kinds of senders | `TypeOK`, `StatusAfterTheEnd`, `EndsGoTheRightWay`, `SentMeansAired`, `SendsBounded`, `ReceivesAgain`, `SendEnds` hold |
| `radio_init` | `rf2xx_Init` over and over, on nine transceivers | `TypeOK`, `AllOrNothing`, `ChannelReadsBack` hold |
| `packet_pool` | the ring, around the wrap and when it is full | `TypeOK`, `CountMatchesTheRing`, `RoomIsWhatIsLeft` hold; refines `FrameFifo` (`FramesInOrder`) |
| `rtc_alarms` | time and relative alarms while the counter runs | `TypeOK`, `OverflowsCounted`, `TimeIsRight`, `NeverEarly`, `NeverLate`, `QueueIsSound` hold |
| `timeout_mux` | several time-outs on one timer, both units | `NothingIsForgotten`, `NeverEarly`, `EverySignal` hold |
| `audit_true_wake_up` | is every wake-up handled a genuine one | violated: match while awake |
| `code_refused` | is only a file that was accepted booted | `BootsWhatWasSent` violated: a file of an old version |
| `code_long_image` | does the limit on the size keep the store off the boot information | `BootsWhatWasSent` violated: 299 to 320 pieces |

**What `Patience` adds.** The counters of the code cannot show by themselves that a card
left for the right reason; `TagCardAudit` counts the periods from alarms and frames,
and the property compares the two at the step that gives up.

**Bounds.**

* `card_*`: one or two exciters of a kind suffice, because the code only compares an id with
  the last one; two nodes, because a packet is from the session's node or not. Limits of 1 and
  2 for the counters reach the branches below, at and past each limit. `PoolMax = 1`: the loop
  takes one frame per iteration, a second one waits as if it came later. There is no bound
  on runs of the loop: the counters are bounded by the code, which is what
  `CounterBounds` says, and the observer `silent` stops at `SilentMax`.
* `code_update`: pages of 3 cells and pieces of 2 cross page ends at every offset; one file ends
  where the boot page begins, one lies over the boot page and passes the test of the size, and
  one of 6 pieces fails it and reaches the page of the parameters when it is announced with an
  old version. Two contents of a piece suffice to tell a wrong piece, two sets of parameters a
  wrong set.
* `code_long_image`, `code_refused`: the proportions of the code (a piece of 3 cells in a page of
  4, the boot information in the last page but one of the store's 6), one file each.
* `radio_send`: one sender of each kind (CSMA and three attempts, direct and three, direct and
  one): the others differ in the length only. Both outcomes of `rf2xx_Init`.
* `radio_init`: transceivers of each kind, of a wrong revision, of another maker and of an
  unknown kind; channels at, below and above the limits and beyond a byte; RF212 bands
  around every limit; two addresses and a network.
* `packet_pool`: a ring of 48 bytes holds two records of frames of 13 bytes, one of them and one
  of the longest frame, 19 bytes, which is not read, or one with a payload of 20 pretended by a
  frame of 9 (`Byte` = 22, `MaxFrame` = 19). The records have 18, 24 and 36 bytes, begin at every
  sixth byte of the ring and are split by its end at each of the places this gives. The proofs
  have no such bound. Frames are told apart by two identifiers, under symmetry.
* `rtc_alarms`: a counter of five values, three periods, operations of up to two ticks; two
  events and a table of two; the clock is set to a middle and to the last value. `FewMishaps`
  leaves out what follows two kinds of mishaps; for `OverflowsCounted` and `TimeIsRight` the
  proofs have no such bound.
* `timeout_mux`: three events, a counter of 4 with a reload of 1, times within a turn and
  beyond one, four calls.

**Deadlock** is switched off where the card may stop for good (`while(2)` in configuration
mode, the fault of an entrance series), where a transmission waits for ever (`radio_send`), where the
counter's periods or the calls are bounded (`rtc_alarms`, `timeout_mux`), or where a liveness or
finding run asks only for its property.

**Fairness.**

* `TagCard`: weak, of the loop (the processor executes), of SysTick while awake, of alarm 1
  and of the RTC counter reaching it (the RTC runs in sleep). None of exciters,
  frames or the counter's overflow. Without those, a liveness property may have a premise:
  `FalseWakeUpsEnd`, since a false wake-up skips the rest of the loop (`main.c:109-115`), and
  that the pool stays empty, for the silence to be one.
* `Radio`: strong, of the program's steps, because each interrupt disables them and the
  processor still runs between two interrupts, however many there are; weak, of the handler,
  of the end of a transmission and of that of a frame, which take a bounded time. None of
  calls or of frames that begin.
* `TimeoutMux`: weak, of the timer, of the handler, and of the steps of a call that is under way.
* `CodeUpdate`, `PacketPool`, `RadioSettings` and `RtcAlarms` claim no liveness: nothing there
  retries by itself; that events come is the upper limit in `NeverLate`.

## 4. Findings

Three are shown by runs of their own:

1. `as3933.c:188` (`audit_true_wake_up`): a match while the card is awake sets `wake` without
   reading the id, and leaves PMATCH disabled.
2. `event_receive_pkt.c:325` (`code_refused`): a file refused for its old version leaves the
   session open; its pieces are taken, and it is booted. The refusal comes before the test of
   the size, so that it may be of any length.
3. `event_receive_pkt.c:330` (`code_long_image`): the size limit lets the store run over the
   boot information and the parameters.

Others are part of the models, and the properties name them as exceptions or hold in spite
of them:

* `PMU.c:143`: a flag set between its last test and the WFI is slept over until the next
  interrupt (`doze`, `wfi`).
* `event_receive_pkt.c:175`: `next_wakeup_time` is overwritten, in quarter seconds, by packets of
  foreign nodes (`next_wake_ok`, alarm `remote`).
* `event_receive_pkt.c:298`: `while(2)` on an illegal configuration frame (`halt`).
* `main.c:371`: the network told by a synchronizing packet is set so that packets of other caves
  are not received any more, says the comment; every section sets `panid` back to the default
  before its `mac_init` (`main.c:509-512` at each alarm), so that it is lost before the next
  window. `RadioSettings` has both; no property claims that the network lasts.
* `rtc_alarm_relative.c:57`: `rtc_alarm_relative_init` has no caller, so no alarm of milliseconds is
  set (or the card faults). The packets of a series come with alarm 1 only, and a series
  that begins when alarm 1 is far away waits for it.
* `main.c:285`: frames left in the pool at sleep are parsed after the next wake-up.
* `main.c:295`: a silent period after a reception is forgiven, so that leaving takes one more.
* `main.c:109`: a storm of false wake-ups starves the rest of the loop (`FalseWakeUpsEnd`).
* The five mishaps of the clock and the alarms (section 2), and `rtc_alarm_relative.c:78`: a
  moved item keeps its `pending_flag` and its predecessor's is cleared (`left`).
* `rf2xx_tat.c:148`: the state is read and the command given in two accesses; a frame that begins
  in between leaves the card deaf until the next send or `mac_init` (`crossed`).
* `mac_state.c:5`: the result of `rf2xx_Init` is not looked at; a transmission after it
  gave up waits for ever (`SendEnds`). `rf2xx_tat.c:49`: the test of the RF230's revision is
  always true.
* `rf2xx_recv.c:93`: frames of 9 and 10 bytes pretend to 254 and 255 bytes of payload, and the
  handler copies as many. `rf2xx_spi.c:30`: a frame of 127 bytes is never read, and the one before
  it may be accepted again in its place.
* `timeout.c:182`, `224`, `236`, `277`, `299`: the wrong sign, the wrong unit, no test of the limit, one
  element too many; nothing in the program reaches them.

## 5. Proofs

Everything below holds for every value of the constants under the assumptions named in the
modules. Each proof follows one plan: an inductive invariant in layers, so that each step
proof sees little; in each layer one lemma per group of actions.

| Module | Theorem | Statement |
|---|---|---|
| `TagCardProofs` | `TypeCorrect` | `Spec => []TypeOK` |
| | `CountersBounded`, `RunsExclude` | `CounterBounds`, `OneRunAtATime` |
| | `CardKnowsItsNode` | `KnowsItsNode` |
| | `EntranceSound` | `EntrySession` |
| | `CardIsPatient` | `ASpec => Patience`, an action property |
| `CodeStoreProofs` | `UpdateTypeCorrect`, `NoHoleLeft` | `Spec => []TypeOK`, `Spec => []NoHole` |
| | `ParametersSurvive`, `StoreIsSummed` | `ParamsKept`, `StoreHoldsWhatIsSummed` |
| | `OnlyWhatWasAccepted` | `BootsWhatWasAccepted`: `CodeUpdate` implements `ImageTransfer` but for the completion of a refused or long file |
| `RadioProofs` | `RadioTypeCorrect` | `Spec => []TypeOK` |
| | `StatusIsOfThisPacket`, `EndsAttributed` | `StatusAfterTheEnd`, `EndsGoTheRightWay` |
| | `PacketSentAtMost`, `ReportedMeansAired` | `SendsBounded`, `SentMeansAired` |
| | `ReceptionComesBack` | `ReceivesAgain` |
| `RadioSettingsProofs` | `BandReadsBack` | every frequency that is accepted is read back |
| | `SettingsTypeCorrect` | `Spec => []TypeOK` |
| | `SettingsAllOrNothing` | `AllOrNothing` |
| | `ChannelAlwaysReadsBack` | `ChannelReadsBack`, an action property |
| `PacketPoolProofs` | `PoolTypeCorrect` | `Spec => []TypeOK` |
| | `FramesComeOutInOrder` | `PacketPool` implements `FrameFifo` |
| | `CountIsOfTheRing`, `RoomDoesNotLeak` | `CountMatchesTheRing`, `RoomIsWhatIsLeft` |
| `RtcProofs` | `EveryOverflowIsCounted`, `TimeReadRight` | `OverflowsCounted`, `TimeIsRight` |
| `AlarmProofs` | `AlarmTypeCorrect`, `QueueSound` | `Spec => []TypeOK`, `QueueIsSound` |
| | `SignalledNotEarly`, `SignalledNotLate` | `NeverEarly`, `NeverLate` |
| `MuxProofs` | `NothingForgotten`, `SignalledInTime` | `NothingIsForgotten`, `NeverEarly` of `TimeoutMux` |

**`TagCardProofs`**, from `ConstantsAssumption` (limits are naturals, `cfg_icnt` and `cfg_edpc`
positive, exciter kinds disjoint, `NoId` none of the ids). `FlagTypes` and `DataTypes` first:
the types of flags need nothing else, those of data need the flags. Then `CaveSession`, the
conjunction of `CounterBounds`, `OneRunAtATime` and `KnowsItsNode`: none of the three is
inductive alone. `KnowsItsNode` needs that a reception count is never kept together with a
silence count, and the bound of `PconSignal` is what makes it equal `cfg_icnt` when the card
enters the cave. `EntrySession` rests on `CounterBounds` (a series ends when the counter is
not below `cfg_edpc`, hence equals it). `CardIsPatient` is
about `TagCardAudit`: `Outlasted` ties the counter of the code to the observer `silent`, and
what makes it inductive is `tDelayValid`, the period that has begun and has not been counted.

**`CodeStoreProofs`**, from `UpdateAssumption` (files not empty, a piece at most a page, the
order of the pages in the flash). `NoHole` is not inductive: that the piece expected is not
yet written, and that the one before it may be confirmed again, needs `Session`, which says
of every open session that `write_flash_ok` is exactly the pieces before the one expected,
and that nothing past that one has been confirmed. It holds through the completion too,
where `NoHole` says nothing.

Its second part adds the contents of the flash. Nothing is assumed of the files but that they
are sequences of pieces: they may be refused, and of any length. `StoreInv` is `Room` (the sum
of a session is of the pieces so far, and a completion that is `legal` is of a file accepted that
ends before the boot information), `BootWords` (the flag and the length, word by word through
the completion; a piece over them can take the flag away, but not make one), `ParamsKept` and
`Summed` (as far as the boot information, the cells below the address hold the pieces
summed). Beneath them are lemmas on cells and pages: which pages a write erases, that it
touches no cell outside them (`PieceElsewhere`), and that no page is erased under a piece in
the store. `OnlyWhatWasAccepted` follows from them step by step; what is left over are the two
completions that the violation runs show, in which the refinement mapping leaves nothing
installed (`Installed`).

**`RadioProofs`**, from `RadioAssumption`. `TurnInv` says whose turn it is: while a
transmission runs, `rx_flag` is off, no frame can begin and the end flag can come from
nowhere else (`Transmitting`); any end pending belongs to what raised it (`Attributed`).
`SendInv` counts: attempts made, sends completed, result reported (`Counted`, `Reported`).
`ReceptionInv` follows the transceiver through the nested loops that give up: what was
commanded outside of a frame is obeyed at once (`Crossing`), reception is what is asked for
last (`Wanting`), and at each place where a function may give up it is on its way (`Giving`).

**`RadioSettingsProofs`**, from `RadioSettingsAssumption` (parameters of 16 bits, registers that
hold bytes after a reset). `Setup` says for every function of `rf2xx_Init` what it has set and
that it is so from its return on. That the functions after it do not undo it is a matter of the
bits they share a register with: `PutIs` and `WriteKeeps` are about all bytes and all
subregisters in use, `Neighbours` are those that share a register. An RF230 never comes past
`rf2xx_tat_init`, because the test of its revision always fails; the branches for it are dead.

**`RtcProofs`**, from `ClockAssumption` (an operation is over within less than a period, `Late <
overflow_value`). `ClockInv` is `ClockTypes`, `Masking` (interrupts are off from the capture to
the sum) and `Counting`, which is `OverflowsCounted` made inductive through the two steps of
`set_current_time`. `TimeInv` adds `Reading`: what was captured is as old as `late` says.

**`AlarmProofs`**, from `ClockAssumption` and `AlarmAssumption`, on top of `ClockInv` and
`TimeInv`. It goes up in four stages.

1. `Shape`: one item per event, the pointers of `add_item` are items or the head, and the
   table has at least as many entries taken as there are items. It holds even when the handler
   changes the list under `add_item`. With the bounds on times it gives the types.
2. `Sound`: as long as that has not happened, the list is ordered and the table exact.
   Between its steps `add_item` remembers a place (`Unlinking`, `Linking`), which must still be
   the right one: this is what being overtaken breaks. That no access goes through
   NULL is a matter of counting: the events with items are distinct, so a full table leaves no
   event to be added (`Cardinality(Event) <= TableLen`).
3. `TimelyInv`: the register of alarm 2 has the low bits of a time only, so that it matches
   again after a period. Outside of the mishaps there is a time `A` that it stands for:
   the last one it was written for, or at which it matched since. `Alarm(A)` says that
   a pending alarm is a few ticks past `A` and that items are marked only for `A`; `Booked` that
   items have the times asked for, no more than a period ahead; `Prompt` that no event asked
   for lacks its item and none is overdue when the alarm is set; `Steady(A)` that the
   alarm is on, and for the first of the list or before, when nobody is about to set it.
4. `NeverEarly` and `NeverLate` follow from that. Neither is inductive: an event is
   signalled in time because of what the register meant when it was written.

The handler's walk is a recursive function of the list; that it keeps the order and the other
items (`Remaining`) is shown by the well-ordering of the naturals, as for the pool below.

**`PacketPoolProofs`**, from `PoolAssumption`. `Ring` says that there are places `s[1]`,
`s[2]`, ... counted on from the first turn without ever going back to 0, such that record i
lies after `s[i]`, `header` and `tail` are the ends modulo `Size`, and less than a turn lies
between them. Then the wrap is arithmetic (`Onwards`, `Distance`, `PlaceWritten`, `PlaceKept`),
room is `Size - 1` less the distance of the ends (`RoomOf`), and a record that fits overwrites
none (`RingGrows`). `Counting` ties `packet_received` to the records between the load and
the store. `CountIsOfTheRing` and `RoomDoesNotLeak` are about recursive functions, `Start` and
`Used`: `StartIs` and `UsedIs` go through the records one at a time, by the well-ordering of the
naturals (`SetInduction`), since an induction theorem with an operator as its parameter is
out of the provers' reach. `Buffered` says that a frame that is accepted, the old one of a frame
not read included, is one that was on the air.

**`MuxProofs`**, from `MuxAssumption`. `Runs` and the types hold whatever the handler does.
`Listed` (the array is what waits) and `Timed` hold until it comes under a call. `Timed` says
what the timer was set to (`SetToFirst`: the first item's time, or the longest the counter
has, and flagged are exactly the items of that time) and relates the times in the array to
the true ones (`DueWithin`: the time that is left of an event is at most what its item says less
the ticks since the timer was set, `Elapsed`). A call that finds the timer part of the way
breaks that relation for the events that wait, which are `disturbed` from then on; `ReadingIs`
shows that all other calls read 0. `RestIs` and `SortedIs` are about the operators: what
stays of the array keeps its order, and sorting is a permutation (the places are distinct,
`PlaceIsDistinct`, so by counting all are taken).

**Only model-checked.** Liveness, out of the prover's reach, and that `audit_true_wake_up`,
`code_refused` and `code_long_image` are violated. Every invariant that a passing run checks is proved.

## 6. Not modelled, and why

* Field layouts of frames and text of commands (data); registers other than the
  transceiver's, SPI, clocks, ports (I/O without control of its own).
* `exciter/`: the transmitter of the other device, not in the project file.
* `option/crc.c`: pure functions; `CodeUpdate` takes the check sum of a file for the file.
* `system_param/`: an older parameter store that `Modes.c:12` reads; one page of I/O.
* The boot loader (not in the repository), torn programming of a single word, collisions of the
  check sum.
* Functions that nobody calls: energy detection, clear channel assessment, battery monitor,
  the retrying sends of `rf2xx_send.c`, manual CSMA, `RfSend_Test_Mode`, the band tables of
  `rf2xx_version.c` from 202, deletion and adjustment of relative alarms.
* Negative delays (`main.c:247`), a total of zero pieces (`event_receive_pkt.c:371`): what
  follows is up to the linker, or days away.

## 7. What could follow

1. `TagCard` composed with `PacketPool` and `RtcAlarms` through their abstract specifications,
   so that the loop's view of both is derived instead of stated.
2. The two implementations of `option/crc.c` against a reference definition.
