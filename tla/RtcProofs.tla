------------------------------- MODULE RtcProofs -------------------------------
(***************************************************************************)
(* Proofs about the clock of RtcAlarms, for every period of the counter,   *)
(* every bound of the delays and any number of overflows and events.       *)
(***************************************************************************)
EXTENDS RtcAlarms, TLAPS

-------------------------------------------------------------------------------
(* The inductive invariant.                                                *)

ClockTypes ==
  /\ counter \in 0 .. overflow_value
  /\ long_counter \in Int /\ era \in Int
  /\ rtc_time \in 0 .. overflow_value
  /\ late \in 0 .. Late

\* Interrupts are masked in the critical regions, and there alone; the handler is
\* never in the middle of one.
Region == {"finish", "set", "long"}

Masking ==
  /\ pc \in Region => masked
  /\ pc \notin Region => ~masked
  /\ isr # "off" => ~masked
  /\ caller \in {"idle", "search", "arm"}

\* The flag that is not yet counted stands for the overflow of this tick, or of a
\* few ticks ago: it is counted before the next one.
Counted ==
  /\ long_counter + Overflowed = era + LastTick
  /\ alarm0 => counter = overflow_value \/ counter < late

\* The counter has been set to rtc_time, long_counter not yet.
HalfSet ==
  \/ /\ era = 0 /\ counter \in rtc_time .. rtc_time + late
     /\ alarm0 <=> counter = overflow_value
  \/ /\ era = 1 /\ counter + Period - rtc_time <= late
     /\ alarm0

Counting ==
  "lost" \notin upset =>
    /\ pc # "long" => Counted
    /\ pc = "long" => HalfSet

ClockInv == ClockTypes /\ Masking /\ Counting

-------------------------------------------------------------------------------
LEMMA ClockInvInit == Init => ClockInv
<1> SUFFICES ASSUME Init PROVE ClockInv
  OBVIOUS
<1>1. ClockTypes
  BY ClockAssumption DEF Init, ClockInit, ClockTypes
<1>2. Masking
  BY DEF Init, ClockInit, Masking, Region
<1>3. Counting
  BY ClockAssumption DEF Init, ClockInit, Counting, Counted, Overflowed, LastTick
<1> QED
  BY <1>1, <1>2, <1>3 DEF ClockInv

\* The steps that leave the clock and the critical regions alone.
Quiet ==
  /\ UNCHANGED <<clock, rtc_time, masked, late>>
  /\ "lost" \in upset' <=> "lost" \in upset
  /\ pc \notin Region /\ pc' \notin Region
  /\ isr' # "off" => ~masked
  /\ caller' \in {"idle", "search", "arm"}

LEMMA QuietStep == ASSUME ClockInv, Quiet PROVE ClockInv'
<1>1. ClockTypes'
  BY DEF ClockInv, ClockTypes, Quiet, clock
<1>2. Masking'
  BY DEF ClockInv, Masking, Quiet
<1>3. Counting'
  BY DEF ClockInv, Counting, Quiet, clock, Counted, Overflowed, LastTick, Region
<1> QED
  BY <1>1, <1>2, <1>3 DEF ClockInv

-------------------------------------------------------------------------------
(* The steps that move the clock.                                          *)

LEMMA TickStep == ASSUME ClockInv, Tick PROVE ClockInv'
<1>1. /\ counter \in 0 .. overflow_value /\ era \in Int /\ long_counter \in Int
      /\ rtc_time \in 0 .. overflow_value /\ late \in 0 .. Late
      /\ overflow_value \in Nat /\ Late \in Nat /\ Late < overflow_value
  BY ClockAssumption DEF ClockInv, ClockTypes
<1>2. /\ counter' = IF counter = overflow_value THEN 0 ELSE counter + 1
      /\ era' = IF counter = overflow_value THEN era + 1 ELSE era
      /\ alarm0' <=> (alarm0 \/ counter' = overflow_value)
      /\ UNCHANGED <<long_counter, masked, rtc_time, upset, pc, isr, caller>>
  BY DEF Tick, CounterTicks, control
<1>3. late' \in 0 .. Late
  BY <1>1 DEF Tick
<1>4. (alarm0 \/ pc # "idle") => late' = late + 1
  BY DEF Tick, Busy
<1>5. ClockTypes'
  BY <1>1, <1>2, <1>3 DEF ClockTypes
<1>6. Masking'
  BY <1>2 DEF ClockInv, Masking
<1>7. ASSUME "lost" \notin upset, pc # "long" PROVE Counted'
  <2>1. Counted
    BY <1>7 DEF ClockInv, Counting
  <2>2. CASE alarm0
    <3>1. late' = late + 1
      BY <1>4, <2>2
    <3>2. counter = overflow_value \/ counter < late
      BY <2>1, <2>2 DEF Counted
    <3>3. counter' # overflow_value
      BY <1>1, <1>2, <1>3, <3>1, <3>2
    <3>4. alarm0' /\ counter' < late'
      BY <1>1, <1>2, <2>2, <3>1, <3>2
    <3> QED
      BY <1>1, <1>2, <2>1, <2>2, <3>3, <3>4 DEF Counted, Overflowed, LastTick
  <2>3. CASE ~alarm0
    BY <1>1, <1>2, <2>1, <2>3 DEF Counted, Overflowed, LastTick
  <2> QED
    BY <2>2, <2>3
<1>8. ASSUME "lost" \notin upset, pc = "long" PROVE HalfSet'
  <2>1. HalfSet
    BY <1>8 DEF ClockInv, Counting
  <2>2. late' = late + 1
    BY <1>4, <1>8
  <2> QED
    BY <1>1, <1>2, <1>3, <2>1, <2>2 DEF HalfSet, Period
<1>9. Counting'
  BY <1>2, <1>7, <1>8 DEF Counting
<1> QED
  BY <1>5, <1>6, <1>9 DEF ClockInv

\* A call begins with no overflow pending.
LEMMA NothingPending ==
  ASSUME ClockInv, pc = "idle", ~Interrupt PROVE ~alarm0
  BY DEF ClockInv, Masking, Region, Interrupt

\* get_current_time, by itself, in add_item and in initial_alarm.
LEMMA CaptureStep ==
  ASSUME ClockInv, Capture, UNCHANGED <<upset, isr>>, isr = "off",
         pc \notin Region, pc' = "finish", caller' \in {"idle", "search", "arm"},
         late' \in 0 .. Late, alarm0 => late' = late
  PROVE  ClockInv'
<1>1. /\ UNCHANGED clock /\ rtc_time' = counter /\ masked'
  BY DEF Capture
<1>2. ClockTypes'
  BY <1>1 DEF ClockInv, ClockTypes, clock
<1>3. Masking'
  BY <1>1 DEF Masking, Region
<1>4. pc # "long" /\ pc' # "long"
  BY DEF Region
<1>5. Counting'
  BY <1>1, <1>4 DEF ClockInv, Counting, Counted, Overflowed, LastTick, clock
<1> QED
  BY <1>2, <1>3, <1>5 DEF ClockInv

\* The overflow is counted, by whomever.
LEMMA CountStep ==
  ASSUME ClockInv, CountOverflow, UNCHANGED <<counter, era, late>>, ~masked',
         rtc_time' \in 0 .. overflow_value, "lost" \in upset' <=> "lost" \in upset,
         pc # "long", pc' \notin Region, caller' \in {"idle", "search", "arm"}
  PROVE  ClockInv'
<1>1. long_counter' = long_counter + Overflowed /\ ~alarm0' /\ Overflowed \in Int
  BY DEF CountOverflow, Overflowed
<1>2. ClockTypes'
  BY <1>1 DEF ClockInv, ClockTypes
<1>3. Masking'
  BY DEF Masking
<1>4. Overflowed' = 0 /\ LastTick' = LastTick /\ long_counter \in Int
  BY <1>1 DEF Overflowed, LastTick, ClockInv, ClockTypes
<1>5. pc' # "long"
  BY DEF Region
<1>6. Counting'
  BY <1>1, <1>4, <1>5 DEF ClockInv, Counting, Counted
<1> QED
  BY <1>2, <1>3, <1>6 DEF ClockInv

LEMMA SetCurrentTimeStep ==
  ASSUME ClockInv, set_current_time \/ SetTimer \/ SetLongCounter PROVE ClockInv'
<1>1. CASE set_current_time
  <2>1. /\ UNCHANGED <<clock, upset, caller, isr>> /\ late' = 0
        /\ pc' = "set" /\ masked' /\ rtc_time' \in SetTo /\ isr = "off"
    BY <1>1 DEF set_current_time, Begin, SetBegins
  <2>2. pc = "idle" /\ ~alarm0
    BY <1>1, NothingPending DEF set_current_time, Begin
  <2>3. ClockTypes'
    BY <2>1, ClockAssumption DEF ClockInv, ClockTypes, clock
  <2>4. Masking'
    BY <2>1 DEF ClockInv, Masking, Region
  <2>5. Counting'
    BY <2>1, <2>2 DEF ClockInv, Counting, Counted, Overflowed, LastTick, clock
  <2> QED
    BY <2>3, <2>4, <2>5 DEF ClockInv
<1>2. CASE SetTimer
  <2>1. /\ pc = "set" /\ pc' = "long" /\ isr = "off"
        /\ UNCHANGED <<isr, late, long_counter, masked, rtc_time, caller>>
        /\ counter' = rtc_time /\ era' = 0
        /\ alarm0' <=> (alarm0 \/ rtc_time = overflow_value)
    BY <1>2 DEF SetTimer, Step, SetCounter
  <2>2. "lost" \notin upset' => ~alarm0
    BY <1>2 DEF SetTimer
  <2>3. ClockTypes'
    BY <2>1 DEF ClockInv, ClockTypes
  <2>4. Masking'
    BY <2>1 DEF ClockInv, Masking, Region
  <2>5. Counting'
    BY <2>1, <2>2, <2>3 DEF Counting, HalfSet, ClockTypes
  <2> QED
    BY <2>3, <2>4, <2>5 DEF ClockInv
<1>3. CASE SetLongCounter
  <2>1. /\ pc = "long" /\ pc' = "idle" /\ isr = "off"
        /\ UNCHANGED <<isr, late, counter, era, upset, caller>>
        /\ long_counter' = IF rtc_time = overflow_value THEN 1 ELSE 0
        /\ alarm0' <=> (alarm0 /\ rtc_time # overflow_value)
        /\ ~masked' /\ rtc_time' = 0
    BY <1>3 DEF SetLongCounter, Step, SetLong
  <2>2. /\ counter \in 0 .. overflow_value /\ late \in 0 .. Late
        /\ rtc_time \in 0 .. overflow_value
        /\ overflow_value \in Nat /\ Late \in Nat /\ Late < overflow_value
    BY ClockAssumption DEF ClockInv, ClockTypes
  <2>3. ClockTypes'
    BY <2>1, <2>2 DEF ClockInv, ClockTypes
  <2>4. Masking'
    BY <2>1 DEF ClockInv, Masking, Region
  <2>5. ASSUME "lost" \notin upset PROVE Counted'
    <3>1. HalfSet
      BY <2>1, <2>5 DEF ClockInv, Counting
    <3>2. CASE rtc_time = overflow_value
      BY <2>1, <2>2, <3>1, <3>2 DEF HalfSet, Period, Counted, Overflowed, LastTick
    <3>3. CASE rtc_time # overflow_value
      BY <2>1, <2>2, <3>1, <3>3 DEF HalfSet, Period, Counted, Overflowed, LastTick
    <3> QED
      BY <3>2, <3>3
  <2>6. Counting'
    BY <2>1, <2>5 DEF Counting
  <2> QED
    BY <2>3, <2>4, <2>6 DEF ClockInv
<1> QED
  BY <1>1, <1>2, <1>3

LEMMA SleepStep == ASSUME ClockInv, pmu_enter_sleep PROVE ClockInv'
<1>1. /\ UNCHANGED <<pc, isr, caller, masked, late, rtc_time, counter, long_counter, era>>
      /\ ~alarm0' /\ upset' = IF alarm0 THEN upset \cup {"lost"} ELSE upset
      /\ pc = "idle"
  BY DEF pmu_enter_sleep, ClearOverflow, control
<1>2. ClockTypes'
  BY <1>1 DEF ClockInv, ClockTypes
<1>3. Masking'
  BY <1>1 DEF ClockInv, Masking
<1>4. Counting'
  BY <1>1 DEF ClockInv, Counting, Counted, Overflowed, LastTick
<1> QED
  BY <1>2, <1>3, <1>4 DEF ClockInv

LEMMA ReadStep ==
  ASSUME ClockInv, get_current_time \/ rtc_alarm_relative_add_item \/ Rearm \/ Finish
  PROVE  ClockInv'
<1>1. Late \in Nat /\ overflow_value \in Nat /\ late \in 0 .. Late
  BY ClockAssumption DEF ClockInv, ClockTypes
<1>2. CASE get_current_time
  BY <1>1, <1>2, CaptureStep, NothingPending DEF get_current_time, Begin, Region
<1>3. CASE rtc_alarm_relative_add_item
  BY <1>1, <1>3, CaptureStep, NothingPending DEF rtc_alarm_relative_add_item, Begin, Region
<1>4. CASE Rearm
  BY <1>1, <1>4, CaptureStep DEF Rearm, Step, Region
<1>5. CASE Finish
  <2>1. /\ CountOverflow /\ UNCHANGED <<counter, era, late>> /\ ~masked'
        /\ rtc_time' = 0 /\ caller' = "idle" /\ pc = "finish" /\ pc' = caller
    BY <1>5 DEF Finish, Step, FinishRead
  <2>2. "lost" \in upset' <=> "lost" \in upset
    BY <1>5 DEF Finish, FinishRead
  <2>3. pc' \notin Region /\ pc # "long"
    BY <2>1 DEF ClockInv, Masking, Region
  <2>4. rtc_time' \in 0 .. overflow_value
    BY <1>1, <2>1
  <2> QED
    BY <2>1, <2>2, <2>3, <2>4, CountStep
<1> QED
  BY <1>2, <1>3, <1>4, <1>5

LEMMA HandlerStep ==
  ASSUME ClockInv, RTC0ALRM_IRQHandler \/ ArmAgain PROVE ClockInv'
<1>1. CountOverflow /\ UNCHANGED <<counter, era, late, rtc_time, masked, pc, caller>>
  BY DEF RTC0ALRM_IRQHandler, ArmAgain
<1>2. ~masked
  BY DEF RTC0ALRM_IRQHandler, ArmAgain, Interrupt, ClockInv, Masking
<1>3. pc' \notin Region /\ pc # "long"
  BY <1>1, <1>2 DEF ClockInv, Masking, Region
<1>4. "lost" \in upset' <=> "lost" \in upset
  <2>1. CASE RTC0ALRM_IRQHandler
    <3>1. CASE alarm2 /\ enabled2
      <4>1. PICK t : rtc_alarm_relative_handle_timeout_item(t)
        BY <2>1, <3>1 DEF RTC0ALRM_IRQHandler
      <4> QED
        BY <4>1 DEF rtc_alarm_relative_handle_timeout_item
    <3>2. CASE ~(alarm2 /\ enabled2)
      BY <2>1, <3>2 DEF RTC0ALRM_IRQHandler
    <3> QED
      BY <3>1, <3>2
  <2>2. CASE ArmAgain
    BY <2>2 DEF ArmAgain, MissedIf
  <2> QED
    BY <2>1, <2>2
<1>5. rtc_time' \in 0 .. overflow_value /\ caller' \in {"idle", "search", "arm"}
  BY <1>1 DEF ClockInv, ClockTypes, Masking
<1> QED
  BY <1>1, <1>2, <1>3, <1>4, <1>5, CountStep

\* The steps of add_item between the two times it reads the clock.
Editing ==
  Search \/ Unlink \/ rtc_alarm_relative_malloc \/ ThroughNull \/ Walk \/ Link \/ Arm \/ Enable

LEMMA EditingIsQuiet == ASSUME ClockInv, Editing PROVE Quiet
<1>1. /\ UNCHANGED <<clock, rtc_time, masked, isr, late, caller>>
      /\ "lost" \in upset' <=> "lost" \in upset
      /\ pc \notin Region /\ pc' \notin Region
  <2>1. CASE Search
    BY <2>1 DEF Search, Step, Region
  <2>2. CASE Unlink
    BY <2>2 DEF Unlink, Step, Region
  <2>3. CASE rtc_alarm_relative_malloc
    BY <2>3 DEF rtc_alarm_relative_malloc, Step, Region
  <2>4. CASE ThroughNull
    BY <2>4 DEF ThroughNull, Step, Region
  <2>5. CASE Walk
    BY <2>5 DEF Walk, Step, Region
  <2>6. CASE Link
    BY <2>6 DEF Link, Step, Region
  <2>7. CASE Arm
    BY <2>7 DEF Arm, Step, Region
  <2>8. CASE Enable
    BY <2>8 DEF Enable, Step, Region, MissedIf
  <2> QED
    BY <2>1, <2>2, <2>3, <2>4, <2>5, <2>6, <2>7, <2>8 DEF Editing
<1>2. isr' # "off" => ~masked
  BY <1>1 DEF ClockInv, Masking
<1>3. caller' \in {"idle", "search", "arm"}
  BY <1>1 DEF ClockInv, Masking
<1> QED
  BY <1>1, <1>2, <1>3 DEF Quiet

LEMMA ClockInvStep == ASSUME ClockInv, [Next]_vars PROVE ClockInv'
<1>1. CASE Tick
  BY <1>1, TickStep
<1>2. CASE get_current_time \/ rtc_alarm_relative_add_item \/ Rearm \/ Finish
  BY <1>2, ReadStep
<1>3. CASE set_current_time \/ SetTimer \/ SetLongCounter
  BY <1>3, SetCurrentTimeStep
<1>4. CASE pmu_enter_sleep
  BY <1>4, SleepStep
<1>5. CASE Editing
  BY <1>5, EditingIsQuiet, QuietStep
<1>6. CASE RTC0ALRM_IRQHandler \/ ArmAgain
  BY <1>6, HandlerStep
<1>7. CASE UNCHANGED vars
  <2>1. UNCHANGED <<counter, alarm0, long_counter, era, rtc_time, masked, late, upset,
                    pc, caller, isr>>
    BY <1>7 DEF vars, clock, control
  <2>2. ClockTypes'
    BY <2>1 DEF ClockInv, ClockTypes
  <2>3. Masking'
    BY <2>1 DEF ClockInv, Masking
  <2>4. Counting'
    BY <2>1 DEF ClockInv, Counting, Counted, HalfSet, Overflowed, LastTick
  <2> QED
    BY <2>2, <2>3, <2>4 DEF ClockInv
<1> QED
  BY <1>1, <1>2, <1>3, <1>4, <1>5, <1>6, <1>7 DEF Next, Editing

THEOREM ClockInvariant == Spec => []ClockInv
<1>1. Init => ClockInv
  BY ClockInvInit
<1>2. ClockInv /\ [Next]_vars => ClockInv'
  BY ClockInvStep
<1> QED
  BY <1>1, <1>2, PTL DEF Spec

\* Every overflow is counted exactly once, by the handler or by get_current_time
\* (RTC0.c:159-164, 503-508), unless the sleep or setting the clock lost one.
THEOREM EveryOverflowIsCounted == Spec => []OverflowsCounted
<1>1. ClockInv => OverflowsCounted
  BY DEF ClockInv, Counting, Counted, OverflowsCounted
<1> QED
  BY <1>1, ClockInvariant, PTL

-------------------------------------------------------------------------------
(* The time that get_current_time returns.                                 *)

\* rtc_time has been captured, alarm 0 not yet tested: how far the counter has got
\* since, and whether that the overflow is pending tells on which side of it.
Captured ==
  IF rtc_time = overflow_value
  THEN ~alarm0 /\ (counter = overflow_value \/ counter < late)
  ELSE \/ /\ counter \in rtc_time .. rtc_time + late
          /\ alarm0 <=> counter = overflow_value
       \/ /\ counter + Period - rtc_time <= late
          /\ alarm0

Undisturbed == upset \cap {"lost", "jumped"} = {}

Reading ==
  /\ pc = "finish" /\ "lost" \notin upset => Captured
  /\ pc \in {"search", "arm"} /\ Undisturbed =>
       current_time \in Now - late .. Now + 1

TimeInv == ClockInv /\ Reading

LEMMA Distributes == \A e, p \in Int : (e + 1) * p = e * p + p /\ e * p \in Int
  OBVIOUS

LEMMA NowTicks ==
  ASSUME ClockTypes, CounterTicks PROVE Now \in Int /\ Now' = Now + 1
<1>1. era \in Int /\ counter \in 0 .. overflow_value /\ overflow_value \in Nat
  BY ClockAssumption DEF ClockTypes
<1>2. era * Period \in Int /\ (era + 1) * Period = era * Period + Period
  BY <1>1, Distributes DEF Period
<1>3. CASE counter = overflow_value
  <2>1. counter' = 0 /\ era' = era + 1
    BY <1>3 DEF CounterTicks
  <2>2. Now' = (era + 1) * Period
    BY <1>1, <1>2, <2>1 DEF Now, Period
  <2> QED
    BY <1>1, <1>2, <1>3, <2>2 DEF Now, Period
<1>4. CASE counter # overflow_value
  <2>1. counter' = counter + 1 /\ era' = era
    BY <1>4 DEF CounterTicks
  <2>2. Now' = era * Period + (counter + 1)
    BY <2>1 DEF Now, Period
  <2> QED
    BY <1>1, <1>2, <2>2 DEF Now
<1> QED
  BY <1>3, <1>4

LEMMA ReadingTick == ASSUME TimeInv, Tick PROVE Reading'
<1>1. /\ counter \in 0 .. overflow_value /\ rtc_time \in 0 .. overflow_value
      /\ late \in 0 .. Late /\ overflow_value \in Nat
      /\ Late \in Nat /\ Late < overflow_value
  BY ClockAssumption DEF TimeInv, ClockInv, ClockTypes
<1>2. /\ counter' = IF counter = overflow_value THEN 0 ELSE counter + 1
      /\ alarm0' <=> (alarm0 \/ counter' = overflow_value)
      /\ UNCHANGED <<rtc_time, upset, pc, current_time>>
  BY DEF Tick, CounterTicks, control, call, arguments
<1>3. pc # "idle" => late' = late + 1 /\ late' <= Late
  BY <1>1 DEF Tick, Busy
<1>4. Now \in Int /\ Now' = Now + 1
  BY NowTicks DEF TimeInv, ClockInv, Tick
<1>5. ASSUME pc = "finish", "lost" \notin upset PROVE Captured'
  <2>1. Captured /\ late' = late + 1 /\ late' <= Late
    BY <1>3, <1>5 DEF TimeInv, Reading
  <2>2. CASE rtc_time = overflow_value
    BY <1>1, <1>2, <2>1, <2>2 DEF Captured
  <2>3. CASE rtc_time # overflow_value
    BY <1>1, <1>2, <2>1, <2>3 DEF Captured, Period
  <2> QED
    BY <2>2, <2>3
<1>6. ASSUME pc \in {"search", "arm"}, Undisturbed
      PROVE  current_time' \in Now' - late' .. Now' + 1
  <2>1. current_time \in Now - late .. Now + 1 /\ late' = late + 1
    BY <1>3, <1>6 DEF TimeInv, Reading
  <2> QED
    BY <1>1, <1>2, <1>4, <2>1
<1> QED
  BY <1>2, <1>5, <1>6 DEF Reading, Undisturbed

\* What is returned, when it is not a whole period ahead.
LEMMA TimeReadIsRight ==
  ASSUME TimeInv, pc = "finish", "lost" \notin upset, ~Jumps(rtc_time, alarm0)
  PROVE  TimeRead(rtc_time) \in Now - late .. Now + 1
<1>1. /\ counter \in 0 .. overflow_value /\ rtc_time \in 0 .. overflow_value
      /\ late \in 0 .. Late /\ overflow_value \in Nat /\ era \in Int
      /\ Late \in Nat /\ Late < overflow_value
  BY ClockAssumption DEF TimeInv, ClockInv, ClockTypes
<1>2. Captured /\ Counted
  BY DEF TimeInv, Reading, ClockInv, Counting
<1>3. rtc_time # overflow_value
  BY <1>2 DEF Captured, Jumps
<1>4. era * Period \in Int /\ (era + 1) * Period = era * Period + Period
      /\ Period = overflow_value + 1
  BY <1>1, Distributes DEF Period
<1>5. TimeRead(rtc_time) = (era + LastTick) * Period + (IF alarm0 THEN 0 ELSE rtc_time)
  BY <1>2 DEF Counted, TimeRead
<1>6. CASE ~alarm0
  <2>1. counter \in rtc_time .. rtc_time + late /\ counter # overflow_value
    BY <1>2, <1>3, <1>6 DEF Captured
  <2>2. TimeRead(rtc_time) = era * Period + rtc_time
    BY <1>1, <1>5, <1>6, <2>1 DEF LastTick
  <2> QED
    BY <1>1, <1>4, <2>1, <2>2 DEF Now
<1>7. CASE alarm0 /\ counter = overflow_value
  <2>1. TimeRead(rtc_time) = (era + 1) * Period + 0
    BY <1>5, <1>7 DEF LastTick
  <2> QED
    BY <1>1, <1>4, <1>7, <2>1 DEF Now
<1>8. CASE alarm0 /\ counter # overflow_value
  <2>1. counter + Period - rtc_time <= late
    BY <1>2, <1>3, <1>8 DEF Captured
  <2>2. TimeRead(rtc_time) = era * Period + 0
    BY <1>1, <1>5, <1>8 DEF LastTick
  <2>3. counter <= late
    BY <1>1, <1>4, <2>1
  <2> QED
    BY <1>1, <1>4, <2>2, <2>3 DEF Now
<1> QED
  BY <1>6, <1>7, <1>8

LEMMA ReadingRead ==
  ASSUME TimeInv, get_current_time \/ rtc_alarm_relative_add_item \/ Rearm \/ Finish
  PROVE  Reading'
<1>1. /\ counter \in 0 .. overflow_value /\ late \in 0 .. Late /\ overflow_value \in Nat
      /\ Late \in Nat
  BY ClockAssumption DEF TimeInv, ClockInv, ClockTypes
<1>2. ASSUME get_current_time \/ rtc_alarm_relative_add_item \/ Rearm PROVE Reading'
  <2>0. late' \in 0 .. Late
    BY <1>1, <1>2 DEF get_current_time, rtc_alarm_relative_add_item, Rearm, Begin, Step
  <2>1. pc' = "finish" /\ UNCHANGED <<clock, upset>> /\ rtc_time' = counter
    BY <1>2 DEF get_current_time, rtc_alarm_relative_add_item, Rearm, Begin, Step, Capture
  <2>2. ~alarm0
    <3>1. CASE get_current_time \/ rtc_alarm_relative_add_item
      BY <3>1, NothingPending DEF TimeInv, get_current_time, rtc_alarm_relative_add_item, Begin
    <3>2. CASE Rearm
      BY <3>2 DEF TimeInv, ClockInv, Masking, Region, Rearm, Step, Interrupt
    <3> QED
      BY <1>2, <3>1, <3>2
  <2>3. Captured'
    <3>1. ~alarm0' /\ counter' = counter
      BY <2>1, <2>2 DEF clock
    <3>2. counter \in counter .. counter + late'
      <4>1. counter \in Nat /\ late' \in Nat
        BY <1>1, <2>0
      <4>2. \A c, d \in Nat : c \in c .. c + d
        OBVIOUS
      <4> QED
        BY <4>1, <4>2
    <3> QED
      BY <2>1, <3>1, <3>2 DEF Captured
  <2> QED
    BY <2>1, <2>3 DEF Reading
<1>3. CASE Finish
  <2>1. /\ pc = "finish" /\ pc' = caller /\ UNCHANGED <<counter, era, late>>
        /\ current_time' = IF caller = "idle" THEN 0 ELSE TimeRead(rtc_time)
        /\ upset' = IF Jumps(rtc_time, alarm0) THEN upset \cup {"jumped"} ELSE upset
    BY <1>3 DEF Finish, Step, FinishRead
  <2>2. pc' # "finish"
    BY <2>1 DEF TimeInv, ClockInv, Masking
  <2>3. ASSUME pc' \in {"search", "arm"}, Undisturbed'
        PROVE  current_time' \in Now' - late' .. Now' + 1
    <3>1. ~Jumps(rtc_time, alarm0) /\ "lost" \notin upset
      BY <2>1, <2>3 DEF Undisturbed
    <3>2. TimeRead(rtc_time) \in Now - late .. Now + 1
      BY <2>1, <3>1, TimeReadIsRight
    <3>3. Now' = Now /\ late' = late
      BY <2>1 DEF Now, Period
    <3> QED
      BY <2>1, <2>3, <3>2, <3>3
  <2> QED
    BY <2>2, <2>3 DEF Reading
<1> QED
  BY <1>2, <1>3

\* Steps that leave counter, program and what it has read alone.
LEMMA ReadingKept ==
  ASSUME TimeInv, UNCHANGED <<counter, era, late, rtc_time, current_time>>,
         upset \subseteq upset', pc' # "finish" \/ (pc = "finish" /\ UNCHANGED alarm0),
         pc' \in {"search", "arm"} => pc' = pc
  PROVE  Reading'
<1>1. Now' = Now
  BY DEF Now, Period
<1>2. Undisturbed' => Undisturbed
  BY DEF Undisturbed
<1>3. pc' = "finish" /\ "lost" \notin upset' => Captured'
  BY DEF TimeInv, Reading, Captured
<1>4. pc' \in {"search", "arm"} /\ Undisturbed' => current_time' \in Now' - late' .. Now' + 1
  BY <1>1, <1>2 DEF TimeInv, Reading
<1> QED
  BY <1>3, <1>4 DEF Reading

LEMMA ReadingOther ==
  ASSUME TimeInv, \/ set_current_time \/ SetTimer \/ SetLongCounter \/ pmu_enter_sleep
                  \/ Editing
  PROVE  Reading'
<1>1. pc' \notin {"finish", "search", "arm"}
  <2>1. CASE set_current_time \/ SetTimer \/ SetLongCounter \/ pmu_enter_sleep
    BY <2>1 DEF set_current_time, SetTimer, SetLongCounter, pmu_enter_sleep, Begin, Step, control
  <2>2. CASE Editing
    BY <2>2 DEF Editing, Search, Unlink, rtc_alarm_relative_malloc, ThroughNull, Walk, Link,
                Arm, Enable, Step
  <2> QED
    BY <2>1, <2>2
<1> QED
  BY <1>1 DEF Reading

LEMMA ReadingHandler ==
  ASSUME TimeInv, RTC0ALRM_IRQHandler \/ ArmAgain PROVE Reading'
<1>1. UNCHANGED <<counter, era, late, rtc_time, pc, current_time>>
  BY DEF RTC0ALRM_IRQHandler, ArmAgain, call, arguments
<1>2. pc # "finish"
  BY DEF RTC0ALRM_IRQHandler, ArmAgain, Interrupt, TimeInv, ClockInv, Masking, Region
<1>3. upset \subseteq upset'
  <2>1. CASE RTC0ALRM_IRQHandler
    BY <2>1 DEF RTC0ALRM_IRQHandler, rtc_alarm_relative_handle_timeout_item
  <2>2. CASE ArmAgain
    BY <2>2 DEF ArmAgain, MissedIf
  <2> QED
    BY <2>1, <2>2
<1> QED
  BY <1>1, <1>2, <1>3, ReadingKept

LEMMA TimeInvInit == Init => TimeInv
BY ClockInvInit DEF TimeInv, Init, Reading

LEMMA TimeInvStep == ASSUME TimeInv, [Next]_vars PROVE TimeInv'
<1>1. ClockInv'
  BY ClockInvStep DEF TimeInv
<1>2. CASE Tick
  BY <1>1, <1>2, ReadingTick DEF TimeInv
<1>3. CASE get_current_time \/ rtc_alarm_relative_add_item \/ Rearm \/ Finish
  BY <1>1, <1>3, ReadingRead DEF TimeInv
<1>4. CASE \/ set_current_time \/ SetTimer \/ SetLongCounter \/ pmu_enter_sleep
           \/ Editing
  BY <1>1, <1>4, ReadingOther DEF TimeInv
<1>5. CASE RTC0ALRM_IRQHandler \/ ArmAgain
  BY <1>1, <1>5, ReadingHandler DEF TimeInv
<1>6. CASE UNCHANGED vars
  <2>1. UNCHANGED <<counter, era, late, rtc_time, current_time, upset, pc, alarm0>>
    BY <1>6 DEF vars, clock, control, call, arguments
  <2> QED
    BY <1>1, <2>1, ReadingKept DEF TimeInv
<1> QED
  BY <1>2, <1>3, <1>4, <1>5, <1>6 DEF Next, Editing

\* The time that is read is at most one tick ahead of the clock, and no more ticks
\* behind than the call has taken (RTC0.c:152-168), but in the tick in which it is
\* a whole period ahead.
THEOREM TimeReadRight == Spec => []TimeIsRight
<1>1. Init => TimeInv
  BY TimeInvInit
<1>2. TimeInv /\ [Next]_vars => TimeInv'
  BY TimeInvStep
<1>3. TimeInv => TimeIsRight
  <2> SUFFICES ASSUME TimeInv, pc \in {"search", "arm"}, Undisturbed
               PROVE  current_time - Now \in - Late .. 1
    BY DEF TimeIsRight, Undisturbed
  <2>1. current_time \in Now - late .. Now + 1 /\ late \in 0 .. Late
    BY DEF TimeInv, Reading, ClockInv, ClockTypes
  <2>2. Now \in Int /\ Late \in Nat
    BY Distributes, ClockAssumption DEF Now, Period, TimeInv, ClockInv, ClockTypes
  <2> QED
    BY <2>1, <2>2
<1> QED
  BY <1>1, <1>2, <1>3, PTL DEF Spec
===============================================================================
