------------------------------- MODULE RtcClock -------------------------------
(***************************************************************************)
(* The real time clock (arch/RTC0.c): a counter of 32768 Hz extended by    *)
(* long_counter, which is incremented when the counter reaches its last    *)
(* value.  That happens in the interrupt handler, or in get_current_time   *)
(* when it finds the interrupt pending.                                    *)
(*                                                                         *)
(* The counter moves by itself, between any two steps of the processor.    *)
(* The unit is one tick of the counter; times are counted from the last    *)
(* time the clock was set, or from the start.                              *)
(***************************************************************************)
EXTENDS Integers

CONSTANTS
  overflow_value, \* the last value of the counter
  Late,           \* ticks that an operation or a pending interrupt takes at most
  MaxEra,         \* bound on the overflows that are explored
  SetTo           \* times the clock is set to

Period == overflow_value + 1

ASSUME ClockAssumption ==
  /\ overflow_value \in Nat /\ Late \in Nat /\ MaxEra \in Nat
  /\ Late < overflow_value
  /\ SetTo \subseteq 0 .. overflow_value

VARIABLES
  counter, alarm0,      \* the counter; alarm 0 is pending
  long_counter,
  masked,               \* PRIMASK
  rtc_time,             \* captured by get_current_time; the time to be set
  late,                 \* ticks since the operation began
  era, upset            \* observers: see below

\* era: overflows of the counter.  upset: mishaps that have happened,
Mishap == {"lost",   \* an overflow was cleared, or the clock was set over one
           "jumped", \* the time was read in the last tick of a period, after the
                     \* overflow was counted: it is a whole period ahead
           "moved",  \* the clock was set while relative alarms were waiting
           "raced",  \* the handler changed the list of alarms under add_item
           "missed"} \* an alarm was set to a time that was past already

clock == <<counter, alarm0, long_counter, era>>

Now == era * Period + counter

Overflowed == IF alarm0 THEN 1 ELSE 0
LastTick == IF counter = overflow_value THEN 1 ELSE 0

ClockInit ==
  /\ counter = 0 /\ alarm0 = FALSE /\ long_counter = 0
  /\ masked = FALSE
  /\ rtc_time = 0
  /\ late = 0
  /\ era = 0 /\ upset = {}

(***************************************************************************)
(* The hardware: alarm 0 matches when the counter reaches overflow_value. *)
(***************************************************************************)
CounterTicks ==
  /\ counter < overflow_value \/ era < MaxEra
  /\ counter' = IF counter = overflow_value THEN 0 ELSE counter + 1
  /\ era' = IF counter = overflow_value THEN era + 1 ELSE era
  /\ alarm0' = (alarm0 \/ counter' = overflow_value)
  /\ UNCHANGED <<long_counter, masked, rtc_time, upset>>

(***************************************************************************)
(* The processor.                                                          *)
(***************************************************************************)
Capture ==
  /\ masked' = TRUE
  /\ rtc_time' = counter
  /\ UNCHANGED clock

\* Bug: an overflow found pending is counted and left to the handler as well.
CountOverflow_KeepsFlag ==
  /\ long_counter' = long_counter + Overflowed
  /\ UNCHANGED alarm0

CountOverflow ==
  /\ long_counter' = long_counter + Overflowed
  /\ alarm0' = FALSE

\* Bug: the value captured before the overflow is kept.
TimeRead_KeepsCapture(c) == (long_counter + Overflowed) * Period + c

TimeRead(c) ==
  (long_counter + Overflowed) * Period + (IF alarm0 THEN 0 ELSE c)

Jumps(c, pending) == c = overflow_value /\ ~pending

\* LEAVE_CRITICAL_REGION enables interrupts whatever they were before.
FinishRead ==
  /\ CountOverflow
  /\ upset' = IF Jumps(rtc_time, alarm0) THEN upset \cup {"jumped"} ELSE upset
  /\ masked' = FALSE /\ rtc_time' = 0
  /\ UNCHANGED <<counter, era>>

\* set_current_time: interrupts are masked, the counter is set, long_counter is
\* set.  Setting the counter to its last value matches alarm 0.
SetBegins ==
  /\ masked' = TRUE
  /\ rtc_time' \in SetTo
  /\ UNCHANGED <<clock, upset>>

SetCounter ==
  /\ counter' = rtc_time /\ era' = 0
  /\ alarm0' = (alarm0 \/ rtc_time = overflow_value)
  /\ UNCHANGED <<long_counter, masked, rtc_time>>

SetLong ==
  /\ long_counter' = IF rtc_time = overflow_value THEN 1 ELSE 0
  /\ alarm0' = (alarm0 /\ rtc_time # overflow_value)
  /\ masked' = FALSE /\ rtc_time' = 0
  /\ UNCHANGED <<counter, era>>

\* pmu_enter_sleep clears the flag of alarm 0.
ClearOverflow ==
  /\ alarm0' = FALSE
  /\ upset' = IF alarm0 THEN upset \cup {"lost"} ELSE upset
  /\ UNCHANGED <<counter, long_counter, era>>

-------------------------------------------------------------------------------
(***************************************************************************)
(* Properties.                                                             *)
(***************************************************************************)
ClockTypeOK ==
  /\ counter \in 0 .. overflow_value /\ alarm0 \in BOOLEAN
  /\ long_counter \in 0 .. MaxEra + 2 /\ era \in 0 .. MaxEra
  /\ masked \in BOOLEAN /\ rtc_time \in 0 .. overflow_value
  /\ late \in 0 .. Late
  /\ upset \subseteq Mishap
===============================================================================
