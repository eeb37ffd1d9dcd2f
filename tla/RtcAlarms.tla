------------------------------- MODULE RtcAlarms -------------------------------
(***************************************************************************)
(* Relative alarms (arch/rtc_alarm_relative.c) on the real time clock: a   *)
(* list of events ordered by their time, the first of which is written to  *)
(* alarm 2.  rtc_alarm_relative_init has been called.                      *)
(*                                                                         *)
(* The list is shared with the interrupt handler.  add_item masks          *)
(* interrupts, but the get_current_time it calls enables them again, so    *)
(* that the handler may come between any two of its later steps.  A        *)
(* pointer to an item is the item's event; ListHead is the head of the list.   *)
(***************************************************************************)
EXTENDS RtcClock, Sequences, SequencesExt, FiniteSets

CONSTANTS
  Event,   \* addresses of the flags that alarms set
  Delay,   \* delays asked for
  TableLen \* RTC_ALARM_RELATIVE_TABLE_LEN

ListHead == "head"
NoEvent == "none"
NoItem == [ev |-> NoEvent, at |-> 0, pending |-> FALSE]

\* main.c passes one event, &time_waking; the table has five entries.  A delay
\* is at most one period of the counter (36 hours).
ASSUME AlarmAssumption ==
  /\ Delay \subseteq 1 .. overflow_value
  /\ IsFiniteSet(Event) /\ TableLen \in Nat /\ Cardinality(Event) <= TableLen
  /\ ListHead \notin Event /\ NoEvent \notin Event

VARIABLES
  list,                     \* the items linked from the head
  used,                     \* entries of rtc_alarm_relative_map that are 1
  alarm2, enabled2, value2, \* alarm 2: pending, enabled, its register
  pc, caller,               \* of the program; where get_current_time returns
  isr,                      \* step of the interrupt handler
  asked, delay, current_time, \* arguments of add_item, and the time it read
  p_item, p_temp,           \* its pointers; p_temp is the item itself
  due, left, early          \* observers: see below

\* due: for each event, when it is to be signalled (0: not asked for, or done);
\* left: items that were moved and whose pending_flag is from their old place;
\* early: another one was signalled before it was due.
queue == <<list, used>>
match == <<alarm2, enabled2, value2>>
control == <<pc, caller, isr>>
arguments == <<asked, delay, current_time>>
call == <<arguments, p_item, p_temp>>
observed == <<due, left, early>>
vars == <<clock, rtc_time, masked, late, upset, queue, match, control, call, observed>>

Init ==
  /\ ClockInit
  /\ list = <<>> /\ used = 0
  /\ alarm2 = FALSE /\ enabled2 = FALSE /\ value2 = 0
  /\ pc = "idle" /\ caller = "idle" /\ isr = "off"
  /\ asked = NoEvent /\ delay = 0 /\ current_time = 0
  /\ p_item = ListHead /\ p_temp = NoItem
  /\ due = [e \in Event |-> 0] /\ left = {} /\ early = FALSE

(***************************************************************************)
(* Time.  An operation and the interrupts that wait for it or for the      *)
(* handler are done within Late ticks.                                     *)
(***************************************************************************)
Interrupt == (alarm0 \/ (alarm2 /\ enabled2)) /\ ~masked
Busy == pc # "idle" \/ isr # "off" \/ alarm0 \/ (alarm2 /\ enabled2)

Tick ==
  /\ CounterTicks
  /\ IF Busy THEN late < Late /\ late' = late + 1 ELSE late' = 0
  /\ alarm2' = (alarm2 \/ (enabled2 /\ counter' = value2))
  /\ UNCHANGED <<queue, enabled2, value2, control, call, observed>>

(***************************************************************************)
(* The list.                                                               *)
(***************************************************************************)
Place(e) == IF e = ListHead THEN 0 ELSE SelectInSeq(list, LAMBDA x : x.ev = e)
Linked(e) == e = ListHead \/ Place(e) > 0
Before(i) == IF i = 1 THEN ListHead ELSE list[i - 1].ev

\* Bug: an item is put before those that are due earlier.
NotBefore_Reversed(t, x) == t >= x.at

NotBefore(t, x) == t <= x.at

\* The item after which one due at t is to be linked.
InsertAfter(t) ==
  LET i == SelectInSeq(list, LAMBDA x : NotBefore(t, x))
  IN  IF i > 0 THEN Before(i)
      ELSE IF list = <<>> THEN ListHead ELSE Last(list).ev

\* Bug: the alarm's register is written only when the alarm was disabled.
rtc_alarm_relative_enable_Once(t) ==
  /\ value2' = IF enabled2 THEN value2 ELSE t % Period
  /\ alarm2' = (alarm2 /\ enabled2)
  /\ enabled2' = TRUE

rtc_alarm_relative_enable(t) ==
  /\ value2' = t % Period
  /\ alarm2' = (alarm2 /\ enabled2)
  /\ enabled2' = TRUE

\* Bug: the flag of an item that is not due with the first is not cleared.
SetPending_KeepsOld ==
  /\ list' = [i \in DOMAIN list |->
                [list[i] EXCEPT !.pending = (@ \/ list[i].at = list[1].at)]]
  /\ left' = {}

\* initial_alarm: pending are the items that are due with the first.
SetPending ==
  /\ list' = [i \in DOMAIN list |->
                [list[i] EXCEPT !.pending = (list[i].at = list[1].at)]]
  /\ left' = {}

MissedIf(t) == IF t <= Now THEN upset \cup {"missed"} ELSE upset

(***************************************************************************)
(* The program: get_current_time, set_current_time, the sleep, add_item.   *)
(***************************************************************************)
Step(from, to) ==
  /\ pc = from /\ pc' = to
  /\ isr = "off" /\ ~Interrupt
  /\ UNCHANGED <<isr, late>>

Begin(to) ==
  /\ pc = "idle" /\ pc' = to
  /\ isr = "off" /\ ~Interrupt
  /\ late' = 0
  /\ UNCHANGED isr

get_current_time ==
  /\ Begin("finish") /\ caller' = "idle"
  /\ Capture
  /\ UNCHANGED <<upset, queue, match, call, observed>>

Finish ==
  /\ Step("finish", caller)
  /\ FinishRead
  /\ caller' = "idle"
  /\ current_time' = IF caller = "idle" THEN 0 ELSE TimeRead(rtc_time)
  /\ UNCHANGED <<queue, match, asked, delay, p_item, p_temp, observed>>

set_current_time ==
  /\ Begin("set")
  /\ SetBegins
  /\ UNCHANGED <<queue, match, caller, call, observed>>

SetTimer ==
  /\ Step("set", "long")
  /\ SetCounter
  /\ upset' = upset \cup (IF list # <<>> THEN {"moved"} ELSE {})
                    \cup (IF alarm0 THEN {"lost"} ELSE {})
  /\ UNCHANGED <<queue, match, caller, call, observed>>

SetLongCounter ==
  /\ Step("long", "idle")
  /\ SetLong
  /\ UNCHANGED <<upset, queue, match, caller, call, observed>>

\* Interrupts are enabled, but one that comes in the instant in which its flag is
\* cleared is not taken any more.
pmu_enter_sleep ==
  /\ pc = "idle" /\ isr = "off"
  /\ ClearOverflow
  /\ UNCHANGED <<control, masked, late, rtc_time, queue, match, call, observed>>

rtc_alarm_relative_add_item ==
  /\ Begin("finish") /\ caller' = "search"
  /\ asked' \in Event /\ delay' \in Delay
  /\ Capture
  /\ UNCHANGED <<upset, queue, match, current_time, p_item, p_temp, observed>>

set_time == current_time + delay
Done == asked' = NoEvent /\ delay' = 0 /\ current_time' = 0

Search ==
  /\ Step("search", IF Place(asked) > 0 THEN "unlink" ELSE "malloc")
  /\ p_item' = IF Place(asked) > 0 THEN Before(Place(asked)) ELSE ListHead
  /\ p_temp' = [ev |-> asked, at |-> set_time, pending |-> FALSE]
  /\ due' = [due EXCEPT ![asked] = set_time]
  /\ Done
  /\ UNCHANGED <<clock, rtc_time, masked, upset, queue, match, caller, left, early>>

\* The event waits already: the item after p_item gets the new time and leaves
\* its place.  The flag that is cleared is the one of the item before it.
Unlink ==
  /\ Linked(p_item) /\ Place(p_item) < Len(list)
  /\ Step("unlink", "walk")
  /\ p_temp' = [list[Place(p_item) + 1] EXCEPT !.at = p_temp.at]
  /\ list' = RemoveAt([i \in DOMAIN list |->
                [list[i] EXCEPT !.pending = list[i].pending /\ list[i].ev # p_item]],
              Place(p_item) + 1)
  /\ UNCHANGED <<clock, rtc_time, masked, upset, used, match, caller, arguments,
                 p_item, observed>>

\* Bug: the table is searched one entry too far.
rtc_alarm_relative_malloc_OneMore ==
  /\ used <= TableLen
  /\ Step("malloc", "walk")
  /\ used' = used + 1
  /\ UNCHANGED <<clock, rtc_time, masked, upset, list, match, caller, call, observed>>

rtc_alarm_relative_malloc ==
  /\ used < TableLen
  /\ Step("malloc", "walk")
  /\ used' = used + 1
  /\ UNCHANGED <<clock, rtc_time, masked, upset, list, match, caller, call, observed>>

\* An access through NULL: the item went meanwhile, or the table is full.
ThroughNull ==
  /\ \/ pc = "unlink" /\ ~(Linked(p_item) /\ Place(p_item) < Len(list))
     \/ pc = "malloc" /\ used = TableLen
  /\ Step(pc, "undefined")
  /\ UNCHANGED <<clock, rtc_time, masked, upset, queue, match, caller, call, observed>>

Walk ==
  /\ Step("walk", "link")
  /\ p_item' = InsertAfter(p_temp.at)
  /\ UNCHANGED <<clock, rtc_time, masked, upset, queue, match, caller, arguments,
                 p_temp, observed>>

\* Linked to an item that has been freed, p_temp is lost.  The alarm is set
\* again only when the item is now the first.
Link ==
  LET linked == InsertAt(list, Place(p_item) + 1, p_temp)
      first == Linked(p_item) /\ p_item = ListHead
  IN  /\ Step("link", IF first THEN "rearm" ELSE "idle")
      /\ list' = IF Linked(p_item) THEN linked ELSE list
      /\ left' = IF p_temp.pending THEN left \cup {p_temp.ev} ELSE left
      /\ p_temp' = NoItem /\ p_item' = ListHead
      /\ UNCHANGED <<clock, rtc_time, masked, upset, used, match, caller, arguments,
                     due, early>>

Rearm ==
  /\ Step("rearm", "finish") /\ caller' = "arm"
  /\ Capture
  /\ UNCHANGED <<upset, queue, match, call, observed>>

Arm ==
  /\ Step("arm", IF list # <<>> THEN "enable" ELSE "idle")
  /\ SetPending
  /\ IF list # <<>> THEN p_temp' = list[1] /\ UNCHANGED enabled2
                     ELSE enabled2' = FALSE /\ UNCHANGED p_temp
  /\ UNCHANGED <<clock, rtc_time, masked, upset, used, alarm2, value2, caller, arguments,
                 p_item, due, early>>

Enable ==
  /\ Step("enable", "idle")
  /\ rtc_alarm_relative_enable(p_temp.at)
  /\ upset' = MissedIf(p_temp.at)
  /\ p_temp' = NoItem /\ Done
  /\ UNCHANGED <<clock, rtc_time, masked, queue, caller, p_item, observed>>

(***************************************************************************)
(* The interrupt handler.  Alarm 0 has been counted when alarm 2 reads the *)
(* time.                                                                   *)
(***************************************************************************)
IsDone(x, t) == x.pending \/ x.at <= t

\* What the walk through the list leaves linked.
Remaining(t) ==
  LET after[n \in 0 .. Len(list)] ==
        IF n = 0 THEN <<>>
        ELSE IF IsDone(list[n], t) THEN after[n - 1] ELSE Append(after[n - 1], list[n])
  IN  after[Len(list)]

rtc_alarm_relative_handle_timeout_item(t) ==
  LET done == {i \in DOMAIN list : IsDone(list[i], t)}
      signalled == {list[i].ev : i \in done}
  IN  /\ list' = Remaining(t)
      /\ used' = used - Cardinality(done)
      /\ due' = [e \in Event |-> IF e \in signalled THEN 0 ELSE due[e]]
      /\ left' = left \ signalled
      /\ early' = (early \/ \E e \in signalled \ left : due[e] > Now)
      /\ upset' = upset
           \cup (IF Jumps(counter, FALSE) THEN {"jumped"} ELSE {})
           \cup (IF done # {} /\ pc \in {"unlink", "link", "enable"} THEN {"raced"} ELSE {})

RTC0ALRM_IRQHandler ==
  /\ isr = "off" /\ Interrupt
  /\ CountOverflow
  /\ IF alarm2 /\ enabled2
     THEN /\ alarm2' = FALSE
          /\ rtc_alarm_relative_handle_timeout_item((long_counter + Overflowed) * Period + counter)
          /\ isr' = "arm"
     ELSE UNCHANGED <<alarm2, queue, observed, upset, isr>>
  /\ UNCHANGED <<counter, era, rtc_time, masked, late, enabled2, value2, pc, caller, call>>

\* rtc_alarm_relative_initial_alarm, as called by the handler.
ArmAgain ==
  /\ isr = "arm" /\ isr' = "off"
  /\ CountOverflow
  /\ SetPending
  /\ IF list # <<>>
     THEN rtc_alarm_relative_enable(list[1].at) /\ upset' = MissedIf(list[1].at)
     ELSE enabled2' = FALSE /\ UNCHANGED <<alarm2, value2, upset>>
  /\ UNCHANGED <<counter, era, rtc_time, masked, late, used, pc, caller, call, due, early>>

Next ==
  \/ Tick
  \/ get_current_time \/ Finish
  \/ set_current_time \/ SetTimer \/ SetLongCounter \/ pmu_enter_sleep
  \/ rtc_alarm_relative_add_item \/ Search \/ Unlink \/ rtc_alarm_relative_malloc
  \/ ThroughNull \/ Walk \/ Link \/ Rearm \/ Arm \/ Enable
  \/ RTC0ALRM_IRQHandler \/ ArmAgain

Spec == Init /\ [][Next]_vars

-------------------------------------------------------------------------------
(***************************************************************************)
(* Properties.                                                             *)
(***************************************************************************)
Times == 0 .. (MaxEra + 4) * Period
Item == [ev : Event \cup {NoEvent}, at : Times, pending : BOOLEAN]

\* The variables have their types.
TypeOK ==
  /\ ClockTypeOK
  /\ list \in Seq(Item) /\ used \in 0 .. TableLen
  /\ alarm2 \in BOOLEAN /\ enabled2 \in BOOLEAN /\ value2 \in 0 .. overflow_value
  /\ pc \in {"idle", "finish", "set", "long", "search", "unlink", "malloc", "walk",
            "link", "rearm", "arm", "enable", "undefined"}
  /\ caller \in {"idle", "search", "arm"} /\ isr \in {"off", "arm"}
  /\ asked \in Event \cup {NoEvent} /\ delay \in Delay \cup {0}
  /\ p_item \in Event \cup {ListHead} /\ p_temp \in Item
  /\ left \subseteq Event /\ early \in BOOLEAN

\* Every overflow of the counter is counted once: by the handler or by
\* get_current_time, whichever comes first, unless the sleep cleared it.  It is
\* counted from the last tick of the period on.
OverflowsCounted ==
  "lost" \notin upset /\ pc # "long" => long_counter + Overflowed = era + LastTick

\* get_current_time is at most one tick ahead, and at most Late ticks behind,
\* of the clock, unless it reads the last tick of a period after the overflow
\* was counted: then it is a whole period ahead.
TimeIsRight ==
  pc \in {"search", "arm"} /\ upset \cap {"lost", "jumped"} = {} =>
    current_time - Now \in - Late .. 1

\* No event is signalled before the time asked for, unless the time read by the
\* handler is a period ahead or the item was moved and brought its flag along.
NeverEarly ==
  upset \cap {"lost", "jumped", "moved", "raced"} = {} => ~early

\* Every event is signalled within Late ticks of the time asked for, unless the
\* alarm was set too late or add_item was overtaken by the handler.
NeverLate ==
  upset \cap {"lost", "jumped", "moved", "raced", "missed"} = {} =>
    \A e \in Event : due[e] # 0 => Now <= due[e] + Late

\* As long as the handler did not come in between, the list is ordered by time,
\* every entry of the table is in the list or at hand, and no access goes
\* through NULL.
QueueIsSound ==
  "raced" \notin upset =>
    /\ \A i \in 1 .. Len(list) - 1 : list[i].at <= list[i + 1].at
    /\ used = Len(list) + (IF pc \in {"walk", "link"} THEN 1 ELSE 0)
    /\ pc # "undefined"
===============================================================================
