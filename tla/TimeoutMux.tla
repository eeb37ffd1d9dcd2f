------------------------------ MODULE TimeoutMux ------------------------------
(***************************************************************************)
(* The time-out multiplexer (arch/timeout.c): several time-outs share one  *)
(* half of TIMER0.  The items are kept in an array in the order of their   *)
(* remaining times; the timer is set to the first, and its interrupt       *)
(* handler signals the items that are due and sets it to the next.  There  *)
(* is one array for micro- and one for milliseconds: unit says which.      *)
(*                                                                         *)
(* Nothing masks interrupts.  The functions stop the timer first, but only *)
(* that of the microseconds stops (stop_timeout_timer tests TIMEOUT_US     *)
(* twice), so that the handler of the milliseconds comes in between.       *)
(* An element that is being written is one step with the index that counts *)
(* it.  The part of the card's program modelled elsewhere does not use     *)
(* this component.                                                         *)
(***************************************************************************)
EXTENDS Integers, Sequences, SequencesExt, FiniteSets

CONSTANTS
  Event,  \* addresses of the flags that time-outs set
  Times,  \* times asked for, in ticks of the timer
  Width,  \* values of the timer's counter, 2^16
  Reload, \* its value after an overflow, 0x100
  ArrayLen, \* US_TIMEOUT_ARRAY_LEN or MS_TIMEOUT_ARRAY_LEN
  MaxOps  \* bound on the calls that are explored

NoEvent == "none"

ASSUME MuxAssumption ==
  /\ Times \subseteq Nat /\ Width \in Nat \ {0} /\ Reload \in 0 .. Width - 1
  /\ ArrayLen \in Nat \ {0} /\ MaxOps \in Nat
  /\ NoEvent \notin Event

VARIABLES
  unit,                     \* "US" or "MS"
  items,                    \* the first timeout_index elements of the array
  timeout_current_time,
  count, running, overflow, \* the timer: counter, started, interrupt pending
  pc, arg, current_time,    \* of the program; its call; what get_timeout_time said
  ops,                      \* calls so far
  waiting, remains, disturbed, early, raced \* observers: see below

(* Observers.  waiting: events asked for, and neither signalled nor removed; *)
(* remains: ticks until they are due; disturbed: those that were in the      *)
(* array when a call found the timer part of the way, or that the handler    *)
(* touched under a call; early: another one was signalled before it was due; raced:  *)
(* the handler came under a call.                                            *)
timer == <<count, running, overflow>>
observers == <<waiting, remains, disturbed, early, raced>>
vars == <<unit, items, timeout_current_time, timer, pc, arg, current_time, ops, observers>>

NoArg == [ev |-> NoEvent, time |-> 0]

Init ==
  /\ unit \in {"US", "MS"}
  /\ items = <<>> /\ timeout_current_time = 0
  /\ count = 0 /\ running = FALSE /\ overflow = FALSE
  /\ pc = "idle" /\ arg = NoArg /\ current_time = 0
  /\ ops = 0
  /\ waiting = {} /\ remains = [e \in Event |-> 0]
  /\ disturbed = {} /\ early = FALSE /\ raced = FALSE

(***************************************************************************)
(* The timer counts up and goes on from Reload when it overflows.          *)
(***************************************************************************)
Tick ==
  /\ running /\ ~overflow
  /\ IF count = Width - 1
     THEN count' = Reload /\ overflow' = TRUE
     ELSE count' = count + 1 /\ UNCHANGED overflow
  /\ remains' = [e \in Event |-> IF remains[e] > 0 THEN remains[e] - 1 ELSE 0]
  /\ UNCHANGED <<unit, items, timeout_current_time, running, pc, arg, current_time, ops,
                 waiting, disturbed, early, raced>>

stop_timeout_timer == running' = (running /\ unit # "US")
start_timeout_timer == running' = (running \/ unit = "US")

\* The ticks that are left less those that were set: the negative of the time
\* that has passed, in the width of the counter.
get_timeout_time ==
  IF timeout_current_time = 0 THEN 0
  ELSE ((Width - 1 - count) - timeout_current_time) % Width

set_timeout_time(t) ==
  /\ count' = Width - 1 - (t % Width)
  /\ overflow' = FALSE
  /\ running' = TRUE

(***************************************************************************)
(* The array.                                                              *)
(***************************************************************************)
\* Bug: a time beyond the counter's width is cut to it.
FirstTime_Cut(s) == IF s = <<>> THEN 0 ELSE s[1].time % Width

\* The timer is set for the first item, or as long as it can be.
FirstTime(s) ==
  IF s = <<>> THEN 0
  ELSE IF s[1].time > Width - 1 THEN Width - 1 ELSE s[1].time

Moved(x, t) == [x EXCEPT !.time = @ - t]

Later(s, t) == [i \in DOMAIN s |-> Moved(s[i], t)]

\* Bug: the items that are due later are flagged with the first.
Flagged_NotLess(s, t) == [i \in DOMAIN s |-> [s[i] EXCEPT !.flag = (s[i].time >= t)]]

Flagged(s, t) == [i \in DOMAIN s |-> [s[i] EXCEPT !.flag = (s[i].time = t)]]

\* Only the flags of the first items are set, and none is cleared.
FirstFlagged(s, t) ==
  [i \in DOMAIN s |->
    IF \A j \in 1 .. i : s[j].time = t THEN [s[i] EXCEPT !.flag = TRUE] ELSE s[i]]

\* The place an item is sorted to: items of the same time keep their order.
Place(s, i) ==
  Cardinality({j \in DOMAIN s : s[j].time < s[i].time \/ (s[j].time = s[i].time /\ j <= i)})

Sorted(s) == [k \in DOMAIN s |-> s[CHOOSE i \in DOMAIN s : Place(s, i) = k]]

\* Bug: the timer is not set for what remains.
SetForRest_Forgotten(s) ==
  /\ items' = s
  /\ UNCHANGED <<timeout_current_time, timer>>

\* What remove and updata do with what remains.
SetForRest(s) ==
  IF s = <<>>
  THEN items' = s /\ UNCHANGED <<timeout_current_time, timer>>
  ELSE /\ timeout_current_time' = FirstTime(s) % Width
       /\ items' = FirstFlagged(s, FirstTime(s))
       /\ set_timeout_time(FirstTime(s))

Events(s) == {s[i].ev : i \in DOMAIN s}

Signal(E) ==
  /\ waiting' = waiting \ E
  /\ early' = (early \/ (pc = "idle" /\ \E e \in E \ disturbed : remains[e] > 0))

(***************************************************************************)
(* The program.  The handler preempts it.                                  *)
(***************************************************************************)
Step(from, to) == pc = from /\ pc' = to /\ ~overflow

\* Both functions begin by stopping the timer and reading it.
Call(next, a) ==
  /\ Step("idle", next)
  /\ ops < MaxOps /\ ops' = ops + 1
  /\ arg' = a
  /\ current_time' = get_timeout_time
  /\ stop_timeout_timer
  /\ disturbed' = IF get_timeout_time # 0 THEN disturbed \cup waiting ELSE disturbed
  /\ UNCHANGED <<unit, items, timeout_current_time, count, overflow, waiting, remains,
                 early, raced>>

\* The array has no test of its bound.
timeout_add_item(e, t) ==
  /\ e \notin waiting /\ Len(items) < ArrayLen
  /\ Call("shift", [ev |-> e, time |-> t])

Shift ==
  /\ Step("shift", "append")
  /\ items' = Later(items, current_time)
  /\ UNCHANGED <<unit, timeout_current_time, timer, arg, current_time, ops, observers>>

Enter ==
  /\ Step("append", "sort")
  /\ items' = Append(items, [ev |-> arg.ev, time |-> arg.time, flag |-> FALSE])
  /\ waiting' = waiting \cup {arg.ev}
  /\ remains' = [remains EXCEPT ![arg.ev] = arg.time]
  /\ disturbed' = disturbed \ {arg.ev}
  /\ UNCHANGED <<unit, timeout_current_time, timer, arg, current_time, ops, early, raced>>

Sort ==
  LET s == Sorted(items)
  IN  /\ Step("sort", "idle")
      /\ timeout_current_time' = FirstTime(s) % Width
      /\ items' = Flagged(s, FirstTime(s))
      /\ set_timeout_time(FirstTime(s))
      /\ arg' = NoArg /\ current_time' = 0
      /\ UNCHANGED <<unit, ops, observers>>

\* The index of the item is found before the clock's time is applied.
timeout_remove_item(e) ==
  LET i == SelectInSeq(items, LAMBDA x : x.ev = e)
  IN  Call(IF i = 0 THEN "missing" ELSE "remove", [ev |-> e, time |-> i])

\* The items whose time becomes negative when t is taken from it, but for those in I.
Past(s, I, t) == {i \in DOMAIN s \ I : s[i].time < t}

Goes(s, I, t, i) == i \in I \/ s[i].time < t

\* The items that move up, t less in their time.
Rest(s, I, t) ==
  LET left[n \in 0 .. Len(s)] ==
        IF n = 0 THEN <<>>
        ELSE IF Goes(s, I, t, n) THEN left[n - 1]
        ELSE Append(left[n - 1], Moved(s[n], t))
  IN  left[Len(s)]

\* The times of the other items go on by what the clock said; those that have
\* become negative are signalled.
RemoveItem ==
  LET past == {items[i].ev : i \in Past(items, {arg.time}, current_time)}
  IN  /\ Step("remove", "idle")
      /\ SetForRest(Rest(items, {arg.time}, current_time))
      /\ waiting' = waiting \ ({arg.ev} \cup past)
      /\ early' = (early \/ \E e \in past \ disturbed : remains[e] > 0)
      /\ arg' = NoArg /\ current_time' = 0
      /\ UNCHANGED <<unit, ops, remains, disturbed, raced>>

NothingToRemove ==
  /\ Step("missing", "idle")
  /\ IF items # <<>> THEN start_timeout_timer ELSE UNCHANGED running
  /\ arg' = NoArg /\ current_time' = 0
  /\ UNCHANGED <<unit, items, timeout_current_time, count, overflow, ops, observers>>

(***************************************************************************)
(* The interrupt handler: timeout_updata_item with the timer stopped.      *)
(***************************************************************************)
TIMER0_IRQHandler ==
  LET due == {i \in DOMAIN items : \A j \in 1 .. i : items[j].flag}
      past == Past(items, due, timeout_current_time)
      rest == Rest(items, due, timeout_current_time)
  IN  /\ overflow
      /\ IF rest = <<>>
         THEN /\ items' = rest /\ running' = FALSE /\ overflow' = FALSE
              /\ UNCHANGED <<timeout_current_time, count>>
         ELSE SetForRest(rest)
      /\ Signal({items[i].ev : i \in due \cup past})
      /\ disturbed' = IF pc = "idle" THEN disturbed ELSE disturbed \cup waiting
      /\ raced' = (raced \/ pc # "idle")
      /\ UNCHANGED <<unit, pc, arg, current_time, ops, remains>>

Next ==
  \/ Tick
  \/ \E e \in Event, t \in Times : timeout_add_item(e, t)
  \/ Shift \/ Enter \/ Sort
  \/ \E e \in Event : timeout_remove_item(e)
  \/ RemoveItem \/ NothingToRemove
  \/ TIMER0_IRQHandler

Spec == Init /\ [][Next]_vars

\* The counter counts while it runs, the handler is entered and a call is
\* carried to its end.
FairSpec ==
  /\ Spec
  /\ WF_vars(Tick) /\ WF_vars(TIMER0_IRQHandler)
  /\ WF_vars(Shift \/ Enter \/ Sort \/ RemoveItem \/ NothingToRemove)

-------------------------------------------------------------------------------
(***************************************************************************)
(* Properties.                                                             *)
(***************************************************************************)
\* Unless the handler came under a call, between the calls the array holds the
\* events that wait, each once and in the order of their times.  The timer runs
\* as long as there are any.
NothingIsForgotten ==
  pc = "idle" =>
    /\ items # <<>> => running
    /\ ~raced =>
         /\ Events(items) = waiting
         /\ IsInjective([i \in DOMAIN items |-> items[i].ev])
         /\ \A i \in 1 .. Len(items) - 1 : items[i].time <= items[i + 1].time

\* An event is not signalled before its time, unless a later call found the
\* timer part of the way, and took the time that had passed with the wrong sign,
\* or the handler came under a call.
NeverEarly == ~raced => ~early

\* Every event is signalled, or removed, once the program lets the timer run.
EverySignal == \A e \in Event : e \in waiting ~> e \notin waiting \/ raced
===============================================================================
