------------------------------- MODULE TagCard -------------------------------
(***************************************************************************)
(* The main loop of the tag card (main.c), the interrupt handlers that set *)
(* its flags, and pmu_enter_sleep (arch/PMU.c) through which every section *)
(* of the loop gives up the processor.                                     *)
(*                                                                         *)
(* One iteration of the loop is five sections in a fixed order: the false  *)
(* wake-up test, the exciter section, the time-out section, the packet     *)
(* section and the alarm section.  pc names the section the processor is   *)
(* about to execute.  A section is one action: the code inside a section   *)
(* does not read again what an interrupt handler may write, so a handler   *)
(* that runs in the middle of a section has the effect it would have just  *)
(* after it.  pmu_enter_sleep is called from within a section and returns  *)
(* into it, which is why it is three steps of its own ("doze" before the   *)
(* WFI, "wfi" asleep, "woken" after it) with ret as the return address.    *)
(*                                                                         *)
(* Time is abstracted to what the loop can tell apart: whether the ms      *)
(* count-down tDelay is below zero, and whether the next RTC alarm is more *)
(* than a window away, due, just passed, or long past.                     *)
(***************************************************************************)
EXTENDS Integers, Sequences

CONSTANTS
  General, Config, Test, EnEx, Undefined, \* exciter ids by exciterTypeAnalyze
  Node,            \* ids of the human-traffic nodes inside the caves
  NoId,            \* the 0 the code stores in lastEID and lastRID
  cfg_icnt,        \* receptions in pending that put the card in the cave
  cfg_xcnt,        \* silent periods in pending before giving up
  cfg_ocnt,        \* silent periods in the cave before giving up
  cfg_edpc,        \* packets sent at an entrance and at an exit
  PoolMax          \* bound: packets the receive pool holds at once

Exciter == General \cup Config \cup Test \cup EnEx \cup Undefined

ASSUME ConstantsAssumption ==
  /\ cfg_icnt \in Nat \ {0}
  /\ cfg_xcnt \in Nat
  /\ cfg_ocnt \in Nat
  /\ cfg_edpc \in Nat \ {0}
  /\ PoolMax \in Nat \ {0}
  /\ NoId \notin Exciter \cup Node
  /\ General \cap (Config \cup Test \cup EnEx \cup Undefined) = {}
  /\ Config \cap (Test \cup EnEx \cup Undefined) = {}
  /\ Test \cap (EnEx \cup Undefined) = {}
  /\ EnEx \cap Undefined = {}

CaveState == {"pending", "in_cave"}
EntryState == {"r_entrance", "en_heart_ex", "r_exit"}
CardState == {"synchronizing", "config"} \cup CaveState \cup EntryState

\* The states in which a time-out closes the window within the period.
Windowed == {"synchronizing"} \cup CaveState

Section == {"excite", "timeout", "packet", "alarm"}
Sleeping == {"doze", "wfi", "woken"}

\* What the loop can tell of a frame.  kind: a synchronisation packet (0x20), a
\* cave packet (0x30), a legal configuration frame, one that ends configuration
\* (quit command, or last piece of an image), anything else.  src: the sender.
\* next: nextWTime is at most 24 quarter seconds after the packet's time; was so
\* when the packet came, before a sleep; is at most 24 before; or is further off.
\* strong: ed > cfg_trssi.
Packet ==
  {p \in [kind : {"syn", "cave", "cfg", "quit", "junk"},
          src : General \cup Node \cup {NoId},
          next : {"ahead", "aged", "behind", "far"}, strong : BOOLEAN] :
     p.kind = "cave" => p.src \in Node}

Pool == Seq(Packet)

VARIABLES
  pc, ret,                            \* section being executed, return of the sleep
  wake, pmatch, ex_id, false_wake_up, \* wake-up receiver: flag, PMATCH enabled, id read
  exciterID, lastEID, lastRID,        \* the session
  c_state,                            \* enum card_state
  PconSignal, PnoSignal, CnoSignal,   \* periods with and without reception
  pending_received_flag, in_cave_received_flag,
  enCount, exCount, HnoSignal,        \* entrance and exit packets, silent heart-beat
  tDelayValid, tDelay,                \* tDelay: counting down, 0, below 0
  time_waking,                        \* set by the RTC alarms
  alarm1, next_wake_ok,               \* RTC alarm 1; next_wakeup_time is what it holds
  listening, pool                     \* radio receiving; frames received, oldest first

receiver == <<wake, pmatch, ex_id, false_wake_up>>
session == <<exciterID, lastEID, lastRID>>
counters == <<PconSignal, PnoSignal, CnoSignal>>
received == <<pending_received_flag, in_cave_received_flag>>
entry == <<enCount, exCount, HnoSignal>>
timer == <<tDelayValid, tDelay>>
rtc == <<time_waking, alarm1, next_wake_ok>>
radio == <<listening, pool>>
control == <<pc, ret>>
vars == <<control, receiver, session, c_state, counters, received, entry,
          timer, rtc, radio>>

\* RTC alarm 1: never enabled; within the coming period but after any window
\* that is open; may match any moment; matched within the last period; not within
\* the coming period (in the past, so that it matches after the counter wraps).
AlarmPhase == {"off", "ahead", "due", "recent", "remote"}

FlagTypes ==
  /\ wake \in BOOLEAN /\ pmatch \in BOOLEAN /\ false_wake_up \in BOOLEAN
  /\ pending_received_flag \in BOOLEAN /\ in_cave_received_flag \in BOOLEAN
  /\ HnoSignal \in BOOLEAN
  /\ tDelayValid \in BOOLEAN
  /\ time_waking \in BOOLEAN /\ next_wake_ok \in BOOLEAN
  /\ listening \in BOOLEAN

DataTypes ==
  /\ pc \in Section \cup Sleeping \cup {"halt"}
  /\ ret \in Section
  /\ ex_id \in Exciter \cup {NoId}
  /\ exciterID \in Exciter \cup {NoId}
  /\ lastEID \in Exciter \cup {NoId}
  /\ lastRID \in Node \cup {NoId}
  /\ c_state \in CardState
  /\ PconSignal \in Nat /\ PnoSignal \in Nat /\ CnoSignal \in Nat
  /\ enCount \in Nat /\ exCount \in Nat
  /\ tDelay \in {"running", "zero", "below"}
  /\ alarm1 \in AlarmPhase
  /\ pool \in Pool

TypeOK == FlagTypes /\ DataTypes

-----------------------------------------------------------------------------
(* Reset, sleep and the helpers the sections call.                         *)

\* The state in which main reaches its first pmu_enter_sleep (main.c:104): RAM
\* cleared, alarms disabled by rtc_set_from_reset, PMATCH enabled by pinwk_init.
Init ==
  /\ pc = "doze" /\ ret = "excite"
  /\ wake = FALSE /\ pmatch = TRUE /\ ex_id = NoId /\ false_wake_up = FALSE
  /\ exciterID = NoId /\ lastEID = NoId /\ lastRID = NoId
  /\ c_state = "synchronizing"
  /\ PconSignal = 0 /\ PnoSignal = 0 /\ CnoSignal = 0
  /\ pending_received_flag = FALSE /\ in_cave_received_flag = FALSE
  /\ enCount = 0 /\ exCount = 0 /\ HnoSignal = FALSE
  /\ tDelayValid = FALSE /\ tDelay = "zero"
  /\ time_waking = FALSE /\ alarm1 = "off" /\ next_wake_ok = TRUE
  /\ listening = FALSE /\ pool = <<>>

\* NVIC_SystemReset and the software reset: the boot path leads back to Init.
SystemReset ==
  /\ pc' = "doze" /\ ret' = "excite"
  /\ wake' = FALSE /\ pmatch' = TRUE /\ ex_id' = NoId /\ false_wake_up' = FALSE
  /\ exciterID' = NoId /\ lastEID' = NoId /\ lastRID' = NoId
  /\ c_state' = "synchronizing"
  /\ PconSignal' = 0 /\ PnoSignal' = 0 /\ CnoSignal' = 0
  /\ pending_received_flag' = FALSE /\ in_cave_received_flag' = FALSE
  /\ enCount' = 0 /\ exCount' = 0 /\ HnoSignal' = FALSE
  /\ tDelayValid' = FALSE /\ tDelay' = "zero"
  /\ time_waking' = FALSE /\ alarm1' = "off" /\ next_wake_ok' = TRUE
  /\ listening' = FALSE /\ pool' = <<>>

\* The return address means something only during a sleep.
Goto(section) == pc' = section /\ ret' = "excite"

\* What a sleep does to the frames in the pool: time passes for them.
Aged(s) ==
  [i \in DOMAIN s |-> [s[i] EXCEPT !.next = IF @ = "ahead" THEN "aged" ELSE @]]

\* pmu_enter_sleep up to the WFI: tDelay = 0, the radio is put to sleep and its
\* interrupt disabled.  Frames in the pool stay there.
EnterSleep(section, frames) ==
  /\ pc' = "doze" /\ ret' = section
  /\ tDelay' = "zero"
  /\ listening' = FALSE
  /\ pool' = Aged(frames)

\* mac_init empties the pool; the RX_ON loop after it may give up.
RadioOn == listening' \in BOOLEAN /\ pool' = <<>>

\* The frames on the air, without the fields no parser reads.
Arriving ==
  {p \in Packet :
     /\ p.next # "aged"
     /\ p.kind = "syn" => p.src \in General
     /\ p.kind = "cave" => p.next # "behind"
     /\ p.kind \notin {"syn", "cave"} => p.src = NoId /\ p.next = "far"
     /\ p.kind # "junk" => p.strong}

\* The pool of a section that initialises the radio, sends, and goes to sleep: the
\* radio listens after mac_init and after every packet it sends.
Heard == {<<>>} \cup {<<p>> : p \in Arriving}

\* The call without which the window would have no end.
StartWindow_NotValid == tDelayValid' = FALSE /\ tDelay' = "running"

StartWindow == tDelayValid' = TRUE /\ tDelay' = "running"

\* rtc_alarm_relative_add_item followed by the sleep.  No code calls
\* rtc_alarm_relative_init, so that the list head is NULL: the stores through it
\* fault, or are ignored and no alarm is set.
AddAlarmAndSleep(section) ==
  \/ \E frames \in Heard : EnterSleep(section, frames)
  \/ Goto("halt") /\ UNCHANGED <<tDelay, radio>>

\* set_next_wake_time adds the period to next_wakeup_time, whatever it holds, and
\* writes the sum to alarm 1 without comparing it with the current time.
set_next_wake_time ==
  /\ alarm1' \in IF next_wake_ok /\ alarm1 \in {"ahead", "due", "recent"}
                THEN {"ahead"}
                ELSE IF alarm1 = "off" THEN {"ahead", "remote"} ELSE {"remote"}
  /\ next_wake_ok' = TRUE

\* time_synchronizing sets the clock from the packet and alarm 1 to its nextWTime.
\* A packet kept across a sleep may name a time that has gone by.
time_synchronizing(p) ==
  /\ alarm1' \in CASE p.next = "ahead" -> {"ahead"}
                  [] p.next = "aged" -> {"ahead", "remote"}
                  [] OTHER -> {"remote"}
  /\ next_wake_ok' = TRUE

-----------------------------------------------------------------------------
(* pmu_enter_sleep from the WFI to its return, and the test of             *)
(* false_wake_up that opens the loop.                                      *)

Doze ==
  /\ pc = "doze"
  /\ pc' = "wfi"
  /\ UNCHANGED <<ret, receiver, session, c_state, counters, received, entry,
                 timer, rtc, radio>>

\* as3933_data_read shifts the id in; whether its check sum is right is up to the air.
as3933_data_read == ex_id' \in Exciter

\* After the WFI: only if wake is set are the exciter's bits read and their
\* check sum tested, and only then is PMATCH enabled again.
WakeUp ==
  /\ pc = "woken"
  /\ Goto(ret)
  /\ \/ /\ wake
        /\ as3933_data_read
        /\ pmatch' = TRUE
        /\ \/ UNCHANGED <<wake, false_wake_up>>
           \/ wake' = FALSE /\ false_wake_up' = TRUE
     \/ ~wake /\ UNCHANGED receiver
  /\ UNCHANGED <<session, c_state, counters, received, entry, timer, rtc, radio>>

\* The check sum was wrong: back to sleep, and round the loop again.
FalseWakeUp ==
  /\ pc = "excite" /\ false_wake_up
  /\ false_wake_up' = FALSE
  /\ EnterSleep("excite", pool)
  /\ UNCHANGED <<wake, pmatch, ex_id, session, c_state, counters, received,
                 entry, tDelayValid, rtc>>

-----------------------------------------------------------------------------
(* Section 1: an exciter woke the card.                                    *)

\* wake is cleared, and the id becomes the current exciter.
Excited(ids) ==
  /\ pc = "excite" /\ ~false_wake_up /\ wake
  /\ ex_id \in ids
  /\ wake' = FALSE
  /\ exciterID' = ex_id
  /\ UNCHANGED <<pmatch, ex_id, false_wake_up>>

NotExcited ==
  /\ pc = "excite" /\ ~false_wake_up /\ ~wake
  /\ Goto("timeout")
  /\ UNCHANGED <<receiver, session, c_state, counters, received, entry, timer,
                 rtc, radio>>

KeepSession_TakesId == lastEID' = ex_id /\ UNCHANGED <<c_state, timer>>

KeepSession == UNCHANGED <<lastEID, c_state, timer>>

\* Another exciter than the card's own opens a window for its synchronisation
\* packet, unless the card is at an entrance or being configured.
ExciteGeneralNew ==
  /\ Excited(General) /\ ex_id # lastEID
  /\ RadioOn
  /\ IF c_state \in {"synchronizing"} \cup CaveState
     THEN lastEID' = ex_id /\ c_state' = "synchronizing" /\ StartWindow
     ELSE KeepSession
  /\ Goto("timeout")
  /\ UNCHANGED <<lastRID, counters, received, entry, rtc>>

\* The card's own exciter again: back to sleep unless a window is open.
ExciteGeneralSame ==
  /\ Excited(General) /\ ex_id = lastEID
  /\ IF tDelayValid
     THEN Goto("timeout") /\ UNCHANGED <<tDelay, radio>>
     ELSE EnterSleep("timeout", pool)
  /\ UNCHANGED <<lastEID, lastRID, c_state, counters, received, entry,
                 tDelayValid, rtc>>

ExciteConfig ==
  /\ Excited(Config)
  /\ RadioOn /\ StartWindow
  /\ c_state' = "config"
  /\ Goto("timeout")
  /\ UNCHANGED <<lastEID, lastRID, counters, received, entry, rtc>>

\* Ten test packets, then sleep.
ExciteTest ==
  /\ Excited(Test)
  /\ \E frames \in Heard : EnterSleep("timeout", frames)
  /\ UNCHANGED <<lastEID, lastRID, c_state, counters, received, entry,
                 tDelayValid, rtc>>

\* The first packet at an entrance is sent in every state of the card.
ExciteEntranceNew ==
  /\ Excited(EnEx) /\ ex_id # lastEID
  /\ lastEID' = ex_id
  /\ c_state' = "r_entrance"
  /\ enCount' = 1
  /\ AddAlarmAndSleep("timeout")
  /\ UNCHANGED <<lastRID, counters, received, exCount, HnoSignal, tDelayValid,
                 time_waking, alarm1, next_wake_ok>>

\* The same entrance again: the heart-beat state learns that the card is still there.
ExciteEntranceSame ==
  /\ Excited(EnEx) /\ ex_id = lastEID
  /\ HnoSignal' = FALSE
  /\ EnterSleep("timeout", pool)
  /\ UNCHANGED <<lastEID, lastRID, c_state, counters, received, enCount, exCount,
                 tDelayValid, rtc>>

\* An id of no type, or none read since the reset.
ExciteUndefined ==
  /\ Excited(Undefined \cup {NoId})
  /\ EnterSleep("timeout", pool)
  /\ UNCHANGED <<lastEID, lastRID, c_state, counters, received, entry,
                 tDelayValid, rtc>>

-----------------------------------------------------------------------------
(* Section 2: the window closed without the packet it was opened for.      *)

TimedOut == pc = "timeout" /\ tDelay = "below" /\ tDelayValid

NotTimedOut ==
  /\ pc = "timeout" /\ ~(tDelay = "below" /\ tDelayValid)
  /\ Goto("packet")
  /\ UNCHANGED <<receiver, session, c_state, counters, received, entry, timer,
                 rtc, radio>>

TimeoutSynchronizing ==
  /\ TimedOut /\ c_state = "synchronizing"
  /\ lastEID' = NoId
  /\ tDelayValid' = FALSE
  /\ EnterSleep("packet", pool)
  /\ UNCHANGED <<receiver, exciterID, lastRID, c_state, counters, received,
                 entry, rtc>>

Patient_OffByOne(count, limit) == count <= limit

\* Silent periods below their limit.
Patient(count, limit) == count < limit

CountSilence_KeepsReceptions == PconSignal' = PconSignal /\ PnoSignal' = PnoSignal + 1

CountSilence == PconSignal' = 0 /\ PnoSignal' = PnoSignal + 1

\* A period without reception in pending.  The one after a reception is forgiven:
\* it only takes the received flag back.
TimeoutPending ==
  /\ TimedOut /\ c_state = "pending"
  /\ IF Patient(PnoSignal, cfg_xcnt)
     THEN /\ pending_received_flag' = FALSE
          /\ IF pending_received_flag
             THEN UNCHANGED <<PconSignal, PnoSignal>>
             ELSE CountSilence
          /\ UNCHANGED <<lastEID, lastRID, c_state>>
     ELSE /\ lastEID' = NoId /\ lastRID' = NoId
          /\ c_state' = "synchronizing"
          /\ UNCHANGED <<PconSignal, PnoSignal, pending_received_flag>>
  /\ tDelayValid' = FALSE
  /\ EnterSleep("packet", pool)
  /\ UNCHANGED <<receiver, exciterID, CnoSignal, in_cave_received_flag, entry,
                 rtc>>

CountCaveSilence_KeepsFlag ==
  /\ CnoSignal' = IF in_cave_received_flag THEN CnoSignal ELSE CnoSignal + 1
  /\ UNCHANGED in_cave_received_flag

\* In the cave, too, the silent period after a reception is forgiven.
CountCaveSilence ==
  /\ CnoSignal' = IF in_cave_received_flag THEN CnoSignal ELSE CnoSignal + 1
  /\ in_cave_received_flag' = FALSE

TimeoutInCave ==
  /\ TimedOut /\ c_state = "in_cave"
  /\ IF Patient(CnoSignal, cfg_ocnt)
     THEN /\ CountCaveSilence
          /\ UNCHANGED <<lastEID, lastRID, c_state>>
     ELSE /\ lastEID' = NoId /\ lastRID' = NoId
          /\ CnoSignal' = 0
          /\ c_state' = "synchronizing"
          /\ UNCHANGED in_cave_received_flag
  /\ tDelayValid' = FALSE
  /\ EnterSleep("packet", pool)
  /\ UNCHANGED <<receiver, exciterID, PconSignal, PnoSignal,
                 pending_received_flag, entry, rtc>>

\* Five minutes of configuration mode are over.
TimeoutConfig == TimedOut /\ c_state = "config" /\ SystemReset

TimeoutOther ==
  /\ TimedOut /\ c_state \in EntryState
  /\ Goto("packet")
  /\ UNCHANGED <<receiver, session, c_state, counters, received, entry, timer,
                 rtc, radio>>

-----------------------------------------------------------------------------
(* Section 3: the oldest frame of the pool.                                *)

NoPacket ==
  /\ pc = "packet" /\ pool = <<>>
  /\ Goto("alarm")
  /\ UNCHANGED <<receiver, session, c_state, counters, received, entry, timer,
                 rtc, radio>>

PacketIn(states) == pc = "packet" /\ pool # <<>> /\ c_state \in states

\* The frame is taken out of the pool and nothing else happens to the card.
Consume ==
  /\ Goto("alarm")
  /\ pool' = Tail(pool)
  /\ UNCHANGED <<tDelay, listening>>

\* parse_rx_syn_pkt: a synchronisation packet whose next time is in range.
SynPacket(p) == p.kind = "syn" /\ p.next # "far"

\* parse_rx_syn_pkt writes the raw nextWTime to next_wakeup_time before it judges
\* the packet; only a packet of the exciter that woke the card starts a session.
PacketSynchronizing ==
  /\ PacketIn({"synchronizing"})
  /\ LET p == Head(pool) IN
     IF SynPacket(p) /\ p.src = exciterID
     THEN /\ time_synchronizing(p)
          /\ c_state' = "pending"
          /\ PconSignal' = 0 /\ PnoSignal' = 0
          /\ tDelayValid' = FALSE
          /\ EnterSleep("alarm", Tail(pool))
     ELSE /\ next_wake_ok' = (next_wake_ok /\ p.kind # "syn")
          /\ Consume
          /\ UNCHANGED <<alarm1, c_state, PconSignal, PnoSignal, tDelayValid>>
  /\ UNCHANGED <<receiver, session, CnoSignal, received, entry, time_waking>>

NodePacket_AnyTrailer(p) == p.kind \in {"syn", "cave"}

\* parse_rx_cave_pkt: the packet of a node.  The time it tests is that of the
\* synchronisation packet of the session, which was in range when it was accepted.
NodePacket(p) == p.kind = "cave"

\* A cave packet strong enough: another period with reception.  A weak frame sends
\* the card to sleep; one of another kind leaves the window open.
PacketPending ==
  /\ PacketIn({"pending"})
  /\ LET p == Head(pool) IN
     \/ /\ p.strong /\ PconSignal < cfg_icnt /\ NodePacket(p)
        /\ lastRID' = p.src
        /\ time_synchronizing(p)
        /\ PnoSignal' = 0 /\ PconSignal' = PconSignal + 1
        /\ pending_received_flag' = TRUE
        /\ tDelayValid' = FALSE
        /\ EnterSleep("alarm", Tail(pool))
     \/ /\ p.strong /\ ~(PconSignal < cfg_icnt /\ NodePacket(p))
        /\ Consume
        /\ UNCHANGED <<lastRID, alarm1, next_wake_ok, PconSignal, PnoSignal,
                       pending_received_flag, tDelayValid>>
     \/ /\ ~p.strong
        /\ EnterSleep("alarm", Tail(pool))
        /\ UNCHANGED <<lastRID, alarm1, next_wake_ok, PconSignal, PnoSignal,
                       pending_received_flag, tDelayValid>>
  /\ UNCHANGED <<receiver, exciterID, lastEID, c_state, CnoSignal,
                 in_cave_received_flag, entry, time_waking>>

CountOwnNode_KeepsSilence ==
  CnoSignal' = CnoSignal /\ in_cave_received_flag' = TRUE

CountOwnNode == CnoSignal' = 0 /\ in_cave_received_flag' = TRUE

\* Only a packet of the card's own node counts, but any frame ends the window, and
\* parse_rx_cave_pkt has overwritten next_wakeup_time by then.
PacketInCave ==
  /\ PacketIn({"in_cave"})
  /\ LET p == Head(pool) IN
     IF p.strong /\ NodePacket(p) /\ p.src = lastRID
     THEN /\ time_synchronizing(p)
          /\ CountOwnNode
          /\ tDelayValid' = FALSE
     ELSE /\ next_wake_ok' = (next_wake_ok /\ ~(p.strong /\ NodePacket(p)))
          /\ UNCHANGED <<alarm1, CnoSignal, in_cave_received_flag, tDelayValid>>
  /\ EnterSleep("alarm", Tail(pool))
  /\ UNCHANGED <<receiver, session, c_state, PconSignal, PnoSignal,
                 pending_received_flag, entry, time_waking>>

\* The preamble, the check sum and the protocol number are those of configuration.
LegalFrame(p) == p.kind \in {"cfg", "quit"}

\* parse_rx_update_code_pkt spins for ever on a frame that is not a legal
\* configuration frame.
PacketConfig ==
  /\ PacketIn({"config"})
  /\ \/ Head(pool).kind = "quit" /\ SystemReset
     \/ /\ Head(pool).kind = "cfg"
        /\ Consume
        /\ UNCHANGED <<receiver, session, c_state, counters, received, entry,
                       tDelayValid, rtc>>
     \/ /\ ~LegalFrame(Head(pool))
        /\ Goto("halt")
        /\ pool' = Tail(pool)
        /\ UNCHANGED <<receiver, session, c_state, counters, received, entry,
                       timer, rtc, listening>>

PacketOther ==
  /\ PacketIn(EntryState)
  /\ Consume
  /\ UNCHANGED <<receiver, session, c_state, counters, received, entry,
                 tDelayValid, rtc>>

-----------------------------------------------------------------------------
(* Section 4: an RTC alarm.  All but the configuration state initialise    *)
(* the radio, which empties the pool.                                      *)

NoAlarm ==
  /\ pc = "alarm" /\ ~time_waking
  /\ Goto("excite")
  /\ UNCHANGED <<receiver, session, c_state, counters, received, entry, timer,
                 rtc, radio>>

AlarmIn(states) ==
  /\ pc = "alarm" /\ time_waking /\ c_state \in states
  /\ time_waking' = FALSE
  /\ UNCHANGED <<receiver, PconSignal, PnoSignal, received, exciterID, lastRID>>

AlarmConfig ==
  /\ AlarmIn({"config"})
  /\ Goto("excite")
  /\ UNCHANGED <<lastEID, c_state, CnoSignal, entry, timer, alarm1, next_wake_ok,
                 radio>>

Known_TooEarly == PconSignal + 1 >= cfg_icnt

\* The card has heard its node often enough to be in the cave.
Known == PconSignal >= cfg_icnt

\* Listen for the period; after enough periods with reception, from the cave.
AlarmPending ==
  /\ AlarmIn({"pending"})
  /\ set_next_wake_time /\ RadioOn /\ StartWindow
  /\ IF Known
     THEN c_state' = "in_cave" /\ CnoSignal' = 0
     ELSE UNCHANGED <<c_state, CnoSignal>>
  /\ Goto("excite")
  /\ UNCHANGED <<lastEID, entry>>

AlarmInCave ==
  /\ AlarmIn({"in_cave"})
  /\ set_next_wake_time /\ RadioOn /\ StartWindow
  /\ Goto("excite")
  /\ UNCHANGED <<lastEID, c_state, CnoSignal, entry>>

\* A series of packets at an entrance or an exit is not complete.
MoreToSend(count) == count < cfg_edpc

\* The next packet of the series at an entrance; after the last one the card turns
\* to the heart beat and stays awake.
AlarmEntrance ==
  /\ AlarmIn({"r_entrance"})
  /\ IF MoreToSend(enCount)
     THEN /\ enCount' = enCount + 1
          /\ AddAlarmAndSleep("excite")
          /\ UNCHANGED <<c_state, HnoSignal, alarm1, next_wake_ok>>
     ELSE /\ c_state' = "en_heart_ex"
          /\ HnoSignal' = TRUE
          /\ set_next_wake_time /\ RadioOn
          /\ Goto("excite")
          /\ UNCHANGED <<enCount, tDelay>>
  /\ UNCHANGED <<lastEID, CnoSignal, exCount, tDelayValid>>

\* A heart-beat period with the exciter in reach sends a heart beat, one without
\* starts the exit series.
AlarmHeart ==
  /\ AlarmIn({"en_heart_ex"})
  /\ IF ~HnoSignal
     THEN /\ HnoSignal' = TRUE
          /\ set_next_wake_time
          /\ \E frames \in Heard : EnterSleep("excite", frames)
          /\ UNCHANGED <<c_state, exCount>>
     ELSE /\ c_state' = "r_exit"
          /\ exCount' = 1
          /\ AddAlarmAndSleep("excite")
          /\ UNCHANGED <<HnoSignal, alarm1, next_wake_ok>>
  /\ UNCHANGED <<lastEID, CnoSignal, enCount, tDelayValid>>

ExitDone_StaysInExit == lastEID' = NoId /\ c_state' = c_state

ExitDone == lastEID' = NoId /\ c_state' = "synchronizing"

AlarmExit ==
  /\ AlarmIn({"r_exit"})
  /\ IF MoreToSend(exCount)
     THEN /\ exCount' = exCount + 1
          /\ AddAlarmAndSleep("excite")
          /\ UNCHANGED <<lastEID, c_state>>
     ELSE /\ ExitDone
          /\ \E frames \in Heard : EnterSleep("excite", frames)
          /\ UNCHANGED <<exCount>>
  /\ UNCHANGED <<CnoSignal, enCount, HnoSignal, tDelayValid, alarm1,
                 next_wake_ok>>

\* An alarm left over from an earlier session: a window of length zero.
AlarmOther ==
  /\ AlarmIn({"synchronizing"})
  /\ RadioOn
  /\ tDelayValid' = TRUE /\ tDelay' = "zero"
  /\ c_state' = "synchronizing"
  /\ Goto("excite")
  /\ UNCHANGED <<lastEID, CnoSignal, entry, alarm1, next_wake_ok>>

-----------------------------------------------------------------------------
(* Interrupt handlers and the passing of time.  A card that is stuck in a  *)
(* handler or a closed loop never looks at what they write.                *)

Awakened == pc' = IF pc = "wfi" THEN "woken" ELSE pc

\* PMATCH_IRQHandler disables its own interrupt; only WakeUp enables it again.
PMATCH_IRQHandler ==
  /\ pc # "halt" /\ pmatch
  /\ wake' = TRUE /\ pmatch' = FALSE
  /\ Awakened
  /\ UNCHANGED <<ret, ex_id, false_wake_up, session, c_state, counters, received,
                 entry, timer, rtc, radio>>

\* RTC0ALRM_IRQHandler for alarm 1, due or reached after a wrap of the counter, and
\* for alarm 0, the overflow of the counter.  Alarm 2 is enabled only for an item of
\* the relative list.
Alarm1 ==
  /\ pc # "halt" /\ alarm1 \in {"due", "remote"}
  /\ time_waking' = TRUE /\ alarm1' = "recent"
  /\ Awakened
  /\ UNCHANGED <<ret, receiver, session, c_state, counters, received, entry,
                 timer, next_wake_ok, radio>>

Alarm0 ==
  /\ pc = "wfi" /\ Awakened
  /\ UNCHANGED <<ret, receiver, session, c_state, counters, received, entry,
                 timer, rtc, radio>>

\* SysTick_Handler decrements tDelay below zero.  It matters while tDelayValid.
SysTick_Handler ==
  /\ pc \notin {"wfi", "halt"} /\ tDelayValid /\ tDelay # "below"
  /\ tDelay' = "below"
  /\ UNCHANGED <<control, receiver, session, c_state, counters, received, entry,
                 tDelayValid, rtc, radio>>

\* A window and the time-out that ends it fall within the period, except that of
\* configuration mode and one that an entrance session has found open, which nothing
\* closes; one left over from before a sleep, where tDelay is 0, may end
\* when the period does.
WindowOpen == pc \in Section /\ tDelayValid /\ c_state \in Windowed

Elapse ==
  /\ pc # "halt"
  /\ \/ /\ alarm1 = "ahead" /\ ~(WindowOpen /\ tDelay # "zero")
        /\ alarm1' = "due"
     \/ alarm1 = "recent" /\ ~WindowOpen /\ alarm1' = "remote"
  /\ UNCHANGED <<control, receiver, session, c_state, counters, received, entry,
                 timer, time_waking, next_wake_ok, radio>>

\* rf2xx_trx_recv_packet, from the radio's interrupt.
Receive ==
  /\ pc \in Section /\ listening /\ Len(pool) < PoolMax
  /\ \E p \in Arriving : pool' = Append(pool, p)
  /\ UNCHANGED <<control, receiver, session, c_state, counters, received, entry,
                 timer, rtc, listening>>

-----------------------------------------------------------------------------
MainStep ==
  \/ Doze \/ WakeUp \/ FalseWakeUp
  \/ NotExcited \/ ExciteGeneralNew \/ ExciteGeneralSame \/ ExciteConfig
  \/ ExciteTest \/ ExciteEntranceNew \/ ExciteEntranceSame \/ ExciteUndefined
  \/ NotTimedOut \/ TimeoutSynchronizing \/ TimeoutPending \/ TimeoutInCave
  \/ TimeoutConfig \/ TimeoutOther
  \/ NoPacket \/ PacketSynchronizing \/ PacketPending \/ PacketInCave
  \/ PacketConfig \/ PacketOther
  \/ NoAlarm \/ AlarmConfig \/ AlarmPending \/ AlarmInCave \/ AlarmEntrance
  \/ AlarmHeart \/ AlarmExit \/ AlarmOther

Interrupt ==
  \/ PMATCH_IRQHandler \/ Alarm1 \/ Alarm0 \/ SysTick_Handler
  \/ Elapse \/ Receive

Next == MainStep \/ Interrupt

Spec == Init /\ [][Next]_vars

\* The processor executes the loop, SysTick runs while it is awake, and the RTC,
\* which sleep does not stop, reaches its alarms.  Nothing is assumed of exciters,
\* of the frames on the air, or of the overflow of the RTC counter.
Fairness ==
  /\ WF_vars(MainStep)
  /\ WF_vars(SysTick_Handler)
  /\ WF_vars(Alarm1)
  /\ WF_vars(Elapse)

FairSpec == Spec /\ Fairness

-----------------------------------------------------------------------------
(* Safety.                                                                 *)

\* The counters of main.c are bytes that are compared with < and incremented in one
\* section, and limited by another: they never pass their limits, in any order of
\* wake-ups, alarms and frames.
CounterBounds ==
  /\ PconSignal <= cfg_icnt /\ PnoSignal <= cfg_xcnt /\ CnoSignal <= cfg_ocnt
  /\ enCount <= cfg_edpc /\ exCount <= cfg_edpc

\* PconSignal and PnoSignal count opposite runs of periods, from different sections
\* of the loop: one of them is always zero, also when a session is abandoned half way
\* and another begins.
OneRunAtATime == PconSignal = 0 \/ PnoSignal = 0

\* A card is in the cave only when it has heard a node the required number of times
\* since it synchronised, and it knows which node it answers to.  The exciters,
\* configuration mode and the time-outs in between must not leak an older session.
KnowsItsNode ==
  /\ c_state = "in_cave" => PconSignal = cfg_icnt
  /\ c_state = "pending" /\ PconSignal > 0 => lastRID \in Node
  /\ c_state = "in_cave" => lastRID \in Node

\* An entrance session belongs to an entrance exciter, and the card turns to the heart
\* beat, and from it to the exit series, only after a complete entrance series.
EntrySession ==
  c_state \in EntryState =>
    /\ lastEID \in EnEx
    /\ enCount > 0
    /\ c_state # "r_entrance" => enCount = cfg_edpc
    /\ c_state = "r_exit" => exCount > 0

-----------------------------------------------------------------------------
(* Liveness.                                                               *)

\* A card outside configuration and entrance never keeps its receiver on: whatever
\* exciters, alarms and frames do to the window, the receiver is turned off.
ListeningEnds ==
  (listening /\ c_state \in Windowed) ~> (~listening \/ c_state \notin Windowed)

\* After a false wake-up the loop sleeps again without a look at its alarm, its
\* window and its frames: while one follows another it gets nothing done.
FalseWakeUpsEnd == <>[](~false_wake_up)

\* A card that hears nothing any more gives up its cave session, although a silent
\* period counts only if it got its alarm, its window and its time-out, and the
\* first one after a reception is forgiven.
SilenceEndsTheSession ==
  FalseWakeUpsEnd /\ <>[](pool = <<>>) =>
    (c_state \in CaveState ~> c_state \notin CaveState)

\* Configuration mode comes to an end in any case: the window of five minutes is
\* closed by its time-out, by the sleep of another exciter, or the card has halted.
ConfigurationEnds ==
  FalseWakeUpsEnd => (c_state = "config" ~> (c_state # "config" \/ pc = "halt"))

\* An exit series that has begun is completed, or the card has halted in adding its
\* alarm: no relative alarm calls for the next packet, but alarm 1, set for the last
\* heart beat, matches again after each wrap of the counter.
ExitEnds ==
  FalseWakeUpsEnd => (c_state = "r_exit" ~> (c_state # "r_exit" \/ pc = "halt"))

=============================================================================
