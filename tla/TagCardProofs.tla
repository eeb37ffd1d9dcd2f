---------------------------- MODULE TagCardProofs ----------------------------
(***************************************************************************)
(* Proofs about TagCard for every set of exciters and nodes and every      *)
(* value of the configuration parameters, and about its observers.         *)
(***************************************************************************)
EXTENDS TagCardAudit, TLAPS

LOCAL INSTANCE SequenceTheorems

-----------------------------------------------------------------------------
(* The receive pool.                                                       *)

\* A sleep changes nothing of the frames but how their time compares.
LEMMA AgedType == ASSUME NEW s \in Pool PROVE Aged(s) \in Pool
<1>1. s \in [1..Len(s) -> Packet] /\ Len(s) \in Nat
  BY DEF Pool
<1>2. \A p \in Packet :
        [p EXCEPT !.next = IF @ = "ahead" THEN "aged" ELSE @] \in Packet
  BY DEF Packet
<1>3. Aged(s) \in [1..Len(s) -> Packet]
  BY <1>1, <1>2 DEF Aged
<1> QED
  BY <1>1, <1>3, SeqDef DEF Pool

\* What the radio may put into the pool.
LEMMA HeardType == Heard \subseteq Pool /\ <<>> \in Pool
<1>1. \A p \in Packet : <<p>> \in Seq(Packet)
  OBVIOUS
<1>2. Arriving \subseteq Packet
  BY DEF Arriving
<1>3. <<>> \in Seq(Packet)
  BY EmptySeq
<1> QED
  BY <1>1, <1>2, <1>3 DEF Heard, Pool

\* What the sections may leave in the pool.
LEMMA PoolType ==
  ASSUME pool \in Pool
  PROVE  /\ <<>> \in Pool /\ Aged(pool) \in Pool
         /\ pool # <<>> => /\ Head(pool) \in Packet
                           /\ Tail(pool) \in Pool
                           /\ Aged(Tail(pool)) \in Pool
         /\ \A p \in Arriving : Append(pool, p) \in Pool
         /\ \A frames \in Heard : Aged(frames) \in Pool
<1>1. pool # <<>> => Head(pool) \in Packet /\ Tail(pool) \in Pool
  BY HeadTailProperties DEF Pool
<1>2. Arriving \subseteq Packet
  BY DEF Arriving
<1>3. \A p \in Arriving : Append(pool, p) \in Pool
  BY <1>2, AppendProperties DEF Pool
<1> QED
  BY <1>1, <1>3, AgedType, HeardType

-----------------------------------------------------------------------------
(* Type correctness.                                                       *)

LEMMA TypeInit == Init => TypeOK
<1> SUFFICES ASSUME Init PROVE TypeOK
  OBVIOUS
<1>1. FlagTypes
  BY DEF Init, FlagTypes
<1>2. DataTypes
  BY HeardType DEF Init, DataTypes, Section, Sleeping, CardState, AlarmPhase
<1> QED
  BY <1>1, <1>2 DEF TypeOK

LEMMA FlagStep == ASSUME FlagTypes, [Next]_vars PROVE FlagTypes'
<1> USE DEF FlagTypes, control, receiver, session, counters, received, entry, timer,
            rtc, radio, Goto, EnterSleep
<1>1. CASE Doze
  BY <1>1 DEF Doze
<1>2. CASE WakeUp
  BY <1>2, ZenonT(40) DEF WakeUp, as3933_data_read, Exciter
<1>3. CASE FalseWakeUp
  BY <1>3 DEF FalseWakeUp
<1>4. CASE NotExcited
  BY <1>4 DEF NotExcited
<1>5. CASE ExciteGeneralNew
  BY <1>5 DEF ExciteGeneralNew, KeepSession, Excited, RadioOn, StartWindow, Exciter, CaveState
<1>6. CASE ExciteGeneralSame
  BY <1>6 DEF ExciteGeneralSame, Excited, Exciter
<1>7. CASE ExciteConfig
  BY <1>7 DEF ExciteConfig, Excited, Exciter, RadioOn, StartWindow
<1>8. CASE ExciteTest
  BY <1>8 DEF ExciteTest, Excited, Exciter
<1>9. CASE ExciteEntranceNew
  BY <1>9 DEF ExciteEntranceNew, Excited, Exciter, AddAlarmAndSleep
<1>10. CASE ExciteEntranceSame
  BY <1>10 DEF ExciteEntranceSame, Excited, Exciter
<1>11. CASE ExciteUndefined
  BY <1>11 DEF ExciteUndefined, Excited, Exciter
<1>12. CASE NotTimedOut
  BY <1>12 DEF NotTimedOut
<1>13. CASE TimeoutSynchronizing
  BY <1>13 DEF TimeoutSynchronizing, TimedOut
<1>14. CASE TimeoutPending
  BY <1>14 DEF TimeoutPending, TimedOut, CountSilence
<1>15. CASE TimeoutInCave
  BY <1>15 DEF TimeoutInCave, TimedOut, CountCaveSilence
<1>16. CASE TimeoutConfig
  BY <1>16 DEF TimeoutConfig, SystemReset, Exciter
<1>17. CASE TimeoutOther
  BY <1>17 DEF TimeoutOther, TimedOut, EntryState
<1>18. CASE NoPacket
  BY <1>18 DEF NoPacket
<1>19. CASE PacketSynchronizing
  BY <1>19, ZenonT(40) DEF PacketSynchronizing, PacketIn, Consume, time_synchronizing
<1>20. CASE PacketPending
  BY <1>20, ZenonT(40) DEF PacketPending, PacketIn, Consume, time_synchronizing, NodePacket, Packet
<1>21. CASE PacketInCave
  BY <1>21 DEF PacketInCave, PacketIn, time_synchronizing, CountOwnNode
<1>22. CASE PacketConfig
  BY <1>22, ZenonT(40) DEF PacketConfig, PacketIn, Consume, SystemReset
<1>23. CASE PacketOther
  BY <1>23 DEF PacketOther, PacketIn, Consume
<1>24. CASE NoAlarm
  BY <1>24 DEF NoAlarm
<1>25. CASE AlarmConfig
  BY <1>25 DEF AlarmConfig, AlarmIn
<1>26. CASE AlarmPending
  BY <1>26 DEF AlarmPending, AlarmIn, set_next_wake_time, RadioOn, StartWindow
<1>27. CASE AlarmInCave
  BY <1>27 DEF AlarmInCave, AlarmIn, set_next_wake_time, RadioOn, StartWindow
<1>28. CASE AlarmEntrance
  BY <1>28, ZenonT(40) DEF AlarmEntrance, AlarmIn, set_next_wake_time,
    RadioOn, AddAlarmAndSleep
<1>29. CASE AlarmHeart
  BY <1>29 DEF AlarmHeart, AlarmIn, set_next_wake_time, AddAlarmAndSleep
<1>30. CASE AlarmExit
  BY <1>30 DEF AlarmExit, ExitDone, AlarmIn, AddAlarmAndSleep
<1>31. CASE AlarmOther
  BY <1>31 DEF AlarmOther, AlarmIn, RadioOn
<1>32. CASE PMATCH_IRQHandler
  BY <1>32 DEF PMATCH_IRQHandler, Awakened
<1>33. CASE Alarm1
  BY <1>33 DEF Alarm1, Awakened
<1>34. CASE Alarm0
  BY <1>34 DEF Alarm0, Awakened
<1>35. CASE SysTick_Handler
  BY <1>35 DEF SysTick_Handler
<1>36. CASE Elapse
  BY <1>36 DEF Elapse
<1>37. CASE Receive
  BY <1>37 DEF Receive, Arriving
<1>38. CASE UNCHANGED vars
  BY <1>38 DEF vars
<1> QED
  BY <1>1, <1>2, <1>3, <1>4, <1>5, <1>6, <1>7, <1>8, <1>9, <1>10, <1>11, <1>12, <1>13, <1>14, <1>15, <1>16, <1>17, <1>18, <1>19, <1>20, <1>21, <1>22, <1>23, <1>24, <1>25, <1>26, <1>27, <1>28, <1>29, <1>30, <1>31, <1>32, <1>33, <1>34, <1>35, <1>36, <1>37, <1>38
  DEF Next, MainStep, Interrupt

LEMMA DataStep == ASSUME FlagTypes, DataTypes, [Next]_vars PROVE DataTypes'
<1>0. pool \in Pool
  BY DEF DataTypes
<1> USE <1>0, PoolType
<1> USE DEF DataTypes, Section, Sleeping, CardState, CaveState, EntryState, AlarmPhase,
            control, receiver, session, counters, received, entry, timer, rtc, radio,
            Goto, EnterSleep
<1>1. CASE Doze
  BY <1>1 DEF Doze
<1>2. CASE WakeUp
  BY <1>2 DEF WakeUp, as3933_data_read, Exciter
<1>3. CASE FalseWakeUp
  BY <1>3 DEF FalseWakeUp
<1>4. CASE NotExcited
  BY <1>4 DEF NotExcited
<1>5. CASE ExciteGeneralNew
  BY <1>5 DEF ExciteGeneralNew, KeepSession, Excited, RadioOn, StartWindow, Exciter, CaveState
<1>6. CASE ExciteGeneralSame
  BY <1>6 DEF ExciteGeneralSame, Excited, Exciter
<1>7. CASE ExciteConfig
  BY <1>7 DEF ExciteConfig, Excited, Exciter, RadioOn, StartWindow
<1>8. CASE ExciteTest
  BY <1>8 DEF ExciteTest, Excited, Exciter
<1>9. CASE ExciteEntranceNew
  BY <1>9 DEF ExciteEntranceNew, Excited, Exciter, AddAlarmAndSleep
<1>10. CASE ExciteEntranceSame
  BY <1>10 DEF ExciteEntranceSame, Excited, Exciter
<1>11. CASE ExciteUndefined
  BY <1>11 DEF ExciteUndefined, Excited, Exciter
<1>12. CASE NotTimedOut
  BY <1>12 DEF NotTimedOut
<1>13. CASE TimeoutSynchronizing
  BY <1>13 DEF TimeoutSynchronizing, TimedOut
<1>14. CASE TimeoutPending
  BY <1>14 DEF TimeoutPending, TimedOut, CountSilence
<1>15. CASE TimeoutInCave
  BY <1>15 DEF TimeoutInCave, TimedOut, CountCaveSilence
<1>16. CASE TimeoutConfig
  BY <1>16 DEF TimeoutConfig, SystemReset, Exciter
<1>17. CASE TimeoutOther
  BY <1>17 DEF TimeoutOther, TimedOut, EntryState
<1>18. CASE NoPacket
  BY <1>18 DEF NoPacket
<1>19. CASE PacketSynchronizing
  <2> DEFINE p == Head(pool)
  <2>1. pool # <<>>
    BY <1>19 DEF PacketSynchronizing, PacketIn
  <2>2. CASE SynPacket(p) /\ p.src = exciterID
    BY <1>19, <2>1, <2>2 DEF PacketSynchronizing, time_synchronizing
  <2>3. CASE ~(SynPacket(p) /\ p.src = exciterID)
    <3>1. Consume /\ UNCHANGED <<alarm1, c_state, PconSignal, PnoSignal>>
      BY <1>19, <2>3, Zenon DEF PacketSynchronizing
    <3>2. UNCHANGED <<ex_id, exciterID, lastEID, lastRID, CnoSignal, enCount, exCount>>
      BY <1>19, Zenon DEF PacketSynchronizing
    <3> QED
      BY <2>1, <3>1, <3>2 DEF Consume
  <2> QED
    BY <2>2, <2>3
<1>20. CASE PacketPending
  <2> DEFINE p == Head(pool)
  <2>1. pool # <<>>
    BY <1>20 DEF PacketPending, PacketIn
  <2>2. NodePacket(p) => p.src \in Node
    BY <2>1 DEF NodePacket, Packet
  <2>3. CASE p.strong /\ PconSignal < cfg_icnt /\ NodePacket(p)
    BY <1>20, <2>1, <2>2, <2>3 DEF PacketPending, time_synchronizing
  <2>4. CASE p.strong /\ ~(PconSignal < cfg_icnt /\ NodePacket(p))
    BY <1>20, <2>1, <2>4, ZenonT(40) DEF PacketPending, Consume
  <2>5. CASE ~p.strong
    BY <1>20, <2>1, <2>5 DEF PacketPending
  <2> QED
    BY <2>3, <2>4, <2>5
<1>21. CASE PacketInCave
  BY <1>21 DEF PacketInCave, PacketIn, time_synchronizing, CountOwnNode
<1>22. CASE PacketConfig
  <2>1. pool # <<>>
    BY <1>22 DEF PacketConfig, PacketIn
  <2>2. CASE SystemReset
    BY <2>2 DEF SystemReset
  <2>3. CASE /\ Consume
             /\ UNCHANGED <<receiver, session, c_state, counters, entry, rtc>>
    BY <2>1, <2>3 DEF Consume
  <2>4. CASE /\ Goto("halt")
             /\ pool' = Tail(pool)
             /\ UNCHANGED <<receiver, session, c_state, counters, entry, timer,
                            rtc>>
    BY <2>1, <2>4
  <2> QED
    BY <1>22, <2>2, <2>3, <2>4 DEF PacketConfig
<1>23. CASE PacketOther
  BY <1>23 DEF PacketOther, PacketIn, Consume
<1>24. CASE NoAlarm
  BY <1>24 DEF NoAlarm
<1>25. CASE AlarmConfig
  BY <1>25 DEF AlarmConfig, AlarmIn
<1>26. CASE AlarmPending
  BY <1>26 DEF AlarmPending, AlarmIn, set_next_wake_time, RadioOn, StartWindow
<1>27. CASE AlarmInCave
  BY <1>27 DEF AlarmInCave, AlarmIn, set_next_wake_time, RadioOn, StartWindow
<1>28. CASE AlarmEntrance
  BY <1>28 DEF AlarmEntrance, AlarmIn, set_next_wake_time, RadioOn, AddAlarmAndSleep
<1>29. CASE AlarmHeart
  BY <1>29 DEF AlarmHeart, AlarmIn, set_next_wake_time, AddAlarmAndSleep
<1>30. CASE AlarmExit
  BY <1>30 DEF AlarmExit, ExitDone, AlarmIn, AddAlarmAndSleep
<1>31. CASE AlarmOther
  BY <1>31 DEF AlarmOther, AlarmIn, RadioOn
<1>32. CASE PMATCH_IRQHandler
  BY <1>32 DEF PMATCH_IRQHandler, Awakened
<1>33. CASE Alarm1
  BY <1>33 DEF Alarm1, Awakened
<1>34. CASE Alarm0
  BY <1>34 DEF Alarm0, Awakened
<1>35. CASE SysTick_Handler
  BY <1>35 DEF SysTick_Handler
<1>36. CASE Elapse
  BY <1>36 DEF Elapse
<1>37. CASE Receive
  BY <1>37 DEF Receive, Arriving
<1>38. CASE UNCHANGED vars
  BY <1>38 DEF vars
<1> QED
  BY <1>1, <1>2, <1>3, <1>4, <1>5, <1>6, <1>7, <1>8, <1>9, <1>10, <1>11, <1>12, <1>13, <1>14, <1>15, <1>16, <1>17, <1>18, <1>19, <1>20, <1>21, <1>22, <1>23, <1>24, <1>25, <1>26, <1>27, <1>28, <1>29, <1>30, <1>31, <1>32, <1>33, <1>34, <1>35, <1>36, <1>37, <1>38
  DEF Next, MainStep, Interrupt

\* The variables of TagCard have their types.
THEOREM TypeCorrect == Spec => []TypeOK
<1>1. TypeOK /\ [Next]_vars => TypeOK'
  BY FlagStep, DataStep DEF TypeOK
<1> QED
  BY TypeInit, <1>1, PTL DEF Spec

-----------------------------------------------------------------------------
(* The cave session.                                                       *)

CaveSession == CounterBounds /\ OneRunAtATime /\ KnowsItsNode

LEMMA CaveInit == Init => CaveSession
  BY ConstantsAssumption DEF Init, CaveSession, CounterBounds, OneRunAtATime, KnowsItsNode

\* The counters stay within their limits, one of PconSignal and PnoSignal is zero, and
\* the card in the cave knows its node, after every step.
LEMMA CaveStep == ASSUME DataTypes, CaveSession, [Next]_vars PROVE CaveSession'
<1> USE ConstantsAssumption
<1> USE DEF CaveSession, CounterBounds, OneRunAtATime, KnowsItsNode, DataTypes,
            session, counters, entry
<1>1. CASE ExciteGeneralNew
  BY <1>1 DEF ExciteGeneralNew, KeepSession, Excited
<1>2. CASE ExciteConfig
  BY <1>2 DEF ExciteConfig, Excited
<1>3. CASE ExciteEntranceNew
  BY <1>3 DEF ExciteEntranceNew, Excited
<1>4. CASE TimeoutPending
  BY <1>4 DEF TimeoutPending, Patient, CountSilence
<1>5. CASE TimeoutInCave
  BY <1>5 DEF TimeoutInCave, Patient, CountCaveSilence
<1>6. CASE TimeoutConfig
  BY <1>6 DEF TimeoutConfig, SystemReset
<1>7. CASE PacketSynchronizing
  BY <1>7 DEF PacketSynchronizing
<1>8. CASE PacketPending
  <2> DEFINE p == Head(pool)
  <2>1. pool # <<>> /\ c_state = "pending"
    BY <1>8 DEF PacketPending, PacketIn
  <2>2. NodePacket(p) => p.src \in Node
    BY <2>1, PoolType DEF NodePacket, Packet
  <2>3. CASE p.strong /\ PconSignal < cfg_icnt /\ NodePacket(p)
    BY <1>8, <2>1, <2>2, <2>3 DEF PacketPending
  <2>4. CASE ~(p.strong /\ PconSignal < cfg_icnt /\ NodePacket(p))
    BY <1>8, <2>4 DEF PacketPending
  <2> QED
    BY <2>3, <2>4
<1>9. CASE PacketInCave
  BY <1>9 DEF PacketInCave, CountOwnNode
<1>10. CASE PacketConfig
  BY <1>10 DEF PacketConfig, SystemReset
<1>11. CASE AlarmPending
  BY <1>11 DEF AlarmPending, AlarmIn, Known
<1>12. CASE AlarmEntrance
  BY <1>12 DEF AlarmEntrance, AlarmIn, MoreToSend
<1>13. CASE AlarmHeart
  BY <1>13 DEF AlarmHeart, AlarmIn
<1>14. CASE AlarmExit
  BY <1>14 DEF AlarmExit, ExitDone, AlarmIn, MoreToSend
<1>15. CASE AlarmOther
  BY <1>15 DEF AlarmOther, AlarmIn
<1>16. CASE \/ Doze \/ WakeUp \/ FalseWakeUp \/ NotExcited
            \/ ExciteGeneralSame \/ ExciteTest \/ ExciteEntranceSame
            \/ ExciteUndefined \/ NotTimedOut \/ TimeoutSynchronizing
            \/ TimeoutOther \/ NoPacket \/ PacketOther \/ NoAlarm
            \/ AlarmConfig \/ AlarmInCave \/ PMATCH_IRQHandler \/ Alarm1
            \/ Alarm0 \/ SysTick_Handler \/ Elapse \/ Receive
  BY <1>16 DEF Doze, WakeUp, FalseWakeUp, NotExcited, ExciteGeneralSame, ExciteTest,
         ExciteEntranceSame, ExciteUndefined, NotTimedOut,
         TimeoutSynchronizing, TimeoutOther, NoPacket, PacketOther,
         NoAlarm, AlarmConfig, AlarmInCave, PMATCH_IRQHandler, Alarm1,
         Alarm0, SysTick_Handler, Elapse, Receive, Excited, AlarmIn
<1>17. CASE UNCHANGED vars
  BY <1>17 DEF vars
<1> QED
  BY <1>1, <1>2, <1>3, <1>4, <1>5, <1>6, <1>7, <1>8, <1>9, <1>10, <1>11, <1>12, <1>13, <1>14, <1>15, <1>16, <1>17
  DEF Next, MainStep, Interrupt

\* No order of exciters, frames and alarms takes a counter of main.c past its limit.
THEOREM CountersBounded == Spec => []CounterBounds
<1>1. TypeOK /\ CaveSession /\ [Next]_vars => (TypeOK /\ CaveSession)'
  BY FlagStep, DataStep, CaveStep DEF TypeOK
<1>2. CaveSession => CounterBounds
  BY DEF CaveSession
<1> QED
  BY TypeInit, CaveInit, <1>1, <1>2, PTL DEF Spec

\* A card is in the cave only with the node it has heard cfg_icnt times.
THEOREM CardKnowsItsNode == Spec => [](KnowsItsNode /\ OneRunAtATime)
<1>1. TypeOK /\ CaveSession /\ [Next]_vars => (TypeOK /\ CaveSession)'
  BY FlagStep, DataStep, CaveStep DEF TypeOK
<1>2. CaveSession => KnowsItsNode /\ OneRunAtATime
  BY DEF CaveSession
<1> QED
  BY TypeInit, CaveInit, <1>1, <1>2, PTL DEF Spec

\* The runs of periods with and without reception that main.c counts exclude each
\* other, whichever section of the loop abandons a session.
THEOREM RunsExclude == Spec => []OneRunAtATime
BY CardKnowsItsNode, PTL

-----------------------------------------------------------------------------
(* The entrance session.                                                   *)

LEMMA EntryInit == Init => EntrySession
  BY DEF Init, EntrySession, EntryState

\* An entrance session keeps its exciter and its completed series after every step.
LEMMA EntryStep == ASSUME DataTypes, CounterBounds, EntrySession, [Next]_vars PROVE EntrySession'
<1> USE ConstantsAssumption
<1> USE DEF EntrySession, EntryState, CaveState, CounterBounds, DataTypes,
            session, entry
<1>1. CASE ExciteGeneralNew
  BY <1>1 DEF ExciteGeneralNew, KeepSession, Excited
<1>2. CASE ExciteConfig
  BY <1>2 DEF ExciteConfig, Excited
<1>3. CASE ExciteEntranceNew
  BY <1>3 DEF ExciteEntranceNew, Excited
<1>4. CASE TimeoutSynchronizing
  BY <1>4 DEF TimeoutSynchronizing, TimedOut
<1>5. CASE TimeoutPending
  BY <1>5 DEF TimeoutPending, TimedOut
<1>6. CASE TimeoutInCave
  BY <1>6 DEF TimeoutInCave, TimedOut
<1>7. CASE TimeoutConfig
  BY <1>7 DEF TimeoutConfig, SystemReset
<1>8. CASE PacketSynchronizing
  BY <1>8 DEF PacketSynchronizing
<1>9. CASE PacketConfig
  BY <1>9 DEF PacketConfig, SystemReset
<1>10. CASE AlarmPending
  BY <1>10 DEF AlarmPending, AlarmIn
<1>11. CASE AlarmEntrance
  BY <1>11 DEF AlarmEntrance, AlarmIn, MoreToSend
<1>12. CASE AlarmHeart
  BY <1>12 DEF AlarmHeart, AlarmIn
<1>13. CASE AlarmExit
  BY <1>13 DEF AlarmExit, ExitDone, AlarmIn, MoreToSend
<1>14. CASE AlarmOther
  BY <1>14 DEF AlarmOther, AlarmIn
<1>15. CASE \/ Doze \/ WakeUp \/ FalseWakeUp \/ NotExcited
            \/ ExciteGeneralSame \/ ExciteTest \/ ExciteEntranceSame
            \/ ExciteUndefined \/ NotTimedOut \/ TimeoutOther \/ NoPacket
            \/ PacketPending \/ PacketInCave \/ PacketOther \/ NoAlarm
            \/ AlarmConfig \/ AlarmInCave \/ PMATCH_IRQHandler \/ Alarm1
            \/ Alarm0 \/ SysTick_Handler \/ Elapse \/ Receive
  BY <1>15 DEF Doze, WakeUp, FalseWakeUp, NotExcited, ExciteGeneralSame, ExciteTest,
         ExciteEntranceSame, ExciteUndefined, NotTimedOut, TimeoutOther,
         NoPacket, PacketPending, PacketInCave, PacketOther, NoAlarm,
         AlarmConfig, AlarmInCave, PMATCH_IRQHandler, Alarm1,
         Alarm0, SysTick_Handler, Elapse, Receive, Excited, AlarmIn
<1>16. CASE UNCHANGED vars
  BY <1>16 DEF vars
<1> QED
  BY <1>1, <1>2, <1>3, <1>4, <1>5, <1>6, <1>7, <1>8, <1>9, <1>10, <1>11, <1>12, <1>13, <1>14, <1>15, <1>16
  DEF Next, MainStep, Interrupt

\* The heart beat and the exit series follow a complete entrance series of an entrance
\* exciter.
THEOREM EntranceSound == Spec => []EntrySession
<1> DEFINE I == TypeOK /\ CaveSession /\ EntrySession
<1>1. I /\ [Next]_vars => I'
  BY FlagStep, DataStep, CaveStep, EntryStep DEF TypeOK, CaveSession
<1>2. Init => I
  BY TypeInit, CaveInit, EntryInit
<1> QED
  BY <1>1, <1>2, PTL DEF Spec

-----------------------------------------------------------------------------
(* Patience.  The limits of main.c are compared with counters that change  *)
(* when a window times out; silent counts the alarms that open windows.    *)
(* What relates them is tDelayValid: the period that has begun and has not *)
(* been counted yet.                                                       *)

Uncounted == IF tDelayValid THEN 1 ELSE 0

Outlasted ==
  /\ silent \in Nat
  /\ c_state = "pending" => PnoSignal + Uncounted <= silent
  /\ c_state = "in_cave" => CnoSignal + Uncounted <= silent

LEMMA AuditNext == ANext => Next
  BY DEF ANext, AStep, AInterrupt, Next

LEMMA AuditStutter == UNCHANGED avars => UNCHANGED vars
  BY DEF avars

\* A silent period is counted at most once, and only after the alarm that began it.
LEMMA MainOutlasts ==
  ASSUME FlagTypes, DataTypes, CounterBounds, Outlasted, AStep PROVE Outlasted'
<1> USE ConstantsAssumption
<1> USE DEF Outlasted, Uncounted, FlagTypes, DataTypes, CounterBounds
<1>0. MainStep /\ Observe /\ SilentMax \in Nat /\ SilentMax = cfg_xcnt + cfg_ocnt + 2
  BY DEF AStep, SilentMax
<1>1. silent' \in Nat
  BY <1>0 DEF Observe
<1>2. CASE ~(c_state' \in CaveState)
  BY <1>1, <1>2 DEF CaveState
<1>3. CASE c_state' \in CaveState /\ ~(c_state \in CaveState)
  <2>1. PacketSynchronizing
    BY <1>0, <1>3
    DEF MainStep, CaveState, EntryState, counters, session, entry, timer, received,
        Doze, WakeUp, FalseWakeUp, NotExcited, ExciteGeneralNew, KeepSession,
        ExciteGeneralSame, ExciteConfig, ExciteTest, ExciteEntranceNew,
        ExciteEntranceSame, ExciteUndefined, NotTimedOut, TimeoutSynchronizing,
        TimeoutPending, TimeoutInCave, TimeoutConfig, TimeoutOther, TimedOut, SystemReset,
        NoPacket, PacketPending, PacketInCave, PacketConfig, PacketOther, PacketIn,
        NoAlarm, AlarmConfig, AlarmPending, AlarmInCave, AlarmEntrance, AlarmHeart,
        AlarmExit, ExitDone, AlarmOther, AlarmIn
  <2> QED
    BY <1>1, <1>3, <2>1 DEF PacketSynchronizing, CaveState
<1>4. CASE c_state' \in CaveState /\ c_state \in CaveState
  <2>1. CASE BeginsPeriod
    <3>1. silent' = IF silent < SilentMax THEN silent + 1 ELSE silent
      BY <1>0, <2>1 DEF Observe, BeginsPeriod, FromNode
    <3>2. AlarmPending \/ AlarmInCave
      BY <1>0, <2>1
      DEF BeginsPeriod, MainStep, CaveState, EntryState,
          Doze, WakeUp, FalseWakeUp, NotExcited, ExciteGeneralNew,
          ExciteGeneralSame, ExciteConfig, ExciteTest, ExciteEntranceNew,
          ExciteEntranceSame, ExciteUndefined, Excited, NotTimedOut, TimeoutSynchronizing,
          TimeoutPending, TimeoutInCave, TimeoutConfig, TimeoutOther, TimedOut,
          NoPacket, PacketSynchronizing, PacketPending, PacketInCave, PacketConfig,
          PacketOther, PacketIn, NoAlarm, AlarmConfig, AlarmEntrance, AlarmHeart,
          AlarmExit, AlarmOther, AlarmIn
    <3>3. PnoSignal' = PnoSignal /\ (CnoSignal' = 0 \/ CnoSignal' = CnoSignal)
      BY <3>2 DEF AlarmPending, AlarmInCave, AlarmIn
    <3>4. c_state = "pending" /\ c_state' = "in_cave" => CnoSignal' = 0
      BY <3>2 DEF AlarmPending, AlarmInCave, AlarmIn
    <3>5. c_state = "in_cave" => c_state' = "in_cave"
      BY <3>2 DEF AlarmPending, AlarmInCave, AlarmIn
    <3>6. \A n \in Nat : n <= silent /\ n < SilentMax => n + 1 <= silent'
      BY <1>0, <3>1
    <3>7. PnoSignal < SilentMax /\ CnoSignal < SilentMax /\ 0 < SilentMax
      BY <1>0
    <3>8. \A n \in Nat : n + 1 <= silent' => n + Uncounted' <= silent'
      BY <1>1
    <3>9. \A n \in Nat : n + Uncounted <= silent => n <= silent
      OBVIOUS
    <3>10. c_state' = "pending" => PnoSignal' + Uncounted' <= silent'
      BY <1>4, <3>3, <3>5, <3>6, <3>7, <3>8, <3>9 DEF CaveState
    <3>11. c_state' = "in_cave" => CnoSignal' + Uncounted' <= silent'
      <4>1. CASE CnoSignal' = 0
        BY <3>6, <3>7, <3>8, <4>1
      <4>2. CASE c_state' = "in_cave" /\ CnoSignal' # 0
        <5>1. CnoSignal' = CnoSignal /\ c_state = "in_cave"
          BY <1>4, <3>3, <3>4, <4>2 DEF CaveState
        <5> QED
          BY <3>6, <3>7, <3>8, <3>9, <5>1
      <4> QED
        BY <4>1, <4>2
    <3> QED
      BY <1>1, <3>10, <3>11
  <2>2. CASE ~BeginsPeriod /\ FromNode
    <3>1. silent' = 0
      BY <1>0, <2>2 DEF Observe
    <3>2. PacketPending \/ PacketInCave
      BY <1>0, <1>4, <2>2
      DEF FromNode, MainStep, CaveState, EntryState,
          Doze, WakeUp, FalseWakeUp, NotExcited, ExciteGeneralNew,
          ExciteGeneralSame, ExciteConfig, ExciteTest, ExciteEntranceNew,
          ExciteEntranceSame, ExciteUndefined, Excited, NotTimedOut, TimeoutSynchronizing,
          TimeoutPending, TimeoutInCave, TimeoutConfig, TimeoutOther, TimedOut,
          NoPacket, PacketSynchronizing, PacketConfig, PacketOther, PacketIn,
          NoAlarm, AlarmConfig, AlarmPending, AlarmInCave, AlarmEntrance, AlarmHeart,
          AlarmExit, AlarmOther, AlarmIn
    <3>3. CASE PacketPending
      BY <2>2, <3>1, <3>3 DEF FromNode, PacketPending, PacketIn, NodePacket
    <3>4. CASE PacketInCave
      BY <2>2, <3>1, <3>4 DEF FromNode, PacketInCave, PacketIn, NodePacket, CountOwnNode
    <3> QED
      BY <3>2, <3>3, <3>4
  <2>3. CASE ~BeginsPeriod /\ ~FromNode
    <3>1. silent' = silent
      BY <1>0, <1>4, <2>3 DEF Observe
    <3>2. CASE TimeoutPending
      BY <1>4, <3>1, <3>2 DEF TimeoutPending, TimedOut, Patient, CountSilence, CaveState
    <3>3. CASE TimeoutInCave
      BY <1>4, <3>1, <3>3 DEF TimeoutInCave, TimedOut, Patient, CountCaveSilence, CaveState
    <3>4. CASE PacketPending
      BY <1>4, <2>3, <3>1, <3>4 DEF FromNode, PacketPending, PacketIn, NodePacket
    <3>5. CASE PacketInCave
      BY <1>4, <2>3, <3>1, <3>5 DEF FromNode, PacketInCave, PacketIn, NodePacket
    <3>6. CASE ~(TimeoutPending \/ TimeoutInCave \/ PacketPending \/ PacketInCave)
      <4>1. UNCHANGED <<c_state, counters, tDelayValid>>
        BY <1>0, <1>4, <2>3, <3>6
        DEF BeginsPeriod, MainStep, CaveState, EntryState, counters, timer,
            Doze, WakeUp, FalseWakeUp, NotExcited, ExciteGeneralNew, KeepSession,
            ExciteGeneralSame, ExciteConfig, ExciteTest, ExciteEntranceNew,
            ExciteEntranceSame, ExciteUndefined, NotTimedOut, TimeoutSynchronizing,
            TimeoutConfig, TimeoutOther, TimedOut, SystemReset,
            NoPacket, PacketSynchronizing, PacketConfig, PacketOther, PacketIn, Consume,
            NoAlarm, AlarmConfig, AlarmPending, AlarmInCave, AlarmEntrance, AlarmHeart,
            AlarmExit, ExitDone, AlarmOther, AlarmIn
      <4> QED
        BY <3>1, <4>1 DEF counters
    <3> QED
      BY <3>2, <3>3, <3>4, <3>5, <3>6
  <2> QED
    BY <2>1, <2>2, <2>3
<1> QED
  BY <1>2, <1>3, <1>4

\* An interrupt handler changes neither a counter nor a window's validity.
LEMMA InterruptOutlasts == ASSUME Outlasted, AInterrupt PROVE Outlasted'
BY DEF Outlasted, Uncounted, AInterrupt, Interrupt, observers, counters, timer,
       PMATCH_IRQHandler, Alarm1, Alarm0, SysTick_Handler, Elapse, Receive

\* The card that gives up has been silent for longer than the limit.
LEMMA GivesUpLate ==
  ASSUME FlagTypes, DataTypes, Outlasted, [ANext]_avars
  PROVE  /\ GivesUp("pending") => silent > cfg_xcnt
         /\ GivesUp("in_cave") => silent > cfg_ocnt
<1> USE ConstantsAssumption
<1>1. ASSUME NEW state \in CaveState, GivesUp(state)
      PROVE  TimeoutPending \/ TimeoutInCave
  BY <1>1
  DEF GivesUp, ANext, AStep, AInterrupt, avars, vars, MainStep, Interrupt, CaveState, EntryState,
      Doze, WakeUp, FalseWakeUp, NotExcited, ExciteGeneralNew,
      ExciteGeneralSame, ExciteConfig, ExciteTest, ExciteEntranceNew,
      ExciteEntranceSame, ExciteUndefined, Excited, NotTimedOut, TimeoutSynchronizing,
      TimeoutConfig, TimeoutOther, TimedOut,
      NoPacket, PacketSynchronizing, PacketPending, PacketInCave, PacketConfig,
      PacketOther, PacketIn, NoAlarm, AlarmConfig, AlarmPending, AlarmInCave,
      AlarmEntrance, AlarmHeart, AlarmExit, AlarmOther, AlarmIn,
      PMATCH_IRQHandler, Alarm1, Alarm0, SysTick_Handler, Elapse, Receive
<1>2. TimeoutPending => tDelayValid /\ c_state = "pending"
                        /\ (c_state' = "synchronizing" => ~(PnoSignal < cfg_xcnt))
  BY DEF TimeoutPending, TimedOut, Patient
<1>3. TimeoutInCave => tDelayValid /\ c_state = "in_cave"
                       /\ (c_state' = "synchronizing" => ~(CnoSignal < cfg_ocnt))
  BY DEF TimeoutInCave, TimedOut, Patient
<1>4. GivesUp("pending") => silent > cfg_xcnt
  <2> SUFFICES ASSUME GivesUp("pending") PROVE silent > cfg_xcnt
    OBVIOUS
  <2>1. c_state = "pending" /\ c_state' = "synchronizing"
    BY DEF GivesUp
  <2>2. tDelayValid /\ ~(PnoSignal < cfg_xcnt)
    BY <1>1, <1>2, <1>3, <2>1 DEF CaveState
  <2> QED
    BY <2>1, <2>2 DEF Outlasted, Uncounted, DataTypes
<1>5. GivesUp("in_cave") => silent > cfg_ocnt
  <2> SUFFICES ASSUME GivesUp("in_cave") PROVE silent > cfg_ocnt
    OBVIOUS
  <2>1. c_state = "in_cave" /\ c_state' = "synchronizing"
    BY DEF GivesUp
  <2>2. tDelayValid /\ ~(CnoSignal < cfg_ocnt)
    BY <1>1, <1>2, <1>3, <2>1 DEF CaveState
  <2> QED
    BY <2>1, <2>2 DEF Outlasted, Uncounted, DataTypes
<1> QED
  BY <1>4, <1>5

\* However exciters, frames, alarms and time-outs interleave, no cave session is given up
\* before more silent periods than its limit have begun: none is counted twice, and
\* none from before the last accepted packet.
THEOREM CardIsPatient == ASpec => Patience
<1> DEFINE I == TypeOK /\ CaveSession /\ Outlasted
<1>1. AInit => I
  BY TypeInit, CaveInit DEF AInit, Outlasted, Init
<1>2. I /\ [ANext]_avars => I'
  <2> SUFFICES ASSUME I, [ANext]_avars PROVE I'
    OBVIOUS
  <2>1. [Next]_vars
    BY AuditNext, AuditStutter
  <2>2. TypeOK' /\ CaveSession'
    BY <2>1, FlagStep, DataStep, CaveStep DEF TypeOK
  <2>3. Outlasted'
    <3>1. CASE AStep
      BY <3>1, MainOutlasts DEF TypeOK, CaveSession
    <3>2. CASE AInterrupt
      BY <3>2, InterruptOutlasts
    <3>3. CASE UNCHANGED avars
      BY <3>3 DEF avars, vars, observers, counters, timer, Outlasted, Uncounted
    <3> QED
      BY <3>1, <3>2, <3>3 DEF ANext
  <2> QED
    BY <2>2, <2>3
<1>3. I /\ [ANext]_avars => [/\ GivesUp("pending") => silent > cfg_xcnt
                             /\ GivesUp("in_cave") => silent > cfg_ocnt]_avars
  BY GivesUpLate DEF TypeOK
<1> QED
  BY <1>1, <1>2, <1>3, PTL DEF ASpec, Patience

=============================================================================
