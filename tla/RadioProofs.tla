------------------------------ MODULE RadioProofs ------------------------------
(***************************************************************************)
(* Proofs about the radio, for every set of packets and any number of      *)
(* frames on the air.                                                      *)
(***************************************************************************)
EXTENDS Radio, TLAPS

-------------------------------------------------------------------------------
(* Whose end is it: the driver, the transceiver and the interrupt handler. *)

\* What the transceiver becomes when a packet is sent from a state.
OnAir(mode) == IF mode = "PLL_ON" THEN "BUSY_TX" ELSE "BUSY_TX_ARET"

\* rf2xx_tat_set_trx_state is under way.
Moving == {"check", "via", "command", "verify"}

RadioTypes ==
  /\ trx \in Idle \cup Busy /\ cmd \in Idle \cup {NoCmd} /\ want \in Idle
  /\ irq \subseteq {"RX_START", "TRX_END"}
  /\ caller \in {"open", "mac", "recv", "close", "listen"}
  /\ ender \in {"rx", "tx"} /\ job \in Job \cup {NoJob}

\* There is a packet while one is being sent.
HasJob ==
  /\ pc \in {"open", "mac", "pulse", "clear", "wait", "result", "sent", "close"} => job \in Job
  /\ pc \in Moving /\ caller \in {"open", "mac", "close"} => job \in Job

\* From the pulse to the end of the transmission nothing is received, and
\* the flag that tells the handler so stays as it is.
Transmitting ==
  /\ pc = "init" => trx = "TRX_OFF" /\ irq = {}
  /\ pc = "pulse" => trx = job.mode /\ irq = {} /\ ~rx_flag
  /\ pc = "clear" => trx = OnAir(job.mode) /\ irq = {} /\ ~rx_flag
  /\ pc = "wait" =>
       \/ trx = OnAir(job.mode) /\ irq = {} /\ ~rx_flag /\ ~end_flag
       \/ trx = job.mode /\ irq \subseteq {"TRX_END"} /\ (irq # {} => ~rx_flag)
  /\ pc = "result" => trx = job.mode /\ irq = {}

\* Outside of a transmission the handler takes every end for a reception's.
Attributed ==
  /\ ~rx_flag => pc \in {"init", "pulse", "clear", "wait", "result"}
  /\ trx \in BusySending => pc \in {"clear", "wait"}
  /\ cmd # NoCmd => trx \in BusyReceiving
  /\ EndsGoTheRightWay

TurnInv == RadioTypes /\ HasJob /\ Transmitting /\ Attributed

USE DEF Idle, Busy, BusyReceiving, BusySending, Receiving, NoCmd

\* Every function sends from PLL_ON or TX_ARET_ON, and three times at most.
LEMMA JobShape ==
  ASSUME NEW p \in Job
  PROVE  /\ p.mode \in {"PLL_ON", "TX_ARET_ON"} /\ p.tries \in {1, 3}
         /\ p # NoJob
<1>1. p \in Packets
  BY RadioAssumption
<1>2. \A n \in 1..18 : /\ send_config_cmd_ack(n).mode = "PLL_ON"
                       /\ send_config_cmd_ack(n).tries = 1
  BY DEF send_config_cmd_ack
<1>3. p.mode \in {"PLL_ON", "TX_ARET_ON"} /\ p.tries \in {1, 3}
  BY <1>1, <1>2 DEF Packets, send_cave_pkt, send_syn_ack, send_ex_pkt, send_cf_ack,
     send_test_pkt, send_test_pkg, send_test_pkg_a, send_test_pkg_b, send_config_cnt_ack,
     send_config_quit_ack
<1>4. NoJob.mode = "none"
  BY DEF NoJob
<1> QED
  BY <1>3, <1>4

LEMMA TurnInit == Init => TurnInv
  BY DEF Init, TurnInv, RadioTypes, HasJob, Transmitting, Attributed, Moving,
         EndsGoTheRightWay

\* The transceiver by itself.
LEMMA TurnFrameStarts == ASSUME TurnInv, FrameStarts PROVE TurnInv'
<1>1. /\ trx \in {"RX_ON", "RX_AACK_ON"} /\ trx' \in BusyReceiving
      /\ irq' = irq \/ irq' = irq \cup {"RX_START"}
      /\ UNCHANGED <<cmd, want, caller, ender, pc, job, rx_flag, end_flag>>
  BY DEF FrameStarts, Raise, setter, sending, flags
<1>2. pc \notin {"init", "pulse", "clear", "wait", "result"}
  BY <1>1, JobShape DEF TurnInv, HasJob, Transmitting, OnAir
<1>3. RadioTypes'
  BY <1>1 DEF TurnInv, RadioTypes
<1>4. HasJob'
  BY <1>1 DEF TurnInv, HasJob
<1>5. Transmitting'
  BY <1>1, <1>2 DEF Transmitting
<1>6. EndsGoTheRightWay'
  BY <1>1 DEF TurnInv, Attributed, EndsGoTheRightWay
<1>7. Attributed'
  BY <1>1, <1>2, <1>6 DEF TurnInv, Attributed
<1> QED
  BY <1>3, <1>4, <1>5, <1>7 DEF TurnInv

LEMMA TurnFrameEnds == ASSUME TurnInv, FrameEnds PROVE TurnInv'
<1>1. /\ trx \in BusyReceiving /\ cmd' = NoCmd /\ trx' \in Idle
      /\ \/ irq' = irq /\ ender' \in {ender, "rx"}
         \/ irq' = irq \cup {"TRX_END"} /\ ender' = "rx"
      /\ UNCHANGED <<want, caller, pc, job, rx_flag, end_flag>>
  <2>1. trx \in BusyReceiving /\ cmd' = NoCmd /\ trx' \in Idle
    BY DEF FrameEnds, BackTo, TurnInv, RadioTypes
  <2>2. \/ irq' = irq /\ ender' \in {ender, "rx"}
        \/ irq' = irq \cup {"TRX_END"} /\ ender' = "rx"
    BY DEF FrameEnds, Raise
  <2>3. UNCHANGED <<want, caller, pc, job, rx_flag, end_flag>>
    BY DEF FrameEnds, setter, sending, flags
  <2> QED
    BY <2>1, <2>2, <2>3
<1>2. pc \notin {"init", "pulse", "clear", "wait", "result"} /\ rx_flag
  BY <1>1, JobShape DEF TurnInv, HasJob, Transmitting, OnAir, Attributed
<1>3. RadioTypes'
  BY <1>1 DEF TurnInv, RadioTypes
<1>4. HasJob'
  BY <1>1 DEF TurnInv, HasJob
<1>5. Transmitting'
  BY <1>1, <1>2 DEF Transmitting
<1>6. EndsGoTheRightWay'
  BY <1>1, <1>2 DEF TurnInv, Attributed, EndsGoTheRightWay
<1>7. Attributed'
  BY <1>1, <1>2, <1>6 DEF TurnInv, Attributed
<1> QED
  BY <1>3, <1>4, <1>5, <1>7 DEF TurnInv

LEMMA TurnTransmitEnds == ASSUME TurnInv, TransmitEnds PROVE TurnInv'
<1>1. pc = "wait" /\ job \in Job
  BY DEF TransmitEnds, TurnInv, Attributed, HasJob
<1>2. trx = OnAir(job.mode) /\ irq = {} /\ ~rx_flag /\ ~end_flag /\ cmd = NoCmd
  BY <1>1, JobShape DEF TransmitEnds, TurnInv, Transmitting, Attributed, OnAir
<1>3. /\ trx' = job.mode /\ cmd' = NoCmd /\ ender' = "tx"
      /\ irq' = {} \/ irq' = {"TRX_END"}
      /\ UNCHANGED <<want, caller, pc, job, rx_flag, end_flag>>
  BY <1>1, <1>2, JobShape DEF TransmitEnds, BackTo, Raise, OnAir, setter, sending, flags
<1>4. job.mode \in {"PLL_ON", "TX_ARET_ON"}
  BY <1>1, JobShape
<1>5. RadioTypes'
  BY <1>3, <1>4 DEF TurnInv, RadioTypes
<1>6. HasJob'
  BY <1>3 DEF TurnInv, HasJob
<1>7. Transmitting'
  BY <1>1, <1>2, <1>3 DEF Transmitting
<1>8. Attributed'
  BY <1>1, <1>2, <1>3, <1>4 DEF Attributed, EndsGoTheRightWay
<1> QED
  BY <1>5, <1>6, <1>7, <1>8 DEF TurnInv

LEMMA TurnHandler == ASSUME TurnInv, PBEXT1_IRQHandler PROVE TurnInv'
<1>0. rx_flag => rx_flag'
  BY DEF PBEXT1_IRQHandler, rf_rx_on, flags
<1>1. /\ irq # {} /\ irq' = {}
      /\ UNCHANGED <<trx, cmd, want, caller, ender, pc, job>>
  BY DEF PBEXT1_IRQHandler, setter, sending, observers
<1>2. pc \notin {"init", "pulse", "clear", "result"}
  BY <1>1 DEF TurnInv, Transmitting
<1>3. pc = "wait" => trx = job.mode
  BY <1>1 DEF TurnInv, Transmitting
<1>4. RadioTypes'
  BY <1>1 DEF TurnInv, RadioTypes
<1>5. HasJob'
  BY <1>1 DEF TurnInv, HasJob
<1>6. Transmitting'
  BY <1>1, <1>2, <1>3 DEF Transmitting
<1>7. Attributed'
  BY <1>0, <1>1 DEF TurnInv, Attributed, EndsGoTheRightWay
<1> QED
  BY <1>4, <1>5, <1>6, <1>7 DEF TurnInv

-------------------------------------------------------------------------------
(* The program.                                                            *)

\* The steps outside of a transmission that leave the transceiver alone.
Quiet ==
  /\ UNCHANGED <<trx, cmd, irq, rx_flag, ender>>
  /\ pc \notin {"init", "pulse", "clear", "wait", "result"}
  /\ pc' \notin {"init", "pulse", "clear", "wait", "result"}
  /\ want' \in Idle /\ caller' \in {"open", "mac", "recv", "close", "listen"}
  /\ job' \in Job \cup {NoJob}

LEMMA QuietStep == ASSUME TurnInv, Quiet, HasJob' PROVE TurnInv'
<1>1. RadioTypes'
  BY DEF TurnInv, RadioTypes, Quiet
<1>2. Transmitting'
  BY DEF Transmitting, Quiet
<1>3. EndsGoTheRightWay'
  BY DEF TurnInv, Attributed, EndsGoTheRightWay, Quiet
<1>4. Attributed'
  BY <1>3 DEF TurnInv, Attributed, Quiet
<1> QED
  BY <1>1, <1>2, <1>4 DEF TurnInv

\* rf2xx_tat_set_trx_state.
LEMMA TurnMoving ==
  ASSUME TurnInv, irq = {}, Check \/ CommandVia \/ CommandState \/ Verify
  PROVE  TurnInv'
<1>1. pc \in Moving /\ UNCHANGED <<want, caller, job, irq, rx_flag, ender>>
  <2>1. CASE Check
    BY <2>1 DEF Check, Moving, device, sending, flags, observers
  <2>2. CASE CommandVia
    BY <2>2 DEF CommandVia, Moving, setter, sending, flags, observers
  <2>3. CASE CommandState
    BY <2>3 DEF CommandState, Moving, setter, sending, flags
  <2>4. CASE Verify
    BY <2>4 DEF Verify, Moving, device, sending, flags, observers
  <2> QED
    BY <2>1, <2>2, <2>3, <2>4
<1>2. pc' \in Moving \/ pc' = caller
  BY DEF Check, CommandVia, CommandState, Verify, Moving, Return
<1>3. /\ pc \notin {"init", "pulse", "clear", "wait", "result"}
      /\ pc' \notin {"init", "pulse", "clear", "wait", "result"}
  BY <1>1, <1>2 DEF Moving, TurnInv, RadioTypes
<1>4. HasJob'
  BY <1>1, <1>2, <1>3 DEF TurnInv, RadioTypes, HasJob, Moving
<1>5. CASE Check \/ Verify
  <2>1. UNCHANGED <<trx, cmd>>
    BY <1>5 DEF Check, Verify, device
  <2>2. Quiet
    BY <1>1, <1>3, <2>1 DEF Quiet, TurnInv, RadioTypes
  <2> QED
    BY <1>4, <2>2, QuietStep
<1>6. CASE CommandVia \/ CommandState
  <2>1. PICK state \in Idle : Command(state)
    BY <1>6 DEF CommandVia, CommandState, TurnInv, RadioTypes
  <2>2. trx \notin BusySending /\ rx_flag
    BY <1>3 DEF TurnInv, Attributed
  <2>3. /\ trx' \in Idle \cup Busy /\ cmd' \in Idle \cup {NoCmd}
        /\ trx' \notin BusySending
        /\ cmd' # NoCmd => trx' \in BusyReceiving
    BY <2>1, <2>2 DEF Command, TurnInv, RadioTypes, Attributed
  <2>4. RadioTypes'
    BY <1>1, <2>3 DEF TurnInv, RadioTypes
  <2>5. Transmitting'
    BY <1>3 DEF Transmitting
  <2>6. EndsGoTheRightWay'
    BY <1>1 DEF TurnInv, Attributed, EndsGoTheRightWay
  <2>7. Attributed'
    BY <1>1, <2>2, <2>3, <2>6 DEF Attributed
  <2> QED
    BY <1>4, <2>4, <2>5, <2>7 DEF TurnInv
<1> QED
  BY <1>5, <1>6

\* mac_init, the loops around RX_ON, the sleep, and of a packet all but its
\* transmission.
LEMMA TurnAround ==
  ASSUME TurnInv, irq = {},
         \/ Open \/ Retry \/ Recv \/ GiveUp \/ Repeat \/ Close
         \/ Listen \/ ListenAgain \/ EnterSleep \/ \E p \in Job : Send(p)
  PROVE  TurnInv'
<1> USE DEF SetTrxState, device, sending, flags, observers, TurnInv, RadioTypes, HasJob
<1>1. CASE Open
  <2>1. Quiet /\ HasJob'
    BY <1>1, JobShape DEF Open, Quiet, Moving, setter
  <2> QED
    BY <2>1, QuietStep
<1>2. CASE Retry
  <2>1. Quiet /\ HasJob'
    BY <1>2 DEF Retry, Quiet, Moving
  <2> QED
    BY <2>1, QuietStep
<1>3. CASE Recv
  <2>1. Quiet /\ HasJob'
    BY <1>3 DEF Recv, Sent, Quiet, Moving, setter
  <2> QED
    BY <2>1, QuietStep
<1>4. CASE GiveUp
  <2>1. Quiet /\ HasJob'
    BY <1>4 DEF GiveUp, Sent, Quiet, Moving, setter
  <2> QED
    BY <2>1, QuietStep
<1>5. CASE Repeat
  <2>1. Quiet /\ HasJob'
    BY <1>5, JobShape DEF Repeat, Quiet, Moving
  <2> QED
    BY <2>1, QuietStep
<1>6. CASE Close
  <2>1. Quiet /\ HasJob'
    BY <1>6 DEF Close, Quiet, Moving, setter
  <2> QED
    BY <2>1, QuietStep
<1>7. CASE Listen
  <2>1. Quiet /\ HasJob'
    BY <1>7 DEF Listen, Quiet, Moving
  <2> QED
    BY <2>1, QuietStep
<1>8. CASE ListenAgain
  <2>1. Quiet /\ HasJob'
    BY <1>8 DEF ListenAgain, Quiet, Moving
  <2> QED
    BY <2>1, QuietStep
<1>9. CASE EnterSleep
  <2>1. Quiet /\ HasJob'
    BY <1>9 DEF EnterSleep, Quiet, Moving, setter
  <2> QED
    BY <2>1, QuietStep
<1>10. CASE \E p \in Job : Send(p)
  <2>1. PICK p \in Job : Send(p)
    BY <1>10
  <2>2. Quiet /\ HasJob'
    BY <2>1 DEF Send, Quiet, Moving
  <2> QED
    BY <2>2, QuietStep
<1> QED
  BY <1>1, <1>2, <1>3, <1>4, <1>5, <1>6, <1>7, <1>8, <1>9, <1>10

\* The transmission.
LEMMA TurnTransmission ==
  ASSUME TurnInv, irq = {}, Mac \/ Pulse \/ Clear \/ Wait \/ Result
  PROVE  TurnInv'
<1>1. /\ job \in Job /\ UNCHANGED <<job, irq, cmd, want, caller, ender>>
      /\ pc \in {"mac", "pulse", "clear", "wait", "result"}
      /\ pc' \in {"pulse", "clear", "wait", "result", "retry"}
  <2>1. CASE Mac
    BY <2>1 DEF Mac, device, setter, observers, TurnInv, HasJob
  <2>2. CASE Pulse
    BY <2>2 DEF Pulse, sending, setter, observers, TurnInv, HasJob
  <2>3. CASE Clear
    BY <2>3 DEF Clear, device, sending, setter, observers, TurnInv, HasJob
  <2>4. CASE Wait
    BY <2>4 DEF Wait, device, sending, setter, observers, TurnInv, HasJob
  <2>5. CASE Result
    BY <2>5 DEF Result, device, setter, observers, TurnInv, HasJob
  <2> QED
    BY <2>1, <2>2, <2>3, <2>4, <2>5
<1>2. job.mode \in {"PLL_ON", "TX_ARET_ON"}
  BY <1>1, JobShape
<1>3. HasJob'
  BY <1>1 DEF HasJob, Moving
<1>4. CASE Mac
  <2>1. pc = "mac" /\ UNCHANGED trx
    BY <1>4 DEF Mac, device
  <2>2. CASE trx = job.mode
    <3>1. pc' = "pulse" /\ ~rx_flag'
      BY <1>4, <2>2 DEF Mac, rf_tx_on
    <3>2. cmd = NoCmd
      BY <1>2, <2>2 DEF TurnInv, Attributed
    <3>3. Attributed'
      BY <1>1, <1>2, <2>1, <2>2, <3>1, <3>2 DEF Attributed, EndsGoTheRightWay
    <3>4. Transmitting'
      BY <1>1, <2>1, <2>2, <3>1 DEF Transmitting
    <3>5. RadioTypes'
      BY <1>1, <2>1 DEF TurnInv, RadioTypes
    <3> QED
      BY <1>3, <3>3, <3>4, <3>5 DEF TurnInv
  <2>3. CASE trx # job.mode
    <3>1. pc' = "retry" /\ UNCHANGED rx_flag
      BY <1>4, <2>3 DEF Mac
    <3>2. Quiet
      BY <1>1, <2>1, <3>1 DEF Quiet, TurnInv, RadioTypes
    <3> QED
      BY <1>3, <3>2, QuietStep
  <2> QED
    BY <2>2, <2>3
<1>5. CASE Pulse
  <2>1. /\ pc = "pulse" /\ pc' = "clear" /\ trx = job.mode
    BY <1>5 DEF Pulse, TurnInv, Transmitting
  <2>2. ~rx_flag /\ ~rx_flag'
    BY <1>5, <2>1 DEF Pulse, flags, TurnInv, Transmitting
  <2>3. trx' = OnAir(job.mode) /\ trx' \in BusySending
    BY <1>2, <1>5, <2>1 DEF Pulse, OnAir
  <2>4. cmd = NoCmd
    BY <1>2, <2>1 DEF TurnInv, Attributed
  <2>5. Attributed'
    BY <1>1, <2>1, <2>2, <2>3, <2>4 DEF Attributed, EndsGoTheRightWay
  <2>6. Transmitting'
    BY <1>1, <2>1, <2>2, <2>3 DEF Transmitting
  <2>7. RadioTypes'
    BY <1>1, <2>3 DEF TurnInv, RadioTypes
  <2> QED
    BY <1>3, <2>5, <2>6, <2>7 DEF TurnInv
<1>6. CASE Clear
  <2>1. /\ pc = "clear" /\ pc' = "wait" /\ UNCHANGED trx /\ trx = OnAir(job.mode)
    BY <1>6 DEF Clear, device, TurnInv, Transmitting
  <2>2. ~rx_flag /\ ~rx_flag' /\ ~end_flag'
    BY <1>6, <2>1 DEF Clear, rf2xx_clear_trx_end_flag, TurnInv, Transmitting
  <2>3. Attributed'
    BY <1>1, <2>1, <2>2 DEF TurnInv, Attributed, EndsGoTheRightWay
  <2>4. Transmitting'
    BY <1>1, <2>1, <2>2 DEF Transmitting
  <2>5. RadioTypes'
    BY <1>1, <2>1 DEF TurnInv, RadioTypes
  <2> QED
    BY <1>3, <2>3, <2>4, <2>5 DEF TurnInv
<1>7. CASE Wait
  <2>1. pc = "wait" /\ pc' = "result" /\ UNCHANGED trx
    BY <1>7 DEF Wait, device
  <2>2. trx = job.mode
    BY <1>7, <2>1 DEF Wait, TurnInv, Transmitting
  <2>3. rx_flag' <=> rx_flag
    BY <1>7 DEF Wait
  <2>4. Attributed'
    BY <1>1, <1>2, <2>1, <2>2, <2>3 DEF TurnInv, Attributed, EndsGoTheRightWay
  <2>5. Transmitting'
    BY <1>1, <2>1, <2>2 DEF Transmitting
  <2>6. RadioTypes'
    BY <1>1, <2>1 DEF TurnInv, RadioTypes
  <2> QED
    BY <1>3, <2>4, <2>5, <2>6 DEF TurnInv
<1>8. CASE Result
  <2>1. pc = "result" /\ pc' = "retry" /\ UNCHANGED trx
    BY <1>8 DEF Result, device
  <2>2. trx = job.mode
    BY <2>1 DEF TurnInv, Transmitting
  <2>3. rx_flag'
    BY <1>8 DEF Result, rf_rx_on
  <2>4. Attributed'
    BY <1>1, <1>2, <2>1, <2>2, <2>3 DEF TurnInv, Attributed, EndsGoTheRightWay
  <2>5. Transmitting'
    BY <2>1 DEF Transmitting
  <2>6. RadioTypes'
    BY <1>1, <2>1 DEF TurnInv, RadioTypes
  <2> QED
    BY <1>3, <2>4, <2>5, <2>6 DEF TurnInv
<1> QED
  BY <1>4, <1>5, <1>6, <1>7, <1>8

LEMMA TurnReset ==
  ASSUME TurnInv, irq = {}, mac_init \/ ForceOff PROVE TurnInv'
<1>1. /\ trx' = "TRX_OFF" /\ cmd' = NoCmd /\ irq' = {} /\ pc' \in {"retry", "sleep"}
      /\ UNCHANGED <<want, caller, ender, job>>
  BY DEF mac_init, ForceOff, setter, sending, observers
<1>2. rx_flag'
  BY DEF mac_init, ForceOff, rf_rx_on, flags, TurnInv, Attributed
<1>3. RadioTypes'
  BY <1>1 DEF TurnInv, RadioTypes
<1>4. HasJob' /\ Transmitting'
  BY <1>1 DEF HasJob, Transmitting, Moving
<1>5. Attributed'
  BY <1>1, <1>2 DEF Attributed, EndsGoTheRightWay
<1> QED
  BY <1>3, <1>4, <1>5 DEF TurnInv

LEMMA TurnStep == ASSUME TurnInv, [Next]_vars PROVE TurnInv'
<1>1. CASE FrameStarts
  BY <1>1, TurnFrameStarts
<1>2. CASE FrameEnds
  BY <1>2, TurnFrameEnds
<1>3. CASE TransmitEnds
  BY <1>3, TurnTransmitEnds
<1>4. CASE PBEXT1_IRQHandler
  BY <1>4, TurnHandler
<1>5. CASE Program
  <2>1. irq = {} /\ (Continue \/ Call)
    BY <1>5 DEF Program
  <2>2. CASE Check \/ CommandVia \/ CommandState \/ Verify
    BY <2>1, <2>2, TurnMoving
  <2>3. CASE \/ Open \/ Retry \/ Recv \/ GiveUp \/ Repeat \/ Close
             \/ Listen \/ ListenAgain \/ EnterSleep \/ \E p \in Job : Send(p)
    BY <2>1, <2>3, TurnAround
  <2>4. CASE Mac \/ Pulse \/ Clear \/ Wait \/ Result
    BY <2>1, <2>4, TurnTransmission
  <2>5. CASE mac_init \/ ForceOff
    BY <2>1, <2>5, TurnReset
  <2> QED
    BY <2>1, <2>2, <2>3, <2>4, <2>5 DEF Continue, Call
<1>6. CASE UNCHANGED vars
  BY <1>6 DEF vars, device, setter, sending, flags, observers, TurnInv, RadioTypes, HasJob,
              Transmitting, Attributed, EndsGoTheRightWay
<1> QED
  BY <1>1, <1>2, <1>3, <1>4, <1>5, <1>6 DEF Next, Transceiver

THEOREM TurnInvariant == Spec => []TurnInv
<1>1. Init => TurnInv
  BY TurnInit
<1>2. TurnInv /\ [Next]_vars => TurnInv'
  BY TurnStep
<1> QED
  BY <1>1, <1>2, PTL DEF Spec

\* The status of a transmission is read when that transmission is over, though the
\* flag waited for (rf2xx_tat.c:975) is set by the end of a reception as well.
THEOREM StatusIsOfThisPacket == Spec => []StatusAfterTheEnd
<1>1. TurnInv => StatusAfterTheEnd
  BY DEF TurnInv, Transmitting, StatusAfterTheEnd
<1> QED
  BY <1>1, TurnInvariant, PTL

\* The handler never takes the end of a transmission for a frame received, nor the
\* other way round (rf2xx_mcu.c:104-116).
THEOREM EndsAttributed == Spec => []EndsGoTheRightWay
<1>1. TurnInv => EndsGoTheRightWay
  BY DEF TurnInv, Attributed
<1> QED
  BY <1>1, TurnInvariant, PTL

-------------------------------------------------------------------------------
(* How often a packet goes out, and what is said of it.                    *)

\* The phases of a packet: none, before a send, from its end on, the last RX_ON.
Free ==
  \/ pc \in {"init", "idle", "sleep", "listen"}
  \/ pc \in Moving /\ caller = "listen"

Before ==
  \/ pc \in {"open", "mac", "pulse", "clear"}
  \/ pc \in Moving /\ caller \in {"open", "mac"}
  \/ pc = "wait" /\ trx \in BusySending

Ended ==
  \/ pc = "result"
  \/ pc = "wait" /\ trx \notin BusySending

BackToRx ==
  \/ pc \in {"retry", "recv"}
  \/ pc \in Moving /\ caller = "recv"

Closing ==
  \/ pc = "close"
  \/ pc \in Moving /\ caller = "close"

SendTypes == send_count \in Nat /\ aired \in Nat

\* send_count is the number of sends that are over, but from the end of one on to
\* the loop that counts it.
Counted ==
  /\ Free => job = NoJob
  /\ Before => aired <= send_count /\ send_count < job.tries
  /\ (Ended \/ BackToRx \/ pc = "sent") /\ job \in Job =>
       aired <= send_count + 1 /\ send_count < job.tries
  /\ Closing => aired <= job.tries

\* A success, wherever it is kept, is that of a packet that went out.
Reported ==
  /\ Ended /\ trac => aired > 0
  /\ BackToRx /\ job \in Job /\ mac_ret = 0 => aired > 0
  /\ pc = "sent" /\ is_sent = 0 => aired > 0

SendInv == SendTypes /\ Counted /\ Reported

LEMMA SendInit == Init => SendInv
  BY DEF Init, SendInv, SendTypes, Counted, Reported, Free, Before, Ended, BackToRx, Closing,
         Moving

\* The steps that stay in a phase.
Stays ==
  /\ UNCHANGED <<job, send_count, aired, is_sent, mac_ret>>
  /\ Free' => Free
  /\ Before' => Before
  /\ Ended' => Ended /\ (trac' => trac)
  /\ BackToRx' => BackToRx
  /\ Closing' => Closing
  /\ pc' = "sent" => pc = "sent"

LEMMA StaysStep == ASSUME SendInv, Stays PROVE SendInv'
<1>1. SendTypes'
  BY DEF SendInv, SendTypes, Stays
<1>2. Counted'
  BY DEF SendInv, Counted, Stays
<1>3. Reported'
  BY DEF SendInv, Reported, Stays
<1> QED
  BY <1>1, <1>2, <1>3 DEF SendInv

LEMMA SendFrames ==
  ASSUME TurnInv, SendInv, FrameStarts \/ FrameEnds PROVE SendInv'
<1>1. /\ trx \in {"RX_ON", "RX_AACK_ON"} \cup BusyReceiving
      /\ UNCHANGED <<pc, caller, job, send_count, aired, is_sent, mac_ret>>
  BY DEF FrameStarts, FrameEnds, sending
<1>2. pc \notin {"result", "wait"}
  BY <1>1, JobShape DEF TurnInv, HasJob, Transmitting, OnAir
<1>3. Stays
  BY <1>1, <1>2 DEF Stays, Free, Before, Ended, BackToRx, Closing
<1> QED
  BY <1>3, StaysStep

LEMMA SendTransmitEnds ==
  ASSUME TurnInv, SendInv, TransmitEnds PROVE SendInv'
<1>1. pc = "wait" /\ job \in Job /\ trx \in BusySending
  BY DEF TransmitEnds, TurnInv, Attributed, HasJob
<1>2. UNCHANGED <<pc, job, send_count, is_sent, mac_ret>>
  BY DEF TransmitEnds, sending
<1>3. aired \in Nat /\ send_count \in Nat /\ aired <= send_count /\ send_count < job.tries
  BY <1>1 DEF SendInv, SendTypes, Counted, Before
<1>4. aired' = aired + 1 \/ aired' = aired
  BY DEF TransmitEnds
<1>5. trac' => aired' = aired + 1
  BY DEF TransmitEnds
<1>6. trx' \notin BusySending
  <2>1. cmd = NoCmd
    BY <1>1 DEF TurnInv, Attributed
  <2> QED
    BY <2>1 DEF TransmitEnds, BackTo
<1>7. aired' \in Nat /\ aired' <= send_count' + 1 /\ send_count' \in Nat
      /\ send_count' < job'.tries
  BY <1>2, <1>3, <1>4
<1>8. trac' => aired' > 0
  BY <1>3, <1>5
<1>9. ~Free' /\ ~Before' /\ ~Closing' /\ ~BackToRx' /\ pc' # "sent"
  BY <1>1, <1>2, <1>6 DEF Free, Before, Closing, BackToRx, Moving
<1>10. SendTypes'
  BY <1>7 DEF SendTypes
<1>11. Counted'
  BY <1>7, <1>9 DEF Counted
<1>12. Reported'
  BY <1>8, <1>9 DEF Reported
<1> QED
  BY <1>10, <1>11, <1>12 DEF SendInv

\* The program within a phase.
LEMMA SendStays ==
  ASSUME TurnInv, TurnInv', SendInv,
         \/ Check \/ CommandVia \/ CommandState \/ Verify \/ Pulse \/ Clear \/ Wait
         \/ Retry \/ Listen \/ ListenAgain \/ ForceOff \/ EnterSleep
         \/ PBEXT1_IRQHandler
  PROVE  SendInv'
<1> USE DEF Free, Before, Ended, BackToRx, Closing, Moving, sending, observers, device,
            setter, SetTrxState
<1>1. CASE Check \/ Verify
  <2>1. UNCHANGED <<job, send_count, aired, is_sent, mac_ret, trx, caller>>
    BY <1>1 DEF Check, Verify
  <2>2. pc \in Moving /\ (pc' \in Moving \/ pc' = caller)
    BY <1>1 DEF Check, Verify, Return
  <2>3. caller \in {"open", "mac", "recv", "close", "listen"}
    BY DEF TurnInv, RadioTypes
  <2>4. Stays
    BY <2>1, <2>2, <2>3 DEF Stays
  <2> QED
    BY <2>4, StaysStep
<1>2. CASE CommandVia \/ CommandState
  <2>1. UNCHANGED <<job, send_count, aired, is_sent, mac_ret, caller>>
    BY <1>2 DEF CommandVia, CommandState
  <2>2. pc \in Moving /\ pc' \in Moving
    BY <1>2 DEF CommandVia, CommandState
  <2>3. Stays
    BY <2>1, <2>2 DEF Stays
  <2> QED
    BY <2>3, StaysStep
<1>3. CASE Pulse
  <2>1. UNCHANGED <<job, send_count, aired, is_sent, mac_ret>> /\ pc = "pulse" /\ pc' = "clear"
    BY <1>3 DEF Pulse
  <2>2. Stays
    BY <2>1 DEF Stays
  <2> QED
    BY <2>2, StaysStep
<1>4. CASE Clear
  <2>1. UNCHANGED <<job, send_count, aired, is_sent, mac_ret>> /\ pc = "clear" /\ pc' = "wait"
        /\ UNCHANGED trx
    BY <1>4 DEF Clear
  <2>2. trx \in BusySending
    BY <2>1 DEF TurnInv, Transmitting, OnAir
  <2>3. Stays
    BY <2>1, <2>2 DEF Stays
  <2> QED
    BY <2>3, StaysStep
<1>5. CASE Wait
  <2>1. UNCHANGED <<job, send_count, aired, is_sent, mac_ret, trac>>
        /\ pc = "wait" /\ pc' = "result" /\ job \in Job
    BY <1>5 DEF Wait, TurnInv, HasJob
  <2>2. trx = job.mode
    BY <1>5, <2>1 DEF Wait, TurnInv, Transmitting
  <2>3. trx \notin BusySending
    BY <2>1, <2>2, JobShape
  <2>4. Stays
    BY <2>1, <2>3 DEF Stays
  <2> QED
    BY <2>4, StaysStep
<1>6. CASE Retry
  <2>1. UNCHANGED <<job, send_count, aired, is_sent, mac_ret>>
        /\ pc = "retry" /\ pc' = "check" /\ caller' = "recv"
    BY <1>6 DEF Retry
  <2>2. BackToRx /\ ~Free' /\ ~Before' /\ ~Ended' /\ ~Closing' /\ pc' # "sent"
    BY <2>1
  <2> QED
    BY <2>1, <2>2, StaysStep DEF Stays
<1>7. CASE Listen \/ ListenAgain
  <2>1. UNCHANGED <<job, send_count, aired, is_sent, mac_ret>>
        /\ pc \in {"idle", "listen"}
    BY <1>7 DEF Listen, ListenAgain
  <2>2. pc' = "idle" \/ (pc' = "check" /\ caller' = "listen")
    BY <1>7 DEF Listen, ListenAgain
  <2>3. Free /\ ~Before' /\ ~Ended' /\ ~BackToRx' /\ ~Closing' /\ pc' # "sent"
    BY <2>1, <2>2
  <2> QED
    BY <2>1, <2>3, StaysStep DEF Stays
<1>8. CASE ForceOff \/ EnterSleep
  <2>1. UNCHANGED <<job, send_count, aired, is_sent, mac_ret>>
        /\ pc \in {"idle", "sleep"} /\ pc' \in {"idle", "sleep"}
    BY <1>8 DEF ForceOff, EnterSleep
  <2>2. Free /\ ~Before' /\ ~Ended' /\ ~BackToRx' /\ ~Closing' /\ pc' # "sent"
    BY <2>1
  <2> QED
    BY <2>1, <2>2, StaysStep DEF Stays
<1>9. CASE PBEXT1_IRQHandler
  <2>1. UNCHANGED <<job, send_count, aired, is_sent, mac_ret, pc, caller, trx, trac>>
    BY <1>9 DEF PBEXT1_IRQHandler
  <2>2. Stays
    BY <2>1 DEF Stays
  <2> QED
    BY <2>2, StaysStep
<1> QED
  BY <1>1, <1>2, <1>3, <1>4, <1>5, <1>6, <1>7, <1>8, <1>9

\* A phase begins.
LEMMA SendBegins ==
  ASSUME TurnInv, SendInv, (\E p \in Job : Send(p)) \/ Open \/ mac_init PROVE SendInv'
<1> USE DEF Free, Before, Ended, BackToRx, Closing, Moving
<1>1. ASSUME NEW p \in Job, Send(p) PROVE SendInv'
  <2>1. job' \in Job /\ send_count' = 0 /\ aired' = 0 /\ pc' = "check" /\ caller' = "open"
    BY <1>1 DEF Send, SetTrxState
  <2>2. job'.tries \in {1, 3}
    BY <2>1, JobShape
  <2>3. Before' /\ ~Free' /\ ~Ended' /\ ~BackToRx' /\ ~Closing' /\ pc' # "sent"
    BY <2>1
  <2>4. SendTypes'
    BY <2>1 DEF SendTypes
  <2>5. 0 <= send_count' /\ send_count' < job'.tries
    BY <2>1, <2>2
  <2>6. Counted'
    BY <2>1, <2>3, <2>5 DEF Counted
  <2>7. Reported'
    BY <2>3 DEF Reported
  <2> QED
    BY <2>4, <2>6, <2>7 DEF SendInv
<1>2. CASE Open
  <2>1. pc = "open" /\ UNCHANGED <<send_count, aired, mac_ret>>
    BY <1>2 DEF Open, observers
  <2>2. CASE status = "SUCCESS"
    <3>1. pc' = "check" /\ caller' = "mac" /\ UNCHANGED job
      BY <1>2, <2>2 DEF Open, SetTrxState
    <3>2. Before /\ Before' /\ ~Free' /\ ~Ended' /\ ~BackToRx' /\ ~Closing' /\ pc' # "sent"
      BY <2>1, <3>1
    <3>3. SendTypes'
      BY <2>1 DEF SendInv, SendTypes
    <3>4. Counted'
      BY <2>1, <3>1, <3>2 DEF SendInv, Counted
    <3>5. Reported'
      BY <3>2 DEF Reported
    <3> QED
      BY <3>3, <3>4, <3>5 DEF SendInv
  <2>3. CASE status # "SUCCESS"
    <3>1. pc' = "idle" /\ job' = NoJob
      BY <1>2, <2>3 DEF Open
    <3>2. ~Before' /\ ~Ended' /\ ~BackToRx' /\ ~Closing' /\ pc' # "sent"
      BY <3>1
    <3>3. SendTypes'
      BY <2>1 DEF SendInv, SendTypes
    <3>4. Counted'
      BY <3>1, <3>2 DEF Counted
    <3>5. Reported'
      BY <3>2 DEF Reported
    <3> QED
      BY <3>3, <3>4, <3>5 DEF SendInv
  <2> QED
    BY <2>2, <2>3
<1>3. CASE mac_init
  <2>1. pc \in {"init", "idle"} /\ pc' = "retry" /\ UNCHANGED <<job, send_count, aired>>
    BY <1>3 DEF mac_init, sending
  <2>2. job' = NoJob
    BY <2>1 DEF SendInv, Counted
  <2>3. job' \notin Job
    BY <2>2, JobShape
  <2>4. ~Free' /\ ~Before' /\ ~Ended' /\ ~Closing' /\ pc' # "sent"
    BY <2>1
  <2>5. SendTypes'
    BY <2>1 DEF SendInv, SendTypes
  <2>6. Counted'
    BY <2>3, <2>4 DEF Counted
  <2>7. Reported'
    BY <2>3, <2>4 DEF Reported
  <2> QED
    BY <2>5, <2>6, <2>7 DEF SendInv
<1> QED
  BY <1>1, <1>2, <1>3

\* From the send to the reception switched on again.
LEMMA SendTurns ==
  ASSUME TurnInv, SendInv, Mac \/ Result PROVE SendInv'
<1> USE DEF Free, Before, Ended, BackToRx, Closing, Moving
<1>1. job \in Job /\ UNCHANGED <<job, send_count, aired>> /\ pc \in {"mac", "result"}
  BY DEF Mac, Result, TurnInv, HasJob, observers
<1>2. SendTypes'
  BY <1>1 DEF SendInv, SendTypes
<1>3. CASE pc' = "pulse"
  <2>1. pc = "mac"
    BY <1>3 DEF Mac, Result
  <2>2. Before /\ Before' /\ ~Free' /\ ~Ended' /\ ~BackToRx' /\ ~Closing' /\ pc' # "sent"
    BY <1>3, <2>1
  <2>3. Counted'
    BY <1>1, <2>2 DEF SendInv, Counted
  <2>4. Reported'
    BY <2>2 DEF Reported
  <2> QED
    BY <1>2, <2>3, <2>4 DEF SendInv
<1>4. CASE pc' = "retry"
  <2>1. ~Free' /\ ~Before' /\ ~Ended' /\ ~Closing' /\ pc' # "sent"
    BY <1>4
  <2>2. send_count \in Nat /\ aired \in Nat /\ aired <= send_count + 1 /\ send_count < job.tries
    <3>1. send_count \in Nat /\ aired \in Nat
      BY DEF SendInv, SendTypes
    <3>2. CASE pc = "mac"
      <4>1. Before
        BY <3>2
      <4>2. aired <= send_count /\ send_count < job.tries
        BY <4>1 DEF SendInv, Counted
      <4> QED
        BY <3>1, <4>2
    <3>3. CASE pc = "result"
      <4>1. Ended
        BY <3>3
      <4> QED
        BY <1>1, <3>1, <4>1 DEF SendInv, Counted
    <3> QED
      BY <1>1, <3>2, <3>3
  <2>3. Counted'
    BY <1>1, <2>1, <2>2 DEF Counted
  <2>4. mac_ret' = 0 => aired > 0
    <3>1. CASE Mac
      BY <1>4, <3>1 DEF Mac
    <3>2. CASE Result
      <4>1. Ended /\ (mac_ret' = 0 => trac)
        BY <3>2 DEF Result, Outcome
      <4> QED
        BY <4>1 DEF SendInv, Reported
    <3> QED
      BY <3>1, <3>2
  <2>5. Reported'
    BY <1>1, <2>1, <2>4 DEF Reported
  <2> QED
    BY <1>2, <2>3, <2>5 DEF SendInv
<1> QED
  BY <1>3, <1>4 DEF Mac, Result

\* rf2xx_recv_on returns, or tries again.
LEMMA SendReturns ==
  ASSUME TurnInv, SendInv, Recv \/ GiveUp PROVE SendInv'
<1> USE DEF Free, Before, Ended, BackToRx, Closing, Moving
<1>1. UNCHANGED <<job, send_count, aired, mac_ret>> /\ BackToRx
      /\ job \in Job \cup {NoJob}
  BY DEF Recv, GiveUp, TurnInv, RadioTypes, observers
<1>2. SendTypes'
  BY <1>1 DEF SendInv, SendTypes
<1>3. CASE pc' = "retry"
  <2>1. BackToRx' /\ ~Free' /\ ~Before' /\ ~Ended' /\ ~Closing' /\ pc' # "sent"
    BY <1>3
  <2>2. Counted'
    BY <1>1, <2>1 DEF SendInv, Counted
  <2>3. Reported'
    BY <1>1, <2>1 DEF SendInv, Reported
  <2> QED
    BY <1>2, <2>2, <2>3 DEF SendInv
<1>4. CASE pc' = "idle"
  <2>1. job' = NoJob
    BY <1>1, <1>4 DEF Recv, GiveUp, Sent
  <2>2. ~Before' /\ ~Ended' /\ ~BackToRx' /\ ~Closing' /\ pc' # "sent"
    BY <1>4
  <2>3. Counted'
    BY <2>1, <2>2 DEF Counted
  <2>4. Reported'
    BY <2>2 DEF Reported
  <2> QED
    BY <1>2, <2>3, <2>4 DEF SendInv
<1>5. CASE pc' = "sent"
  <2>1. job \in Job /\ (is_sent' = 0 => mac_ret = 0)
    BY <1>1, <1>5 DEF Recv, GiveUp, Sent
  <2>2. ~Free' /\ ~Before' /\ ~Ended' /\ ~BackToRx' /\ ~Closing'
    BY <1>5
  <2>3. Counted'
    BY <1>1, <2>1, <2>2 DEF SendInv, Counted
  <2>4. Reported'
    BY <1>1, <2>1, <2>2 DEF SendInv, Reported
  <2> QED
    BY <1>2, <2>3, <2>4 DEF SendInv
<1> QED
  BY <1>3, <1>4, <1>5 DEF Recv, GiveUp, Sent

\* The loop that counts the sends, and its end.
LEMMA SendRepeats ==
  ASSUME TurnInv, SendInv, Repeat \/ Close PROVE SendInv'
<1> USE DEF Free, Before, Ended, BackToRx, Closing, Moving
<1>1. CASE Close
  <2>1. pc' = "idle" /\ job' = NoJob /\ UNCHANGED <<send_count, aired>>
    BY <1>1 DEF Close, observers
  <2>2. ~Before' /\ ~Ended' /\ ~BackToRx' /\ ~Closing' /\ pc' # "sent"
    BY <2>1
  <2>3. SendTypes'
    BY <2>1 DEF SendInv, SendTypes
  <2>4. Counted'
    BY <2>1, <2>2 DEF Counted
  <2>5. Reported'
    BY <2>2 DEF Reported
  <2> QED
    BY <2>3, <2>4, <2>5 DEF SendInv
<1>2. CASE Repeat
  <2>1. job \in Job /\ pc = "sent" /\ pc' = "check" /\ UNCHANGED <<job, aired>>
    BY <1>2 DEF Repeat, SetTrxState, observers, TurnInv, HasJob
  <2>2. send_count \in Nat /\ aired \in Nat /\ aired <= send_count + 1 /\ send_count < job.tries
    BY <2>1 DEF SendInv, SendTypes, Counted
  <2>3. job.tries \in {1, 3}
    BY <2>1, JobShape
  <2>4. send_count' = IF job.tries > 1 THEN send_count + 1 ELSE send_count
    BY <1>2 DEF Repeat
  <2>5. SendTypes'
    BY <2>1, <2>2, <2>4 DEF SendTypes
  <2>6. CASE SendAgain
    <3>1. caller' = "mac"
      BY <1>2, <2>6 DEF Repeat, SetTrxState
    <3>2. aired <= send_count' /\ send_count' < job.tries
      BY <2>2, <2>3, <2>4, <2>6 DEF SendAgain
    <3>3. ~Free' /\ ~Ended' /\ ~BackToRx' /\ ~Closing' /\ pc' # "sent"
      BY <2>1, <3>1
    <3>4. Counted'
      BY <2>1, <3>2, <3>3 DEF Counted
    <3>5. Reported'
      BY <3>3 DEF Reported
    <3> QED
      BY <2>5, <3>4, <3>5 DEF SendInv
  <2>7. CASE ~SendAgain
    <3>1. caller' = "close"
      BY <1>2, <2>7 DEF Repeat, SetTrxState
    <3>2. aired <= job.tries
      BY <2>2, <2>3
    <3>3. ~Free' /\ ~Before' /\ ~Ended' /\ ~BackToRx' /\ pc' # "sent"
      BY <2>1, <3>1
    <3>4. Counted'
      BY <2>1, <3>2, <3>3 DEF Counted
    <3>5. Reported'
      BY <3>3 DEF Reported
    <3> QED
      BY <2>5, <3>4, <3>5 DEF SendInv
  <2> QED
    BY <2>6, <2>7
<1> QED
  BY <1>1, <1>2

LEMMA SendStep ==
  ASSUME TurnInv, TurnInv', SendInv, [Next]_vars PROVE SendInv'
<1>1. CASE Program
  BY <1>1, SendStays, SendBegins, SendTurns, SendReturns, SendRepeats
     DEF Program, Continue, Call
<1>2. CASE PBEXT1_IRQHandler
  BY <1>2, SendStays
<1>3. CASE Transceiver
  BY <1>3, SendFrames, SendTransmitEnds DEF Transceiver
<1>4. CASE UNCHANGED vars
  <2>1. UNCHANGED <<job, send_count, aired, is_sent, mac_ret, pc, caller, trx, trac>>
    BY <1>4 DEF vars, device, sending, observers
  <2>2. Stays
    BY <2>1 DEF Stays, Free, Before, Ended, BackToRx, Closing
  <2> QED
    BY <2>2, StaysStep
<1> QED
  BY <1>1, <1>2, <1>3, <1>4 DEF Next

\* The count of the sends and their reports are right in every state.
THEOREM SendInvariant == Spec => []SendInv
<1>1. Init => SendInv
  BY SendInit
<1>2. TurnInv /\ TurnInv' /\ SendInv /\ [Next]_vars => SendInv'
  BY SendStep
<1> QED
  BY <1>1, <1>2, TurnInvariant, PTL DEF Spec

\* The program counter is always in a phase.
Phases == Free \/ Before \/ Ended \/ BackToRx \/ Closing \/ pc = "sent"

LEMMA PhasesStep == ASSUME TurnInv, Phases, [Next]_vars PROVE Phases'
<1> USE DEF Phases, Free, Before, Ended, BackToRx, Closing, Moving
<1>1. caller \in {"open", "mac", "recv", "close", "listen"}
  BY DEF TurnInv, RadioTypes
<1>2. CASE Check \/ Verify
  <2>1. UNCHANGED caller /\ pc \in Moving /\ (pc' \in Moving \/ pc' = caller)
    BY <1>2 DEF Check, Verify, Return
  <2> QED
    BY <1>1, <2>1
<1>3. CASE CommandVia \/ CommandState
  <2>1. UNCHANGED caller /\ pc' \in Moving
    BY <1>3 DEF CommandVia, CommandState
  <2> QED
    BY <1>1, <2>1
<1>4. CASE Open \/ Retry \/ Repeat \/ ListenAgain \/ Listen \/ \E p \in Job : Send(p)
  <2>1. \/ pc' = "idle"
        \/ pc' = "check" /\ caller' \in {"open", "mac", "recv", "close", "listen"}
    BY <1>4 DEF Open, Retry, Repeat, ListenAgain, Listen, Send, SetTrxState
  <2> QED
    BY <2>1
<1>5. CASE \/ Mac \/ Pulse \/ Clear \/ Wait \/ Result \/ Recv \/ GiveUp \/ Close
           \/ EnterSleep \/ mac_init \/ ForceOff
  <2>1. pc' \in {"idle", "sleep", "pulse", "clear", "wait", "result", "retry", "sent"}
    BY <1>5 DEF Mac, Pulse, Clear, Wait, Result, Recv, GiveUp, Sent, Close, EnterSleep,
       mac_init, ForceOff
  <2> QED
    BY <2>1
<1>6. CASE Transceiver \/ PBEXT1_IRQHandler \/ UNCHANGED vars
  <2>1. UNCHANGED <<pc, caller>>
    BY <1>6 DEF Transceiver, FrameStarts, FrameEnds, TransmitEnds, PBEXT1_IRQHandler, vars
  <2> QED
    BY <2>1
<1> QED
  BY <1>2, <1>3, <1>4, <1>5, <1>6 DEF Next, Program, Continue, Call

LEMMA AlwaysInAPhase == Spec => []Phases
<1>1. Init => Phases
  BY DEF Init, Phases, Free
<1>2. TurnInv /\ Phases /\ [Next]_vars => Phases'
  BY PhasesStep
<1> QED
  BY <1>1, <1>2, TurnInvariant, PTL DEF Spec

\* No packet goes out more often than its function allows: the number of sends
\* on the air is at most the count of the loop while a send is prepared, one more
\* from its end to the loop, and the loop ends at its limit.
THEOREM PacketSentAtMost == Spec => []SendsBounded
<1>1. TurnInv /\ SendInv /\ Phases => SendsBounded
  <2> SUFFICES ASSUME TurnInv, SendInv, Phases, job # NoJob PROVE aired <= job.tries
    BY DEF SendsBounded
  <2>1. job \in Job
    BY DEF TurnInv, RadioTypes
  <2>2. job.tries \in {1, 3} /\ send_count \in Nat /\ aired \in Nat
    BY <2>1, JobShape DEF SendInv, SendTypes
  <2> QED
    BY <2>1, <2>2 DEF SendInv, Counted, Phases
<1> QED
  BY <1>1, TurnInvariant, SendInvariant, AlwaysInAPhase, PTL

\* A packet reported as sent has been on the air: the result comes from the
\* TRAC_STATUS of its own end, through mac_ret, and no failure is turned into 0.
THEOREM ReportedMeansAired == Spec => []SentMeansAired
<1>1. SendInv => SentMeansAired
  BY DEF SendInv, Reported, SentMeansAired
<1> QED
  BY <1>1, SendInvariant, PTL

-------------------------------------------------------------------------------
(* Type correctness.  The bounds of the counts of sends are those of       *)
(* SendInv.                                                                *)

FlagTypes ==
  /\ slp \in BOOLEAN /\ trac \in BOOLEAN /\ configured \in BOOLEAN
  /\ end_flag \in BOOLEAN /\ rx_flag \in BOOLEAN /\ crossed \in BOOLEAN

ControlTypes ==
  /\ pc \in {"idle", "init", "sleep", "check", "via", "command", "verify", "open",
             "mac", "pulse", "clear", "wait", "result", "retry", "recv", "sent",
             "close", "listen"}
  /\ status \in {"SUCCESS", "WRONG_STATE", "BUSY_STATE", "TIMED_OUT"}

CountTypes ==
  /\ retry \in 0..3 /\ cnt \in 0..4
  /\ send_count \in 0..3 /\ aired \in 0..3
  /\ is_sent \in -4..0 /\ mac_ret \in -4..0

LEMMA FlagStep == ASSUME FlagTypes, [Next]_vars PROVE FlagTypes'
<1> USE RadioAssumption
<1> USE DEF FlagTypes, device, setter, counts, sending, flags, observers, SetTrxState
<1>1. CASE FrameStarts \/ FrameEnds \/ TransmitEnds
  BY <1>1 DEF FrameStarts, FrameEnds, TransmitEnds
<1>2. CASE PBEXT1_IRQHandler
  BY <1>2 DEF PBEXT1_IRQHandler, rf2xx_set_trx_end_flag, rf_rx_on
<1>3. CASE Check \/ CommandVia \/ CommandState \/ Verify
  BY <1>3 DEF Check, CommandVia, CommandState, Verify
<1>4. CASE Open \/ Mac \/ Pulse \/ Clear \/ Wait \/ Result
  BY <1>4 DEF Open, Mac, Pulse, Clear, Wait, Result, rf_tx_on, rf_rx_on,
     rf2xx_clear_trx_end_flag
<1>5. CASE Retry \/ Recv \/ GiveUp \/ Repeat \/ Close
  BY <1>5 DEF Retry, Recv, GiveUp, Repeat, Close
<1>6. CASE mac_init
  BY <1>6 DEF mac_init, rf_rx_on
<1>7. CASE Listen \/ ListenAgain \/ ForceOff \/ EnterSleep \/ \E p \in Job : Send(p)
  BY <1>7 DEF Listen, ListenAgain, ForceOff, EnterSleep, Send
<1>8. CASE UNCHANGED vars
  BY <1>8 DEF vars
<1> QED
  BY <1>1, <1>2, <1>3, <1>4, <1>5, <1>6, <1>7, <1>8
  DEF Next, Program, Continue, Call, Transceiver

LEMMA ControlStep ==
  ASSUME TurnInv, ControlTypes, [Next]_vars PROVE ControlTypes'
<1>0. caller \in {"open", "mac", "recv", "close", "listen"}
  BY DEF TurnInv, RadioTypes
<1> USE DEF ControlTypes, setter, SetTrxState
<1>1. CASE FrameStarts \/ FrameEnds \/ TransmitEnds \/ PBEXT1_IRQHandler
  BY <1>1 DEF FrameStarts, FrameEnds, TransmitEnds, PBEXT1_IRQHandler
<1>2. CASE Check \/ CommandVia \/ CommandState \/ Verify
  BY <1>0, <1>2 DEF Check, CommandVia, CommandState, Verify, Return
<1>3. CASE Open \/ Mac \/ Pulse \/ Clear \/ Wait \/ Result
  BY <1>3 DEF Open, Mac, Pulse, Clear, Wait, Result
<1>4. CASE Retry \/ Recv \/ GiveUp \/ Repeat \/ Close
  BY <1>4 DEF Retry, Recv, GiveUp, Sent, Repeat, Close
<1>5. CASE mac_init \/ Listen \/ ListenAgain \/ ForceOff \/ EnterSleep \/ \E p \in Job : Send(p)
  BY <1>5 DEF mac_init, Listen, ListenAgain, ForceOff, EnterSleep, Send
<1>6. CASE UNCHANGED vars
  BY <1>6 DEF vars
<1> QED
  BY <1>1, <1>2, <1>3, <1>4, <1>5, <1>6 DEF Next, Program, Continue, Call, Transceiver

LEMMA CountStep ==
  ASSUME TurnInv, SendInv, CountTypes, [Next]_vars PROVE CountTypes'
<1> USE DEF CountTypes, counts, sending, observers, SetTrxState
<1>1. CASE TransmitEnds
  <2>1. pc = "wait" /\ job \in Job /\ trx \in BusySending
    BY <1>1 DEF TransmitEnds, TurnInv, Attributed, HasJob
  <2>2. aired <= send_count /\ send_count < job.tries /\ job.tries \in {1, 3}
    BY <2>1, JobShape DEF SendInv, Counted, Before
  <2>3. aired' = aired + 1 \/ aired' = aired
    BY <1>1 DEF TransmitEnds
  <2>4. UNCHANGED <<retry, cnt, send_count, is_sent, mac_ret>>
    BY <1>1 DEF TransmitEnds
  <2> QED
    BY <2>2, <2>3, <2>4
<1>2. CASE Repeat
  <2>1. job \in Job /\ pc = "sent"
    BY <1>2 DEF Repeat, TurnInv, HasJob
  <2>2. send_count < job.tries /\ job.tries \in {1, 3}
    BY <2>1, JobShape DEF SendInv, Counted
  <2>3. send_count' = send_count + 1 \/ send_count' = send_count
    BY <1>2 DEF Repeat
  <2>4. UNCHANGED <<retry, cnt, aired, is_sent, mac_ret>>
    BY <1>2 DEF Repeat
  <2> QED
    BY <2>2, <2>3, <2>4
<1>3. CASE FrameStarts \/ FrameEnds \/ PBEXT1_IRQHandler
  BY <1>3 DEF FrameStarts, FrameEnds, PBEXT1_IRQHandler
<1>4. CASE Check \/ CommandVia \/ CommandState \/ Verify
  BY <1>4 DEF Check, CommandVia, CommandState, Verify
<1>5. CASE Open \/ Mac \/ Pulse \/ Clear \/ Wait \/ Result
  BY <1>5 DEF Open, Mac, Pulse, Clear, Wait, Result, Outcome
<1>6. CASE Retry \/ Recv \/ GiveUp \/ Close
  BY <1>6 DEF Retry, Recv, GiveUp, Sent, Close
<1>7. CASE mac_init \/ Listen \/ ListenAgain \/ ForceOff \/ EnterSleep \/ \E p \in Job : Send(p)
  BY <1>7 DEF mac_init, Listen, ListenAgain, ForceOff, EnterSleep, Send
<1>8. CASE UNCHANGED vars
  BY <1>8 DEF vars
<1> QED
  BY <1>1, <1>2, <1>3, <1>4, <1>5, <1>6, <1>7, <1>8
  DEF Next, Program, Continue, Call, Transceiver

\* The variables of the radio have their types; the counters of its nested loops stay
\* within the limits of the loops, the sends on the air among them.
THEOREM RadioTypeCorrect == Spec => []TypeOK
<1> DEFINE I == FlagTypes /\ ControlTypes /\ CountTypes
<1>1. Init => I
  <2>1. Init => FlagTypes
    BY DEF Init, FlagTypes
  <2>2. Init => ControlTypes
    BY DEF Init, ControlTypes
  <2>3. Init => CountTypes
    BY DEF Init, CountTypes
  <2> QED
    BY <2>1, <2>2, <2>3
<1>2. TurnInv /\ SendInv /\ I /\ [Next]_vars => I'
  BY FlagStep, ControlStep, CountStep
<1>3. TurnInv /\ I => TypeOK
  BY DEF TurnInv, RadioTypes, FlagTypes, ControlTypes, CountTypes, TypeOK
<1> QED
  BY <1>1, <1>2, <1>3, TurnInvariant, SendInvariant, PTL DEF Spec

-------------------------------------------------------------------------------
(* What is left of the reception.  Three nested loops give up, and results *)
(* of rf2xx_tat_set_trx_state are ignored; what makes the transceiver      *)
(* receive in the end is that a command it was given outside of a frame    *)
(* is obeyed at once, and that it refuses none but while it receives.      *)

Heading == slp \/ crossed \/ trx \in Receiving

\* Only a command that crosses the begin of a frame is left with the transceiver.
Crossing ==
  /\ crossed \/ cmd \in Receiving \cup {NoCmd}
  /\ pc \in {"via", "command"} /\ trx \in Busy => crossed

Wanting ==
  /\ pc \in Moving /\ caller \in {"recv", "close", "listen"} => want \in {"RX_ON", "RX_AACK_ON"}
  /\ pc = "sleep" => trx = "TRX_OFF"

\* The places at which a function may give up, and the one where its last command has
\* been given.
Giving ==
  /\ pc \in {"idle", "recv", "close", "listen", "sent"} => Heading
  /\ pc = "open" /\ status # "SUCCESS" => Heading
  /\ pc = "retry" /\ retry = 0 => Heading
  /\ pc = "verify" => crossed \/ trx = want \/ (want \in Receiving /\ trx \in Receiving)

ReceptionInv == Crossing /\ Wanting /\ Giving

LEMMA ReceptionInit == Init => ReceptionInv
  BY DEF Init, ReceptionInv, Crossing, Wanting, Giving, Moving

\* The steps after which the transceiver heads for reception if it did before.
LEMMA HeadingStays ==
  ASSUME FlagTypes, Heading, Crossing,
         \/ UNCHANGED <<trx, slp, crossed>>
         \/ FrameStarts \/ FrameEnds
  PROVE  Heading'
<1>1. CASE UNCHANGED <<trx, slp, crossed>>
  BY <1>1 DEF Heading
<1>2. CASE FrameStarts
  <2>1. trx' \in Receiving
    BY <1>2 DEF FrameStarts
  <2> QED
    BY <2>1 DEF Heading
<1>3. CASE FrameEnds
  <2>1. UNCHANGED <<slp, crossed>>
    BY <1>3 DEF FrameEnds
  <2>2. crossed \/ trx' \in Receiving
    BY <1>3 DEF FrameEnds, BackTo, Crossing
  <2> QED
    BY <2>1, <2>2 DEF Heading
<1> QED
  BY <1>1, <1>2, <1>3

LEMMA ReceptionFrames ==
  ASSUME FlagTypes, ReceptionInv, FrameStarts \/ FrameEnds PROVE ReceptionInv'
<1>1. UNCHANGED <<pc, caller, status, retry, want>> /\ trx \in Receiving
  BY DEF FrameStarts, FrameEnds, setter, counts
<1>2. Crossing'
  <2>1. CASE FrameStarts
    <3>1. UNCHANGED <<cmd, pc>>
      BY <2>1 DEF FrameStarts
    <3>2. crossed => crossed'
      BY <2>1 DEF FrameStarts
    <3>3. pc \in {"via", "command"} => crossed'
      BY <2>1 DEF FrameStarts
    <3> QED
      BY <3>1, <3>2, <3>3 DEF ReceptionInv, Crossing
  <2>2. CASE FrameEnds
    <3>1. cmd' = NoCmd
      BY <2>2 DEF FrameEnds, BackTo
    <3>2. trx \in Busy /\ UNCHANGED <<pc, crossed>>
      BY <2>2 DEF FrameEnds
    <3>3. pc' \in {"via", "command"} => crossed'
      BY <3>2 DEF ReceptionInv, Crossing
    <3> QED
      BY <3>1, <3>3 DEF Crossing
  <2> QED
    BY <2>1, <2>2
<1>3. Wanting'
  BY <1>1 DEF ReceptionInv, Wanting
<1>4. Heading => Heading'
  BY HeadingStays DEF ReceptionInv
<1>5. pc = "verify" => crossed' \/ (want \in Receiving /\ trx' \in Receiving)
  <2>1. CASE FrameStarts
    <3>1. trx \in {"RX_ON", "RX_AACK_ON"} /\ trx' \in Receiving
      BY <2>1 DEF FrameStarts
    <3>2. crossed => crossed'
      BY <2>1 DEF FrameStarts
    <3> QED
      BY <3>1, <3>2 DEF ReceptionInv, Giving
  <2>2. CASE FrameEnds
    <3>1. UNCHANGED crossed /\ (crossed \/ trx' \in Receiving)
      BY <2>2 DEF FrameEnds, BackTo, ReceptionInv, Crossing
    <3> QED
      BY <1>1, <3>1 DEF ReceptionInv, Giving
  <2> QED
    BY <2>1, <2>2
<1>6. Giving'
  BY <1>1, <1>4, <1>5 DEF ReceptionInv, Giving
<1> QED
  BY <1>2, <1>3, <1>6 DEF ReceptionInv

\* The steps that leave the transceiver alone, and what each may assume of the next
\* place: it had it, or the step shows it.
Alone ==
  /\ UNCHANGED <<trx, cmd, slp, crossed>>
  /\ pc' \in {"via", "command"} /\ trx \in Busy => crossed
  /\ Wanting'
  /\ pc' \in {"idle", "recv", "close", "listen", "sent"} => Heading
  /\ pc' = "open" /\ status' # "SUCCESS" => Heading
  /\ pc' = "retry" /\ retry' = 0 => Heading
  /\ pc' # "verify"

LEMMA AloneStep == ASSUME FlagTypes, ReceptionInv, Alone PROVE ReceptionInv'
<1>1. Crossing'
  BY DEF ReceptionInv, Crossing, Alone
<1>2. Heading => Heading'
  BY DEF Alone, Heading
<1>3. Giving'
  BY <1>2 DEF Giving, Alone
<1> QED
  BY <1>1, <1>3 DEF ReceptionInv, Alone

\* rf2xx_tat_set_trx_state.
LEMMA ReceptionMoving ==
  ASSUME TurnInv, FlagTypes, ReceptionInv, Check \/ CommandVia \/ CommandState \/ Verify
  PROVE  ReceptionInv'
<1>1. caller \in {"open", "mac", "recv", "close", "listen"} /\ trx \in Idle \cup Busy
  BY DEF TurnInv, RadioTypes
<1>2. CASE Check
  <2>1. pc = "check" /\ UNCHANGED <<trx, cmd, slp, crossed, want, caller, retry>>
    BY <1>2 DEF Check, device, observers, counts
  <2>2. CASE pc' \in {"via", "command"}
    <3>1. trx \notin Busy
      BY <1>1, <1>2, <2>2 DEF Check, IsBusy, Return
    <3>2. Wanting'
      BY <2>1, <2>2 DEF ReceptionInv, Wanting, Moving
    <3>3. Alone
      BY <2>1, <2>2, <3>1, <3>2 DEF Alone
    <3> QED
      BY <3>3, AloneStep
  <2>3. CASE pc' = caller
    <3>1. slp \/ trx \in Busy \/ (trx = want /\ status' = "SUCCESS")
      BY <1>1, <1>2, <2>3 DEF Check, IsBusy, Return
    <3>2. trx \notin BusySending
      BY <2>1 DEF TurnInv, Attributed
    <3>3. caller \in {"recv", "close", "listen"} => Heading
      BY <2>1, <3>1, <3>2 DEF ReceptionInv, Wanting, Moving, Heading
    <3>4. status' # "SUCCESS" => Heading
      BY <3>1, <3>2 DEF Heading
    <3>5. Wanting'
      BY <1>1, <2>1, <2>3 DEF ReceptionInv, Wanting, Moving
    <3>6. Alone
      BY <1>1, <2>1, <2>3, <3>3, <3>4, <3>5 DEF Alone
    <3> QED
      BY <3>6, AloneStep
  <2> QED
    BY <1>2, <2>2, <2>3 DEF Check, Return
<1>3. CASE CommandVia
  <2>1. /\ pc = "via" /\ pc' = "command" /\ Command("PLL_ON")
        /\ UNCHANGED <<slp, crossed, want, caller>>
    BY <1>3 DEF CommandVia, setter, observers
  <2>2. CASE trx \in Busy
    <3>1. crossed /\ crossed'
      BY <2>1, <2>2 DEF ReceptionInv, Crossing
    <3> QED
      BY <2>1, <3>1 DEF ReceptionInv, Crossing, Wanting, Giving, Moving
  <2>3. CASE trx \notin Busy
    <3>1. trx' = "PLL_ON" /\ UNCHANGED cmd
      BY <2>1, <2>3 DEF Command
    <3>2. Crossing'
      BY <2>1, <3>1 DEF ReceptionInv, Crossing
    <3>3. Wanting' /\ Giving'
      BY <2>1 DEF ReceptionInv, Wanting, Giving, Moving
    <3> QED
      BY <3>2, <3>3 DEF ReceptionInv
  <2> QED
    BY <2>2, <2>3
<1>4. CASE CommandState
  <2>1. /\ pc = "command" /\ pc' = "verify" /\ Command(want)
        /\ UNCHANGED <<want, caller>>
    BY <1>4 DEF CommandState, setter
  <2>2. Wanting'
    BY <2>1 DEF ReceptionInv, Wanting, Moving
  <2>3. CASE trx \in Busy
    <3>1. crossed'
      BY <1>4, <2>1, <2>3 DEF CommandState, ReceptionInv, Crossing
    <3>2. Crossing' /\ Giving'
      BY <2>1, <3>1 DEF Crossing, Giving
    <3> QED
      BY <2>2, <3>2 DEF ReceptionInv
  <2>4. CASE trx \notin Busy
    <3>1. trx' = want /\ UNCHANGED cmd
      BY <2>1, <2>4 DEF Command
    <3>2. cmd = NoCmd
      BY <2>4 DEF TurnInv, Attributed
    <3>3. Crossing'
      BY <2>1, <3>1, <3>2 DEF Crossing
    <3>4. Giving'
      BY <2>1, <3>1 DEF Giving
    <3> QED
      BY <2>2, <3>3, <3>4 DEF ReceptionInv
  <2> QED
    BY <2>3, <2>4
<1>5. CASE Verify
  <2>1. pc = "verify" /\ pc' = caller /\ UNCHANGED <<trx, cmd, slp, crossed, want, caller, retry>>
    BY <1>5 DEF Verify, Return, device, observers, counts
  <2>2. trx = want => status' = "SUCCESS"
    BY <1>5 DEF Verify, Return
  <2>3. crossed \/ trx = want \/ (want \in Receiving /\ trx \in Receiving)
    BY <2>1 DEF ReceptionInv, Giving
  <2>4. caller \in {"recv", "close", "listen"} => Heading
    BY <2>1, <2>3 DEF ReceptionInv, Wanting, Moving, Heading
  <2>5. status' # "SUCCESS" => Heading
    BY <2>2, <2>3 DEF Heading
  <2>6. Wanting'
    BY <1>1, <2>1 DEF ReceptionInv, Wanting, Moving
  <2>7. Alone
    BY <1>1, <2>1, <2>4, <2>5, <2>6 DEF Alone
  <2> QED
    BY <2>7, AloneStep
<1> QED
  BY <1>2, <1>3, <1>4, <1>5

\* The other functions, which leave the transceiver to rf2xx_tat_set_trx_state.
LEMMA ReceptionAlone ==
  ASSUME TurnInv, FlagTypes, ReceptionInv,
         \/ Open \/ Mac \/ Clear \/ Wait \/ Result \/ Retry \/ Recv \/ GiveUp
         \/ Repeat \/ Close \/ Listen \/ ListenAgain \/ PBEXT1_IRQHandler
         \/ \E p \in Job : Send(p)
  PROVE  ReceptionInv'
<1> USE DEF device, observers, SetTrxState
<1>1. CASE Open
  <2>1. Alone
    BY <1>1 DEF Open, Alone, ReceptionInv, Wanting, Giving, Moving
  <2> QED
    BY <2>1, AloneStep
<1>2. CASE Mac \/ Clear \/ Wait \/ Result
  <2>1. UNCHANGED <<trx, cmd, slp, crossed>>
    BY <1>2 DEF Mac, Clear, Wait, Result
  <2>2. pc' \in {"pulse", "wait", "result"} \/ (pc' = "retry" /\ retry' = 3)
    BY <1>2 DEF Mac, Clear, Wait, Result
  <2>3. Alone
    BY <2>1, <2>2 DEF Alone, Wanting, Moving
  <2> QED
    BY <2>3, AloneStep
<1>3. CASE Retry \/ Repeat \/ Listen \/ ListenAgain \/ \E p \in Job : Send(p)
  <2>1. UNCHANGED <<trx, cmd, slp, crossed>>
    BY <1>3 DEF Retry, Repeat, Listen, ListenAgain, Send
  <2>2. \/ pc' = "idle" /\ pc = "listen"
        \/ pc' = "check" /\ (caller' \in {"recv", "close", "listen"} =>
                               want' \in {"RX_ON", "RX_AACK_ON"})
    BY <1>3 DEF Retry, Repeat, Listen, ListenAgain, Send
  <2>3. Alone
    BY <2>1, <2>2 DEF Alone, Wanting, ReceptionInv, Giving, Moving
  <2> QED
    BY <2>3, AloneStep
<1>4. CASE Recv \/ GiveUp \/ Close
  <2>1. UNCHANGED <<trx, cmd, slp, crossed>>
    BY <1>4 DEF Recv, GiveUp, Close
  <2>2. pc' \in {"idle", "sent", "retry"}
    BY <1>4 DEF Recv, GiveUp, Sent, Close
  <2>3. Heading
    BY <1>4 DEF Recv, GiveUp, Close, ReceptionInv, Giving
  <2>4. Alone
    BY <2>1, <2>2, <2>3 DEF Alone, Wanting, Moving
  <2> QED
    BY <2>4, AloneStep
<1>5. CASE PBEXT1_IRQHandler
  <2>1. UNCHANGED <<trx, cmd, slp, crossed, pc, caller, want, status, retry>>
    BY <1>5 DEF PBEXT1_IRQHandler, setter, counts
  <2> QED
    BY <2>1 DEF ReceptionInv, Crossing, Wanting, Giving, Heading
<1> QED
  BY <1>1, <1>2, <1>3, <1>4, <1>5

\* A transmission, the reset and the sleep.
LEMMA ReceptionOther ==
  ASSUME TurnInv, FlagTypes, ReceptionInv,
         Pulse \/ TransmitEnds \/ mac_init \/ ForceOff \/ EnterSleep
  PROVE  ReceptionInv'
<1> USE DEF observers, SetTrxState
<1>1. CASE Pulse \/ TransmitEnds
  <2>1. pc' \in {"clear", "wait"}
    BY <1>1 DEF Pulse, TransmitEnds, TurnInv, Attributed
  <2>2. UNCHANGED crossed /\ cmd' \in {cmd, NoCmd}
    BY <1>1 DEF Pulse, TransmitEnds, BackTo
  <2>3. Crossing'
    BY <2>1, <2>2 DEF ReceptionInv, Crossing
  <2>4. Wanting' /\ Giving'
    BY <2>1 DEF Wanting, Giving, Moving
  <2> QED
    BY <2>3, <2>4 DEF ReceptionInv
<1>2. CASE mac_init
  <2>1. pc' = "retry" /\ retry' = 3 /\ cmd' = NoCmd
    BY <1>2 DEF mac_init
  <2> QED
    BY <2>1 DEF ReceptionInv, Crossing, Wanting, Giving, Moving
<1>3. CASE ForceOff
  <2>1. pc' = "sleep" /\ trx' = "TRX_OFF" /\ cmd' = NoCmd
    BY <1>3 DEF ForceOff
  <2> QED
    BY <2>1 DEF ReceptionInv, Crossing, Wanting, Giving, Moving
<1>4. CASE EnterSleep
  <2>1. pc' = "idle" /\ trx = "TRX_OFF" /\ UNCHANGED <<cmd, trx, crossed>>
    BY <1>4 DEF EnterSleep, ReceptionInv, Wanting
  <2>2. slp'
    BY <1>4, <2>1 DEF EnterSleep
  <2>3. Crossing'
    BY <2>1 DEF ReceptionInv, Crossing
  <2>4. Wanting' /\ Giving'
    BY <2>1, <2>2 DEF Wanting, Giving, Heading, Moving
  <2> QED
    BY <2>3, <2>4 DEF ReceptionInv
<1> QED
  BY <1>1, <1>2, <1>3, <1>4

LEMMA ReceptionStep ==
  ASSUME TurnInv, FlagTypes, ReceptionInv, [Next]_vars PROVE ReceptionInv'
<1>1. CASE Program
  BY <1>1, ReceptionMoving, ReceptionAlone, ReceptionOther DEF Program, Continue, Call
<1>2. CASE PBEXT1_IRQHandler
  BY <1>2, ReceptionAlone
<1>3. CASE Transceiver
  BY <1>3, ReceptionFrames, ReceptionOther DEF Transceiver
<1>4. CASE UNCHANGED vars
  <2>1. UNCHANGED <<trx, cmd, slp, crossed, pc, caller, want, status, retry>>
    BY <1>4 DEF vars, device, setter, counts, observers
  <2> QED
    BY <2>1 DEF ReceptionInv, Crossing, Wanting, Giving, Heading
<1> QED
  BY <1>1, <1>2, <1>3, <1>4 DEF Next

\* When a send, a loop around RX_ON or mac_init is over, however many of its attempts
\* failed, the transceiver receives or will, unless it sleeps or a frame began in the
\* instant between the last test of its state and the command (rf2xx_tat.c).
THEOREM ReceptionComesBack == Spec => []ReceivesAgain
<1>1. Init => FlagTypes /\ ReceptionInv
  BY ReceptionInit DEF Init, FlagTypes
<1>2. TurnInv /\ FlagTypes /\ ReceptionInv /\ [Next]_vars => (FlagTypes /\ ReceptionInv)'
  BY FlagStep, ReceptionStep
<1>3. ReceptionInv => ReceivesAgain
  BY DEF ReceptionInv, Crossing, Giving, Heading, ReceivesAgain
<1> QED
  BY <1>1, <1>2, <1>3, TurnInvariant, PTL DEF Spec
=============================================================================
