-------------------------------- MODULE Radio --------------------------------
(***************************************************************************)
(* The radio: the driver of the transceiver (rf2xx/rf2xx_tat.c), the two   *)
(* ways to send a frame (rf2xx/rf2xx_send.c), the functions that send one  *)
(* packet each, the reception switched on again afterwards, the interrupt  *)
(* handler of the transceiver (rf2xx/rf2xx_mcu.c), mac_init and the part   *)
(* of pmu_enter_sleep that puts the transceiver to sleep.                  *)
(*                                                                         *)
(* The transceiver is another chip, which moves by itself: a frame begins  *)
(* or ends between any two accesses of the driver.  Each access is one     *)
(* exchange over SPI in a critical region (rf2xx_hal.c), hence one step.   *)
(* The interrupt handler preempts the program, so that the program takes   *)
(* no step while an interrupt is pending.                                  *)
(***************************************************************************)
EXTENDS Integers

CONSTANTS
  Job,       \* the packets sent, by the function that sends them: records below
  InitEnds   \* outcomes of rf2xx_Init that are considered, a subset of BOOLEAN

Idle == {"TRX_OFF", "RX_ON", "PLL_ON", "RX_AACK_ON", "TX_ARET_ON"}
BusyReceiving == {"BUSY_RX", "BUSY_RX_AACK"}
BusySending == {"BUSY_TX", "BUSY_TX_ARET"}
Busy == BusyReceiving \cup BusySending
Receiving == {"RX_ON", "RX_AACK_ON"} \cup BusyReceiving

\* One record for each function that sends a packet: how (state of the
\* transceiver), how often at most, and the length of the payload.  All of them
\* test PLL_ON first, send, and return the transceiver to RX_ON.
send_cave_pkt       == [mode |-> "TX_ARET_ON", tries |-> 3, length |-> 30]
send_syn_ack        == [mode |-> "PLL_ON", tries |-> 3, length |-> 6]
send_ex_pkt         == [mode |-> "PLL_ON", tries |-> 1, length |-> 17]
send_cf_ack         == [mode |-> "PLL_ON", tries |-> 1, length |-> 14]
send_test_pkt       == [mode |-> "PLL_ON", tries |-> 1, length |-> 105]
send_test_pkg       == [mode |-> "PLL_ON", tries |-> 1, length |-> 30]
send_test_pkg_a     == [mode |-> "PLL_ON", tries |-> 1, length |-> 30]
send_test_pkg_b     == [mode |-> "PLL_ON", tries |-> 1, length |-> 30]
send_config_cnt_ack == [mode |-> "PLL_ON", tries |-> 1, length |-> 54]
send_config_quit_ack == [mode |-> "PLL_ON", tries |-> 1, length |-> 16]
\* The answer to n commands has two bytes for each.
send_config_cmd_ack(n) == [mode |-> "PLL_ON", tries |-> 1, length |-> 14 + 2 * n]

Packets ==
  {send_cave_pkt, send_syn_ack, send_ex_pkt, send_cf_ack, send_test_pkt,
   send_test_pkg, send_test_pkg_a, send_test_pkg_b, send_config_cnt_ack,
   send_config_quit_ack}
  \cup {send_config_cmd_ack(n) : n \in 1..18}

\* mac_assemble_packet: a header of 9 bytes, the payload and a footer of 2.
mac_assemble_packet(p) == 9 + p.length + 2

NoJob == [mode |-> "none", tries |-> 0, length |-> 0]
NoCmd == "none"

ASSUME RadioAssumption ==
  /\ Job \subseteq Packets
  /\ \A p \in Job : mac_assemble_packet(p) <= 127   \* tx_frame[127]
  /\ InitEnds \subseteq BOOLEAN

VARIABLES
  trx, cmd,             \* state of the transceiver; state commanded while busy
  slp, irq, trac,       \* SLP pin high; interrupts pending; TRAC_STATUS is a success
  configured,           \* rf2xx_Init has set the registers: address, interrupt mask
  pc, caller,           \* program counter; return address of set_trx_state
  want, status,         \* of rf2xx_tat_set_trx_state
  retry, cnt,           \* of rf2xx_recv_on; of the loops around RX_ON in main
  job, send_count, is_sent,       \* packet being sent, its number of sends, result
  mac_ret,              \* ret of mac_send_packet_*
  end_flag, rx_flag,    \* rf2xx_trx_end_flag, rx_flag (rf2xx_option.c)
  aired, ender, crossed \* observers: see below

(* Observers.  aired: sends of this packet the transceiver completed with   *)
(* success; ender: what raised the last TRX_END; crossed: a frame began     *)
(* between the last test of the state and its command.                    *)
device == <<trx, cmd, slp, irq, trac, configured>>
setter == <<want, status>>
counts == <<retry, cnt>>
sending == <<job, send_count, is_sent, mac_ret>>
flags == <<end_flag, rx_flag>>
observers == <<aired, ender, crossed>>
vars == <<device, pc, caller, setter, counts, sending, flags, observers>>

TypeOK ==
  /\ trx \in Idle \cup Busy /\ cmd \in Idle \cup {NoCmd}
  /\ slp \in BOOLEAN /\ irq \subseteq {"RX_START", "TRX_END"}
  /\ trac \in BOOLEAN /\ configured \in BOOLEAN
  /\ pc \in {"idle", "init", "sleep", "check", "via", "command", "verify", "open",
             "mac", "pulse", "clear", "wait", "result", "retry", "recv", "sent",
             "close", "listen"}
  /\ caller \in {"open", "mac", "recv", "close", "listen"}
  /\ want \in Idle
  /\ status \in {"SUCCESS", "WRONG_STATE", "BUSY_STATE", "TIMED_OUT"}
  /\ retry \in 0..3 /\ cnt \in 0..4
  /\ job \in Job \cup {NoJob} /\ send_count \in 0..3
  /\ is_sent \in -4..0 /\ mac_ret \in -4..0
  /\ end_flag \in BOOLEAN /\ rx_flag \in BOOLEAN
  /\ aired \in 0..3 /\ ender \in {"rx", "tx"} /\ crossed \in BOOLEAN

\* Power on: nothing has been set, main calls mac_init first (main.c:95).
Init ==
  /\ trx = "TRX_OFF" /\ cmd = NoCmd /\ slp = FALSE /\ irq = {} /\ trac = TRUE
  /\ configured = FALSE
  /\ pc = "init" /\ caller = "listen"
  /\ want = "RX_ON" /\ status = "SUCCESS"
  /\ retry = 0 /\ cnt = 0
  /\ job = NoJob /\ send_count = 0 /\ is_sent = 0 /\ mac_ret = 0
  /\ end_flag = FALSE /\ rx_flag = FALSE
  /\ aired = 0 /\ ender = "rx" /\ crossed = FALSE

-----------------------------------------------------------------------------
(* The transceiver.                                                        *)

\* It raises only the interrupts of its mask, which rf2xx_Init sets.
Raise(bit) == irq' = IF configured THEN irq \cup {bit} ELSE irq

\* A state commanded while it is busy is taken when it has finished.
BackTo(state) == trx' = (IF cmd = NoCmd THEN state ELSE cmd) /\ cmd' = NoCmd

Command(state) ==
  IF trx \in Busy THEN cmd' = state /\ UNCHANGED trx
                  ELSE trx' = state /\ UNCHANGED cmd

FrameStarts ==
  /\ trx \in {"RX_ON", "RX_AACK_ON"}
  /\ trx' = IF trx = "RX_ON" THEN "BUSY_RX" ELSE "BUSY_RX_AACK"
  /\ Raise("RX_START")
  /\ crossed' = (crossed \/ pc \in {"via", "command"})
  /\ UNCHANGED <<cmd, slp, trac, configured, pc, caller, setter, counts, sending,
                 flags, aired, ender>>

\* With address filter (RX_AACK) a frame for another card ends without interrupt.
FrameEnds ==
  /\ trx \in BusyReceiving
  /\ BackTo(IF trx = "BUSY_RX" THEN "RX_ON" ELSE "RX_AACK_ON")
  /\ \/ Raise("TRX_END") /\ ender' = "rx"
     \/ trx = "BUSY_RX_AACK" /\ UNCHANGED <<irq, ender>>
  /\ IF trx = "BUSY_RX_AACK" THEN trac' = TRUE ELSE UNCHANGED trac
  /\ UNCHANGED <<slp, configured, pc, caller, setter, counts, sending, flags,
                 aired, crossed>>

\* A plain transmission leaves TRAC_STATUS alone; one with CSMA may fail.  It
\* lasts longer than the two instructions between its start and the clearing of
\* the flag (a frame is at least half a millisecond on the air).
TransmitEnds ==
  /\ trx \in BusySending /\ pc # "clear"
  /\ BackTo(IF trx = "BUSY_TX" THEN "PLL_ON" ELSE "TX_ARET_ON")
  /\ Raise("TRX_END") /\ ender' = "tx"
  /\ \/ trx = "BUSY_TX" /\ UNCHANGED trac /\ aired' = aired + 1
     \/ trx = "BUSY_TX_ARET" /\ trac' = TRUE /\ aired' = aired + 1
     \/ trx = "BUSY_TX_ARET" /\ trac' = FALSE /\ UNCHANGED aired
  /\ UNCHANGED <<slp, configured, pc, caller, setter, counts, sending, flags,
                 crossed>>

\* rf2xx_option.c: two flags that the program shares with the handler.
rf2xx_set_trx_end_flag_Received == end_flag' = rx_flag
rf2xx_set_trx_end_flag == end_flag' = TRUE
rf2xx_clear_trx_end_flag_Forgotten == UNCHANGED end_flag
rf2xx_clear_trx_end_flag == end_flag' = FALSE
rf_tx_on_Forgotten == UNCHANGED rx_flag
rf_tx_on == rx_flag' = FALSE
rf_rx_on == rx_flag' = TRUE

\* PBEXT1_IRQHandler: a start bit hides the end bit read with it.
PBEXT1_IRQHandler ==
  /\ irq # {}
  /\ irq' = {}
  /\ IF "RX_START" \in irq
     THEN UNCHANGED flags
     ELSE rf2xx_set_trx_end_flag /\ rf_rx_on
  /\ UNCHANGED <<trx, cmd, slp, trac, configured, pc, caller, setter, counts,
                 sending, observers>>

-----------------------------------------------------------------------------
(* rf2xx_tat_set_trx_state.                                                *)

SetTrxState(state, who) == pc' = "check" /\ want' = state /\ caller' = who

Return(result) == status' = result /\ pc' = caller

IsBusy_SendingOnly == trx \in BusySending
IsBusy == trx \in Busy

Check ==
  /\ pc = "check"
  /\ \/ slp /\ Return("WRONG_STATE")
     \/ ~slp /\ IsBusy /\ Return("BUSY_STATE")
     \/ ~slp /\ trx = want /\ Return("SUCCESS")
     \/ /\ ~slp /\ ~IsBusy /\ trx # want
        /\ pc' = IF {trx, want} = {"RX_AACK_ON", "TX_ARET_ON"} THEN "via" ELSE "command"
        /\ UNCHANGED status
  /\ UNCHANGED <<device, caller, want, counts, sending, flags, observers>>

\* Between the two extended modes through PLL_ON.
CommandVia ==
  /\ pc = "via"
  /\ Command("PLL_ON")
  /\ pc' = "command"
  /\ UNCHANGED <<slp, irq, trac, configured, caller, setter, counts, sending,
                 flags, observers>>

CommandState ==
  /\ pc = "command"
  /\ Command(want)
  /\ crossed' = (crossed /\ trx \in Busy)
  /\ pc' = "verify"
  /\ UNCHANGED <<slp, irq, trac, configured, caller, setter, counts, sending,
                 flags, aired, ender>>

Verify ==
  /\ pc = "verify"
  /\ Return(IF trx = want THEN "SUCCESS" ELSE "TIMED_OUT")
  /\ UNCHANGED <<device, caller, want, counts, sending, flags,
                 observers>>

-----------------------------------------------------------------------------
(* A packet: send_cave_pkt and the others, mac_send_packet_basic and        *)
(* mac_send_packet_extend, rf2xx_tat_send_packet.                          *)

Send(p) ==
  /\ pc = "idle"
  /\ job' = p /\ send_count' = 0
  /\ aired' = 0
  /\ SetTrxState("PLL_ON", "open")
  /\ UNCHANGED <<device, status, counts, is_sent, mac_ret, flags,
                 ender, crossed>>

\* No packet if the transceiver cannot be prepared, and nothing is put back.
Open ==
  /\ pc = "open"
  /\ IF status = "SUCCESS"
     THEN /\ is_sent' = IF job.tries > 1 THEN -1 ELSE is_sent
          /\ SetTrxState(job.mode, "mac")
          /\ UNCHANGED job
     ELSE pc' = "idle" /\ job' = NoJob /\ UNCHANGED <<is_sent, want, caller>>
  /\ UNCHANGED <<device, status, counts, send_count, mac_ret, flags,
                 observers>>

\* mac_send_packet_*: the state is read again, the result of the setter is not.
Mac ==
  /\ pc = "mac"
  /\ IF trx = job.mode
     THEN /\ rf_tx_on
          /\ pc' = "pulse" /\ UNCHANGED <<retry, mac_ret>>
     ELSE /\ mac_ret' = -4 /\ retry' = 3 /\ pc' = "retry"
          /\ UNCHANGED rx_flag
  /\ UNCHANGED <<device, caller, setter, cnt, job, send_count, is_sent, end_flag,
                 observers>>

\* rf2xx_tat_send_packet: the frame is written, then SLP goes high and low.
Pulse ==
  /\ pc = "pulse"
  /\ trx' = CASE trx = "PLL_ON" -> "BUSY_TX"
              [] trx = "TX_ARET_ON" -> "BUSY_TX_ARET"
              [] OTHER -> trx
  /\ pc' = "clear"
  /\ UNCHANGED <<cmd, slp, irq, trac, configured, caller, setter, counts, sending,
                 flags, observers>>

Clear ==
  /\ pc = "clear"
  /\ rf2xx_clear_trx_end_flag
  /\ pc' = "wait"
  /\ UNCHANGED <<device, caller, setter, counts, sending, rx_flag, observers>>

Wait ==
  /\ pc = "wait" /\ end_flag
  /\ rf2xx_clear_trx_end_flag
  /\ pc' = "result"
  /\ UNCHANGED <<device, caller, setter, counts, sending, rx_flag, observers>>

\* TRAC_STATUS: no channel, no acknowledgement, or success (or an invalid status,
\* which is taken for one).
Outcome_Ignored == 0
Outcome == IF trac THEN 0 ELSE -1

\* Then rf_rx_on and rf2xx_recv_on.
Result ==
  /\ pc = "result"
  /\ mac_ret' = Outcome
  /\ rf_rx_on
  /\ retry' = 3 /\ pc' = "retry"
  /\ UNCHANGED <<device, caller, setter, cnt, job, send_count, is_sent, end_flag,
                 observers>>

\* rf2xx_recv_on: three attempts.
Retry ==
  /\ pc = "retry" /\ retry > 0
  /\ retry' = retry - 1
  /\ SetTrxState("RX_AACK_ON", "recv")
  /\ UNCHANGED <<device, status, cnt, sending, flags, observers>>

\* rf2xx_recv_on returns to mac_init or to mac_send_packet_*, whose result is -2
\* or -3 when it fails.
Sent(result) ==
  IF job = NoJob
  THEN pc' = "idle" /\ UNCHANGED is_sent
  ELSE pc' = "sent" /\ is_sent' = result

Recv ==
  /\ pc = "recv"
  /\ IF trx = "RX_AACK_ON"
     THEN Sent(mac_ret)
     ELSE pc' = "retry" /\ UNCHANGED is_sent
  /\ UNCHANGED <<device, caller, setter, counts, job, send_count, mac_ret, flags,
                 observers>>

GiveUp ==
  /\ pc = "retry" /\ retry = 0
  /\ Sent(IF mac_ret = -4 THEN -3 ELSE -2)
  /\ UNCHANGED <<device, caller, setter, counts, job, send_count, mac_ret, flags,
                 observers>>

\* while (is_sent != 0) { ...; if (send_count++ >= 2) break; }
SendAgain_NoLimit == is_sent # 0
SendAgain_OffByOne == is_sent # 0 /\ send_count < job.tries
SendAgain == is_sent # 0 /\ send_count + 1 < job.tries

Repeat ==
  /\ pc = "sent"
  /\ send_count' = IF job.tries > 1 THEN send_count + 1 ELSE send_count
  /\ IF SendAgain
     THEN SetTrxState(job.mode, "mac")
     ELSE SetTrxState("RX_ON", "close")
  /\ UNCHANGED <<device, status, counts, job, is_sent, mac_ret,
                 flags, observers>>

\* The result of the last command is not looked at.
Close ==
  /\ pc = "close"
  /\ pc' = "idle" /\ job' = NoJob
  /\ UNCHANGED <<device, caller, setter, counts, send_count, is_sent, mac_ret,
                 flags, observers>>

-----------------------------------------------------------------------------
(* mac_init, the loops around RX_ON in main, and the sleep.                *)

\* rf2xx_Init resets the transceiver and sets its registers, the interrupt mask
\* among them; mac_init does not look at its result.  In TRX_OFF the transceiver
\* does nothing by itself, so that this is one step up to rf2xx_recv_on.
mac_init ==
  /\ pc \in {"init", "idle"}
  /\ trx' = "TRX_OFF" /\ cmd' = NoCmd /\ slp' = FALSE /\ irq' = {} /\ trac' = TRUE
  /\ configured' \in InitEnds
  /\ rf_rx_on
  /\ retry' = 3 /\ pc' = "retry"
  /\ crossed' = FALSE
  /\ UNCHANGED <<caller, setter, cnt, sending, end_flag, aired, ender>>

\* while (1) { set RX_ON; if (state == RX_ON) break; else if (cnt++ >= 3) break; }
Listen ==
  /\ pc = "idle"
  /\ cnt' = 0
  /\ SetTrxState("RX_ON", "listen")
  /\ UNCHANGED <<device, status, retry, sending, flags, observers>>

ListenAgain ==
  /\ pc = "listen"
  /\ IF trx = "RX_ON" \/ cnt >= 3
     THEN pc' = "idle" /\ UNCHANGED <<want, caller, cnt>>
     ELSE SetTrxState("RX_ON", "listen") /\ cnt' = cnt + 1
  /\ UNCHANGED <<device, status, retry, sending, flags, observers>>

\* rf2xx_tat_enter_sleep_mode, with rf2xx_tat_reset_state_machine.
ForceOff ==
  /\ pc = "idle" /\ ~slp
  /\ trx' = "TRX_OFF" /\ cmd' = NoCmd
  /\ pc' = "sleep"
  /\ UNCHANGED <<slp, irq, trac, configured, caller, setter, counts, sending,
                 flags, observers>>

EnterSleep ==
  /\ pc = "sleep"
  /\ slp' = (trx = "TRX_OFF")
  /\ pc' = "idle"
  /\ UNCHANGED <<trx, cmd, irq, trac, configured, caller, setter, counts, sending,
                 flags, observers>>

-----------------------------------------------------------------------------
\* A function once called goes on by itself ...
Continue ==
  \/ Check \/ CommandVia \/ CommandState \/ Verify
  \/ Open \/ Mac \/ Pulse \/ Clear \/ Wait \/ Result
  \/ Retry \/ Recv \/ GiveUp \/ Repeat \/ Close
  \/ ListenAgain \/ EnterSleep

\* ... and the loop of main calls the next one.
Call == mac_init \/ Listen \/ ForceOff \/ \E p \in Job : Send(p)

Program == irq = {} /\ (Continue \/ Call)

Transceiver == FrameStarts \/ FrameEnds \/ TransmitEnds

Next == Program \/ PBEXT1_IRQHandler \/ Transceiver

Spec == Init /\ [][Next]_vars

\* The processor runs between two interrupts, however many there are (strong: an
\* interrupt disables the step); every transmission ends.
Fairness ==
  /\ SF_vars(irq = {} /\ Continue)
  /\ WF_vars(PBEXT1_IRQHandler)
  /\ WF_vars(TransmitEnds) /\ WF_vars(FrameEnds)

FairSpec == Spec /\ Fairness

-----------------------------------------------------------------------------
(* Properties.                                                             *)

\* The status of a transmission is read after it has ended, though the flag it is
\* waited for with (rf2xx_tat_send_packet) is set by receptions as well.
StatusAfterTheEnd == pc = "result" => trx = job.mode

\* The end of a reception reaches rf2xx_trx_recv_packet and the end of a
\* transmission does not: rx_flag, set and reset by the program and by the
\* handler (rf2xx_mcu.c:104-116), is right whenever an end is pending.
EndsGoTheRightWay == irq = {"TRX_END"} => (rx_flag <=> ender = "rx")

\* A packet reported as sent has been on the air.
SentMeansAired == pc = "sent" /\ is_sent = 0 => aired > 0

\* No packet goes out more than three times (a cave packet, a confirmation), the
\* others not more than once.
SendsBounded == aired <= job.tries \/ job = NoJob

\* When a send or a loop around RX_ON is over, the transceiver receives, or will
\* when it has finished what it does, unless a frame began in the instant between
\* the test of its state and the command (and then it may be deaf until the next
\* send or mac_init).
ReceivesAgain ==
  pc = "idle" /\ ~slp /\ ~crossed => trx \in Receiving /\ cmd \in Receiving \cup {NoCmd}

\* Every function ends: only a transmission of a transceiver whose interrupt mask
\* was not set, because rf2xx_Init gave up before, is waited for for ever.
SendEnds ==
  pc \notin {"idle", "init"} ~> pc = "idle" \/ (pc = "wait" /\ ~configured)
=============================================================================
