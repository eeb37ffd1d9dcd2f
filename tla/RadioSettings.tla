---------------------------- MODULE RadioSettings ----------------------------
(***************************************************************************)
(* The registers of the transceiver and their setting from nothing at each *)
(* mac_init: rf2xx_Init (rf2xx/rf2xx_init.c), the functions of             *)
(* rf2xx/rf2xx_tat.c it calls one after the other, the recognition of the  *)
(* chip, and the places of main that call mac_init and change what it      *)
(* sets.  A register is a byte; a subregister is some of its bits, written *)
(* by reading the byte, changing the bits and writing the byte back        *)
(* (rf2xx/rf2xx_hal.c), so that settings share registers.                  *)
(***************************************************************************)
EXTENDS RfBand

CONSTANTS
  Chips,      \* transceivers that may be on the board: [part, version, id0, id1]
  Bands,      \* values of rf212_band_set
  Channels,   \* values of the parameter cfg_chl, which AT+CHL stores as they come
  Addresses,  \* values of the parameter cfg_tgid
  PanIds,     \* PAN identifiers of synchronizing packets
  ResetValue  \* contents of the registers after a reset of the transceiver

DEFAULT_PANID == 4

\* rf2xx_registermap.h: the names are those of its RG_ definitions.
Registers ==
  {"TRX_CTRL_0", "TRX_CTRL_1", "PHY_TX_PWR", "PHY_CC_CCA", "TRX_CTRL_2",
   "ANT_DIV", "IRQ_MASK", "CC_CTRL_0", "CC_CTRL_1", "RF_CTRL_0", "XAH_CTRL_1",
   "SHORT_ADDR_0", "SHORT_ADDR_1", "PAN_ID_0", "PAN_ID_1", "XAH_CTRL",
   "CSMA_SEED_0", "CSMA_SEED_1", "CSMA_BE"}

Byte == 0..255
Word == 0 .. (255 * 256) + 255

ASSUME RadioSettingsAssumption ==
  /\ Channels \subseteq Word /\ Addresses \subseteq Word
  /\ PanIds \subseteq Word /\ Bands \subseteq Int
  /\ ResetValue \in [Registers -> Byte]

\* A subregister: its register, the value of its lowest bit, the number of its
\* values; its mask is unit * (size - 1).
SR(rg, unit, size) == [rg |-> rg, unit |-> unit, size |-> size]
CLKM_SHA_SEL == SR("TRX_CTRL_0", 8, 2)
CLKM_CTRL == SR("TRX_CTRL_0", 1, 8)
IRQ_2_EXT_EN == SR("TRX_CTRL_1", 64, 2)
TX_AUTO_CRC_ON == SR("TRX_CTRL_1", 32, 2)
IRQ_MASK_MODE == SR("TRX_CTRL_1", 2, 2)
PA_BOOST == SR("PHY_TX_PWR", 128, 2)
RF230_TX_AUTO_CRC_ON == SR("PHY_TX_PWR", 128, 2)
TX_PWR == SR("PHY_TX_PWR", 1, 16)
CHANNEL == SR("PHY_CC_CCA", 1, 32)
RX_SAFE_MODE == SR("TRX_CTRL_2", 128, 2)
OQPSK_DATA_RATE == SR("TRX_CTRL_2", 1, 4)
ANT_DIV_EN == SR("ANT_DIV", 8, 2)
ANT_EXT_SW_EN == SR("ANT_DIV", 4, 2)
CC_BAND == SR("CC_CTRL_1", 1, 8)
GC_TX_OFFS == SR("RF_CTRL_0", 1, 4)
AACK_ACK_TIME == SR("XAH_CTRL_1", 4, 2)
AACK_FVN_MODE == SR("CSMA_SEED_1", 64, 4)
AACK_SET_PD == SR("CSMA_SEED_1", 32, 2)
I_AM_COORD == SR("CSMA_SEED_1", 8, 2)
CSMA_SEED_1 == SR("CSMA_SEED_1", 1, 8)
MIN_BE == SR("CSMA_BE", 1, 16)

\* rf2xx_hal_subregister_read and _write.
Field(r, sr) == (r[sr.rg] \div sr.unit) % sr.size

Write_ClearsOthers(r, sr, v) ==
  [r EXCEPT ![sr.rg] = (v % sr.size) * sr.unit]
Write(r, sr, v) ==
  [r EXCEPT ![sr.rg] = @ + ((v % sr.size) - Field(r, sr)) * sr.unit]

VARIABLES
  chip, reg, slp,       \* the transceiver, its registers, SLP pin high
  rf2xx_version, channel_2_4G, panid, id, rf212_band_set,   \* globals
  cfg_chl, cfg_tgid,    \* parameters
  pc, tat               \* next call of rf2xx_Init; result of the last one

globals == <<rf2xx_version, channel_2_4G, panid, id, rf212_band_set>>
params == <<cfg_chl, cfg_tgid>>
vars == <<chip, reg, slp, globals, params, pc, tat>>

RF_IS_230 == rf2xx_version = 230
RF_IS_231 == rf2xx_version = 231
RF_IS_212 == rf2xx_version = 212
RF_IS_23X == RF_IS_230 \/ RF_IS_231

TypeOK ==
  /\ chip \in Chips /\ reg \in [Registers -> Byte] /\ slp \in BOOLEAN
  /\ rf2xx_version \in {0, 230, 231, 212} /\ channel_2_4G \in Byte
  /\ panid \in {DEFAULT_PANID} \cup PanIds /\ id \in Addresses
  /\ rf212_band_set \in Bands /\ cfg_chl \in Channels /\ cfg_tgid \in Addresses
  /\ pc \in {"idle", "init", "channel", "clock", "irq_mask", "enhanced", "bitrate",
             "tx_power", "address", "pan_id", "role", "csma", "auto_crc"}
  /\ tat \in {"SUCCESS", "TIMED_OUT", "UNSUPPORTED_DEVICE", "NO_DEVICE",
              "INVALID_ARGUMENT"}

\* main.c:91-95, the first mac_init.
Init ==
  /\ chip \in Chips /\ reg = ResetValue /\ slp = FALSE
  /\ rf2xx_version = 0 /\ rf212_band_set \in Bands
  /\ cfg_chl \in Channels /\ cfg_tgid \in Addresses
  /\ channel_2_4G = 12 /\ panid = DEFAULT_PANID /\ id = cfg_tgid
  /\ pc = "init" /\ tat = "SUCCESS"

-----------------------------------------------------------------------------
\* rf2xx_tat_init: which chip it is.  (The test of the revision of an RF230 asks
\* it to differ from one of two values, and the test of the manufacturer for both
\* halves of its number to be wrong.)
WrongMaker == chip.id0 # 31 /\ chip.id1 # 0

Revision(version) ==
  CASE version = 230 -> ~(chip.version # 1 \/ chip.version # 2)
    [] version = 231 -> chip.version = 2
    [] version = 212 -> chip.version = 1

Identify(version) ==
  /\ rf2xx_version' = version
  /\ tat' = IF Revision(version) /\ ~WrongMaker THEN "SUCCESS"
                                                 ELSE "UNSUPPORTED_DEVICE"

Goto(next) == pc' = IF tat' = "SUCCESS" THEN next ELSE "idle"

rf2xx_tat_init ==
  /\ pc = "init"
  /\ reg' = ResetValue /\ slp' = FALSE
  /\ \/ tat' = "TIMED_OUT" /\ UNCHANGED rf2xx_version     \* it is not in TRX_OFF
     \/ chip.part = 2 /\ Identify(230)
     \/ chip.part = 3 /\ Identify(231)
     \/ chip.part = 7 /\ Identify(212)
     \/ chip.part \notin {2, 3, 7} /\ tat' = "NO_DEVICE" /\ UNCHANGED rf2xx_version
  /\ Goto("channel")
  /\ UNCHANGED <<chip, channel_2_4G, panid, id, rf212_band_set, params>>

get_operating_channel(r) ==
  IF RF_IS_23X THEN Field(r, CHANNEL)
  ELSE get_band_channel(Setting(Field(r, CC_BAND), r["CC_CTRL_0"], Field(r, CHANNEL)))

ChannelIsValid_TooHigh == channel_2_4G \in 11..127
ChannelIsValid == channel_2_4G \in 11..26

SetChannel23X ==
  IF ~ChannelIsValid THEN tat' = "INVALID_ARGUMENT" /\ UNCHANGED reg
  ELSE LET r == IF get_operating_channel(reg) = channel_2_4G THEN reg
                ELSE Write(reg, CHANNEL, channel_2_4G)
       IN /\ reg' = r
          /\ tat' = IF get_operating_channel(r) = channel_2_4G THEN "SUCCESS"
                                                               ELSE "TIMED_OUT"

SetChannel212 ==
  LET set == set_band_channel(rf212_band_set)
  IN IF rf212_band_set \notin Frequencies
     THEN tat' = "INVALID_ARGUMENT" /\ UNCHANGED reg
     ELSE IF get_operating_channel(reg) = rf212_band_set
     THEN tat' = "SUCCESS" /\ UNCHANGED reg
     ELSE IF set = Failed THEN tat' = "INVALID_ARGUMENT" /\ UNCHANGED reg
     ELSE LET r == Write([Write(reg, CC_BAND, set.band)
                            EXCEPT !["CC_CTRL_0"] = set.number], CHANNEL, set.channel)
          IN /\ reg' = r
             /\ tat' = IF get_operating_channel(r) = rf212_band_set
                       THEN "SUCCESS" ELSE "TIMED_OUT"

rf2xx_tat_set_operating_channel ==
  /\ pc = "channel"
  /\ IF RF_IS_23X THEN SetChannel23X ELSE SetChannel212
  /\ Goto("clock")
  /\ UNCHANGED <<chip, slp, globals, params>>

-----------------------------------------------------------------------------
\* The others cannot fail: each of them writes some registers.
Step(from, to, r) ==
  /\ pc = from /\ pc' = to
  /\ reg' = r
  /\ UNCHANGED <<chip, slp, globals, params, tat>>

rf2xx_tat_set_clock_speed ==
  Step("clock", "irq_mask",
       IF Field(reg, CLKM_CTRL) = 0 THEN reg
       ELSE Write(Write(reg, CLKM_SHA_SEL, 0), CLKM_CTRL, 0))

SUPPORTED_INTERRUPT_MASK == IF RF_IS_230 THEN 207 ELSE 255

rf2xx_tat_set_irq_mask ==
  Step("irq_mask", "enhanced",
       [reg EXCEPT !["IRQ_MASK"] = SUPPORTED_INTERRUPT_MASK])

rf2xx_tat_set_enhanced_feature ==
  Step("enhanced", "bitrate",
       IF RF_IS_230 THEN reg
       ELSE Write(Write(Write(Write(Write(reg, AACK_FVN_MODE, 0), AACK_SET_PD, 0),
                              RX_SAFE_MODE, 1), IRQ_MASK_MODE, 0), IRQ_2_EXT_EN, 0))

\* 250 kbit/s and no antenna diversity on the RF231; BPSK_20 on the RF212, set by
\* rf2xx_tat_set_modulation_datarate, which keeps the two upper bits.
rf2xx_tat_set_bitrate ==
  Step("bitrate", "tx_power",
       CASE RF_IS_231 ->
              Write(Write(Write(reg, OQPSK_DATA_RATE, 0), ANT_DIV_EN, 0), ANT_EXT_SW_EN, 0)
         [] RF_IS_212 ->
              Write(Write([reg EXCEPT !["TRX_CTRL_2"] = 64 * (@ \div 64)], GC_TX_OFFS, 3),
                    AACK_ACK_TIME, 0)
         [] OTHER -> reg)

rf2xx_tat_set_tx_power_level ==
  Step("tx_power", "address",
       IF RF_IS_23X THEN Write(reg, TX_PWR, 0)
       ELSE Write([reg EXCEPT !["PHY_TX_PWR"] = 192], PA_BOOST, 1))

rf2xx_tat_set_short_address ==
  Step("address", "pan_id",
       [reg EXCEPT !["SHORT_ADDR_0"] = id % 256, !["SHORT_ADDR_1"] = id \div 256])

WithPanId(r, p) == [r EXCEPT !["PAN_ID_0"] = p % 256, !["PAN_ID_1"] = p \div 256]

rf2xx_tat_set_pan_id == Step("pan_id", "role", WithPanId(reg, panid))

rf2xx_tat_set_device_role == Step("role", "csma", Write(reg, I_AM_COORD, 0))

\* rf2xx_tat_configure_csma(4, 3, 4, 0x7f): the RF230 has everything in one byte.
rf2xx_tat_configure_csma ==
  LET r == [reg EXCEPT !["XAH_CTRL"] = 56, !["CSMA_SEED_0"] = 127]
  IN Step("csma", "auto_crc",
          IF RF_IS_230 THEN [r EXCEPT !["CSMA_SEED_1"] = 3 * 64]
          ELSE Write(Write(r, MIN_BE, 4), CSMA_SEED_1, 0))

rf2xx_tat_use_auto_tx_crc ==
  Step("auto_crc", "idle",
       Write(reg, IF RF_IS_230 THEN RF230_TX_AUTO_CRC_ON ELSE TX_AUTO_CRC_ON, 1))

rf2xx_Init ==
  \/ rf2xx_tat_init \/ rf2xx_tat_set_operating_channel \/ rf2xx_tat_set_clock_speed
  \/ rf2xx_tat_set_irq_mask \/ rf2xx_tat_set_enhanced_feature
  \/ rf2xx_tat_set_bitrate \/ rf2xx_tat_set_tx_power_level
  \/ rf2xx_tat_set_short_address \/ rf2xx_tat_set_pan_id
  \/ rf2xx_tat_set_device_role \/ rf2xx_tat_configure_csma
  \/ rf2xx_tat_use_auto_tx_crc

-----------------------------------------------------------------------------
\* channel_2_4G is a byte.
ChannelOf_Untruncated(c) == c
ChannelOf(c) == c % 256

\* mac_init on the channel of the parameters or on channel 12.
mac_init ==
  /\ pc = "idle"
  /\ channel_2_4G' \in {ChannelOf(cfg_chl), 12}
  /\ panid' = DEFAULT_PANID /\ id' = cfg_tgid
  /\ pc' = "init"
  /\ UNCHANGED <<chip, reg, slp, rf2xx_version, rf212_band_set, params, tat>>

\* A synchronizing packet: panid and its two registers (main.c:370-371), which a
\* transceiver that sleeps does not take.
Synchronize(p) ==
  /\ pc = "idle"
  /\ panid' = p
  /\ reg' = IF slp THEN reg ELSE WithPanId(reg, p)
  /\ UNCHANGED <<chip, slp, rf2xx_version, channel_2_4G, id, rf212_band_set, params,
                 pc, tat>>

\* The parameters change in the configuration mode, without a test of their values.
Configure ==
  /\ pc = "idle"
  /\ cfg_chl' \in Channels /\ cfg_tgid' \in Addresses
  /\ UNCHANGED <<chip, reg, slp, globals, pc, tat>>

Sleep ==
  /\ pc = "idle" /\ slp' = TRUE
  /\ UNCHANGED <<chip, reg, globals, params, pc, tat>>

Next ==
  \/ rf2xx_Init \/ mac_init \/ Configure \/ Sleep
  \/ \E p \in PanIds : Synchronize(p)

Spec == Init /\ [][Next]_vars

-----------------------------------------------------------------------------
(* Properties.                                                             *)

Configured ==
  /\ get_operating_channel(reg) = IF RF_IS_212 THEN rf212_band_set ELSE channel_2_4G
  /\ reg["SHORT_ADDR_0"] + 256 * reg["SHORT_ADDR_1"] = id
  /\ slp \/ reg["PAN_ID_0"] + 256 * reg["PAN_ID_1"] = panid
  /\ reg["IRQ_MASK"] = SUPPORTED_INTERRUPT_MASK
  /\ reg["XAH_CTRL"] = 56 /\ Field(reg, MIN_BE) = 4 /\ reg["CSMA_SEED_0"] = 127
  /\ Field(reg, CSMA_SEED_1) = 0 /\ Field(reg, I_AM_COORD) = 0
  /\ Field(reg, AACK_FVN_MODE) = 0 /\ Field(reg, AACK_SET_PD) = 0
  /\ Field(reg, RX_SAFE_MODE) = 1 /\ Field(reg, TX_AUTO_CRC_ON) = 1
  /\ Field(reg, IRQ_MASK_MODE) = 0 /\ Field(reg, CLKM_CTRL) = 0
  /\ IF RF_IS_212 THEN reg["PHY_TX_PWR"] = 192 ELSE Field(reg, TX_PWR) = 0

\* rf2xx_Init sets everything or leaves a transceiver that neither interrupts nor
\* has an address: the settings that share registers (CSMA_SEED_1, TRX_CTRL_1 and
\* 2, PHY_TX_PWR) do not undo each other, and nothing of an earlier call remains
\* after one that gave up, whose result mac_init does not look at.  The network is the
\* one in panid, which every mac_init sets back to DEFAULT_PANID: that the card goes on
\* filtering by the one a synchronizing packet named is not so, and not claimed.
AllOrNothing ==
  pc = "idle" =>
    IF tat = "SUCCESS" THEN Configured
    ELSE reg["IRQ_MASK"] = ResetValue["IRQ_MASK"]
         /\ reg["SHORT_ADDR_0"] = ResetValue["SHORT_ADDR_0"]
         /\ reg["SHORT_ADDR_1"] = ResetValue["SHORT_ADDR_1"]

\* A channel that was accepted is read back as it was set: set_band_channel and
\* get_band_channel agree, and so do the channel and its five bits.
ChannelReadsBack ==
  [][rf2xx_tat_set_operating_channel => tat' # "TIMED_OUT"]_vars

=============================================================================
