-------------------------- MODULE RadioSettingsProofs --------------------------
(***************************************************************************)
(* rf2xx_Init sets every register it is to set, whatever the transceiver,  *)
(* the parameters and the contents of the registers before.                *)
(*                                                                         *)
(* The invariant says, for every function of rf2xx_Init, what holds from   *)
(* its return on; that the functions after it do not undo it is a matter   *)
(* of the bits they share a register with (WriteKeeps).                    *)
(***************************************************************************)
EXTENDS RadioSettings, TLAPS

(***************************************************************************)
(* The arithmetic of the channels (RfBand).                                *)
(***************************************************************************)

\* The limits of the bands, as numbers.
LEMMA Limits ==
  /\ Base[1] = 7690 /\ Base[2] = 8570 /\ Base[3] = 9030 /\ Base[4] = 7690 /\ Base[5] = 8330
  /\ End[1] = 7945 /\ End[2] = 8825 /\ End[3] = 9285 /\ End[4] = 8630
  BY DEF Base, End

\* get_band_channel, band by band.
LEMMA Band0 ==
  ASSUME NEW k \in 0..9
  PROVE  get_band_channel(Setting(0, 0, k + 1)) = 9060 + 20 * k
<1> DEFINE s == Setting(0, 0, k + 1)
<1>1. s.band = 0 /\ s.channel = k + 1
  BY DEF Setting
<1> HIDE DEF s
<1>2. s.channel \in 1..10 /\ s.channel # 0
  BY <1>1
<1>3. get_band_channel(s) = NA_906 + (s.channel - 1) * 20
  BY <1>1, <1>2 DEF get_band_channel
<1> QED BY <1>1, <1>3 DEF s, NA_906

LEMMA Bands1To3 ==
  ASSUME NEW b \in 1..3, NEW n \in Int
  PROVE  get_band_channel(Setting(b, n, 0)) = Base[b] + n
<1> DEFINE s == Setting(b, n, 0)
<1>1. s.band = b /\ s.number = n
  BY DEF Setting
<1> HIDE DEF s
<1>2. s.band # 0 /\ s.band \in 1..3
  BY <1>1
<1>3. get_band_channel(s) = Base[s.band] + s.number
  BY <1>2 DEF get_band_channel
<1> QED BY <1>1, <1>3 DEF s

LEMMA Bands4And5 ==
  ASSUME NEW b \in 4..5, NEW n \in Int
  PROVE  get_band_channel(Setting(b, n, 0)) = Base[b] + n * 10
<1> DEFINE s == Setting(b, n, 0)
<1>1. s.band = b /\ s.number = n
  BY DEF Setting
<1> HIDE DEF s
<1>2. s.band # 0 /\ s.band \notin 1..3 /\ s.band \in 4..5
  BY <1>1
<1>3. get_band_channel(s) = Base[s.band] + s.number * 10
  BY <1>2 DEF get_band_channel
<1> QED BY <1>1, <1>3 DEF s

\* Every frequency that set_band_channel accepts is the one that get_band_channel
\* reads back, and its number fits into the byte that rf212_cc_number is:
\* rf2xx_tat_set_operating_channel never reports a time-out for the frequency itself.
THEOREM BandReadsBack ==
  ASSUME NEW f \in Frequencies, set_band_channel(f) # Failed
  PROVE  /\ set_band_channel(f).number \in 0..255
         /\ get_band_channel(set_band_channel(f)) = f
<1>1. f \in Int /\ 7690 <= f /\ f <= 9350
  BY DEF Frequencies, RF212_MIN_CHANNEL, RF212_MAX_CHANNEL
<1>2. CASE f = EU_868_3
  <2>1. set_band_channel(f) = Setting(0, 0, 0)
    BY <1>2 DEF set_band_channel, InBand0
  <2> QED BY <1>2, <2>1 DEF get_band_channel, Setting, EU_868_3
<1>3. CASE InBand0(f) /\ f # EU_868_3
  <2>1. PICK k \in 0..9 : f = 9060 + 20 * k
    BY <1>3 DEF InBand0, NA_906
  <2>2. set_band_channel(f) = Setting(0, 0, k + 1)
    <3>1. (f - 9060) \div 20 = k
      BY <2>1
    <3>2. set_band_channel(f) = Setting(0, 0, (f - NA_906) \div 20 + 1)
      BY <1>3 DEF set_band_channel
    <3> QED BY <3>1, <3>2 DEF NA_906
  <2>3. Setting(0, 0, k + 1).number = 0
    BY DEF Setting
  <2> QED BY <2>1, <2>2, <2>3, Band0
<1>4. CASE ~InBand0(f) /\ f % 10 = 0
  <2>1. PICK q \in Int : f = 10 * q
    BY <1>1, <1>4
  <2>2. f # EU_868_3
    BY <1>4 DEF InBand0
  <2>3. CASE f < 8630
    <3>1. set_band_channel(f) = Setting(4, (f - Base[4]) \div 10, 0)
      BY <1>4, <2>2, <2>3, Limits DEF set_band_channel
    <3>2. (f - Base[4]) \div 10 = q - 769
      BY <2>1, Limits
    <3>3. Setting(4, q - 769, 0).number = q - 769
      BY DEF Setting
    <3>4. q - 769 \in 0..255
      BY <1>1, <2>1, <2>3
    <3>5. get_band_channel(Setting(4, q - 769, 0)) = 7690 + (q - 769) * 10
      BY <3>4, Bands4And5, Limits
    <3> QED BY <2>1, <3>1, <3>2, <3>3, <3>4, <3>5
  <2>4. CASE ~(f < 8630)
    <3>1. set_band_channel(f) = Setting(5, (f - Base[5]) \div 10, 0)
      BY <1>4, <2>2, <2>4, Limits DEF set_band_channel
    <3>2. (f - Base[5]) \div 10 = q - 833
      BY <2>1, Limits
    <3>3. Setting(5, q - 833, 0).number = q - 833
      BY DEF Setting
    <3>4. q - 833 \in 0..255
      BY <1>1, <2>1, <2>4
    <3>5. get_band_channel(Setting(5, q - 833, 0)) = 8330 + (q - 833) * 10
      BY <3>4, Bands4And5, Limits
    <3> QED BY <2>1, <3>1, <3>2, <3>3, <3>4, <3>5
  <2> QED BY <2>3, <2>4
<1>5. CASE ~InBand0(f) /\ f % 10 # 0
  <2>1. f # EU_868_3
    BY <1>5 DEF InBand0
  <2>2. PICK b \in 1..3 : WithinBand(f, b) /\ set_band_channel(f) = Setting(b, f - Base[b], 0)
    BY <1>5, <2>1 DEF set_band_channel
  <2>3. f - Base[b] \in 0..255
    BY <1>1, <2>2, Limits DEF WithinBand
  <2>4. Setting(b, f - Base[b], 0).number = f - Base[b]
    BY DEF Setting
  <2>5. get_band_channel(Setting(b, f - Base[b], 0)) = Base[b] + (f - Base[b])
    BY <2>3, Bands1To3
  <2>6. Base[b] \in Int
    BY Limits
  <2> QED BY <1>1, <2>2, <2>3, <2>4, <2>5, <2>6
<1> QED BY <1>2, <1>3, <1>4, <1>5

(***************************************************************************)
(* The registers and rf2xx_Init.                                           *)
(***************************************************************************)

\* The registers of the transceiver, and the subregisters that are used.
RegisterFile == [Registers -> Byte]
Subregisters ==
  {CLKM_SHA_SEL, CLKM_CTRL, IRQ_2_EXT_EN, TX_AUTO_CRC_ON, IRQ_MASK_MODE, PA_BOOST,
   RF230_TX_AUTO_CRC_ON, TX_PWR, CHANNEL, RX_SAFE_MODE, OQPSK_DATA_RATE, ANT_DIV_EN,
   ANT_EXT_SW_EN, CC_BAND, GC_TX_OFFS, AACK_ACK_TIME, AACK_FVN_MODE, AACK_SET_PD,
   I_AM_COORD, CSMA_SEED_1, MIN_BE}

\* The units and sizes of the subregisters.
Shapes == {<<8,2>>, <<1,8>>, <<64,2>>, <<32,2>>, <<2,2>>, <<128,2>>, <<1,16>>, <<1,32>>,
           <<1,4>>, <<4,2>>, <<64,4>>}

\* The bits of a byte, and a byte with these bits replaced.
Low(v, s) == v % s
Bits(b, u, s) == (b \div u) % s
Put(b, u, s, v) == b + (Low(v, s) - Bits(b, u, s)) * u

\* What is put into a byte is read from it, and the byte stays one.
LEMMA PutIs ==
  ASSUME NEW b \in Byte, NEW v \in Byte, NEW u \in Nat, NEW s \in Nat,
         <<u, s>> \in Shapes
  PROVE  /\ Put(b, u, s, v) \in Byte
         /\ Bits(Put(b, u, s, v), u, s) = Low(v, s)
<1>1. CASE u = 8 /\ s = 2
  BY <1>1, SMTT(30) DEF Put, Bits, Low, Byte
<1>2. CASE u = 1 /\ s = 8
  BY <1>2, SMTT(30) DEF Put, Bits, Low, Byte
<1>3. CASE u = 64 /\ s = 2
  BY <1>3, SMTT(30) DEF Put, Bits, Low, Byte
<1>4. CASE u = 32 /\ s = 2
  BY <1>4, SMTT(30) DEF Put, Bits, Low, Byte
<1>5. CASE u = 2 /\ s = 2
  BY <1>5, SMTT(30) DEF Put, Bits, Low, Byte
<1>6. CASE u = 128 /\ s = 2
  BY <1>6, SMTT(30) DEF Put, Bits, Low, Byte
<1>7. CASE u = 1 /\ s = 16
  BY <1>7, SMTT(30) DEF Put, Bits, Low, Byte
<1>8. CASE u = 1 /\ s = 32
  BY <1>8, SMTT(30) DEF Put, Bits, Low, Byte
<1>9. CASE u = 1 /\ s = 4
  BY <1>9, SMTT(30) DEF Put, Bits, Low, Byte
<1>10. CASE u = 4 /\ s = 2
  BY <1>10, SMTT(30) DEF Put, Bits, Low, Byte
<1>11. CASE u = 64 /\ s = 4
  BY <1>11, SMTT(30) DEF Put, Bits, Low, Byte
<1> QED
  BY <1>1, <1>2, <1>3, <1>4, <1>5, <1>6, <1>7, <1>8, <1>9, <1>10, <1>11 DEF Shapes

\* Bits next to each other in a register: those that are written, those that stay.
Neighbours ==
  {<<64, 2, 2, 2>>, <<32, 2, 2, 2>>, <<32, 2, 64, 4>>, <<8, 2, 64, 4>>, <<8, 2, 32, 2>>,
   <<1, 8, 64, 4>>, <<1, 8, 32, 2>>, <<1, 8, 8, 2>>, <<1, 4, 128, 2>>}

LEMMA PutKeeps ==
  ASSUME NEW b \in Byte, NEW v \in Byte,
         NEW u \in Nat, NEW s \in Nat, NEW p \in Nat, NEW q \in Nat,
         <<u, s, p, q>> \in Neighbours
  PROVE  Bits(Put(b, u, s, v), p, q) = Bits(b, p, q)
<1>1. CASE u = 64 /\ s = 2 /\ p = 2 /\ q = 2
  BY <1>1, SMTT(30) DEF Put, Bits, Low, Byte
<1>2. CASE u = 32 /\ s = 2 /\ p = 2 /\ q = 2
  BY <1>2, SMTT(30) DEF Put, Bits, Low, Byte
<1>3. CASE u = 32 /\ s = 2 /\ p = 64 /\ q = 4
  BY <1>3, SMTT(30) DEF Put, Bits, Low, Byte
<1>4. CASE u = 8 /\ s = 2 /\ p = 64 /\ q = 4
  BY <1>4, SMTT(30) DEF Put, Bits, Low, Byte
<1>5. CASE u = 8 /\ s = 2 /\ p = 32 /\ q = 2
  BY <1>5, SMTT(30) DEF Put, Bits, Low, Byte
<1>6. CASE u = 1 /\ s = 8 /\ p = 64 /\ q = 4
  BY <1>6, SMTT(30) DEF Put, Bits, Low, Byte
<1>7. CASE u = 1 /\ s = 8 /\ p = 32 /\ q = 2
  BY <1>7, SMTT(30) DEF Put, Bits, Low, Byte
<1>8. CASE u = 1 /\ s = 8 /\ p = 8 /\ q = 2
  BY <1>8, SMTT(30) DEF Put, Bits, Low, Byte
<1>9. CASE u = 1 /\ s = 4 /\ p = 128 /\ q = 2
  BY <1>9, SMTT(30) DEF Put, Bits, Low, Byte
<1> QED
  BY <1>1, <1>2, <1>3, <1>4, <1>5, <1>6, <1>7, <1>8, <1>9 DEF Neighbours

\* Every subregister is in a register and has one of the shapes.
LEMMA Shaped ==
  ASSUME NEW sr \in Subregisters
  PROVE  /\ <<sr.unit, sr.size>> \in Shapes /\ sr.rg \in Registers
         /\ sr.unit \in Nat /\ sr.size \in Nat
  BY DEF Subregisters, Shapes, Registers, SR, CLKM_SHA_SEL, CLKM_CTRL, IRQ_2_EXT_EN,
         TX_AUTO_CRC_ON, IRQ_MASK_MODE, PA_BOOST, RF230_TX_AUTO_CRC_ON, TX_PWR, CHANNEL,
         RX_SAFE_MODE, OQPSK_DATA_RATE, ANT_DIV_EN, ANT_EXT_SW_EN, CC_BAND, GC_TX_OFFS,
         AACK_ACK_TIME, AACK_FVN_MODE, AACK_SET_PD, I_AM_COORD, CSMA_SEED_1, MIN_BE

\* A written subregister holds what was written, as far as it has room for it; the
\* register stays a byte and the other registers what they were.
LEMMA WriteIs ==
  ASSUME NEW r \in RegisterFile, NEW sr \in Subregisters, NEW v \in Byte
  PROVE  /\ Write(r, sr, v) \in RegisterFile
         /\ \A rg \in Registers : rg # sr.rg => Write(r, sr, v)[rg] = r[rg]
         /\ Write(r, sr, v)[sr.rg] = Put(r[sr.rg], sr.unit, sr.size, v)
         /\ Field(Write(r, sr, v), sr) = Low(v, sr.size)
<1>1. /\ <<sr.unit, sr.size>> \in Shapes /\ sr.rg \in Registers
      /\ sr.unit \in Nat /\ sr.size \in Nat
  BY Shaped
<1>2. Write(r, sr, v) = [r EXCEPT ![sr.rg] = Put(r[sr.rg], sr.unit, sr.size, v)]
  BY DEF Write, Field, Put, Bits, Low
<1>3. r[sr.rg] \in Byte
  BY <1>1 DEF RegisterFile
<1>4. /\ Put(r[sr.rg], sr.unit, sr.size, v) \in Byte
      /\ Bits(Put(r[sr.rg], sr.unit, sr.size, v), sr.unit, sr.size) = Low(v, sr.size)
  BY <1>1, <1>3, PutIs
<1>5. Write(r, sr, v)[sr.rg] = Put(r[sr.rg], sr.unit, sr.size, v)
  BY <1>1, <1>2 DEF RegisterFile
<1>6. Write(r, sr, v) \in RegisterFile
  BY <1>1, <1>2, <1>4 DEF RegisterFile
<1>7. \A rg \in Registers : rg # sr.rg => Write(r, sr, v)[rg] = r[rg]
  BY <1>1, <1>2 DEF RegisterFile
<1> QED
  BY <1>4, <1>5, <1>6, <1>7 DEF Field, Bits

\* Subregisters of different registers, or neighbours in one.
Apart(a, b) == a.rg # b.rg \/ <<a.unit, a.size, b.unit, b.size>> \in Neighbours

\* A write leaves the subregisters alone that are apart from the one it writes.
LEMMA WriteKeeps ==
  ASSUME NEW r \in RegisterFile, NEW a \in Subregisters, NEW b \in Subregisters,
         NEW v \in Byte, Apart(a, b)
  PROVE  Field(Write(r, a, v), b) = Field(r, b)
<1>1. /\ a.rg \in Registers /\ b.rg \in Registers
      /\ a.unit \in Nat /\ a.size \in Nat /\ b.unit \in Nat /\ b.size \in Nat
  BY Shaped
<1>2. CASE a.rg # b.rg
  BY <1>1, <1>2, WriteIs DEF Field, Bits
<1>3. CASE a.rg = b.rg
  <2>1. <<a.unit, a.size, b.unit, b.size>> \in Neighbours
    BY <1>3 DEF Apart
  <2>2. r[a.rg] \in Byte
    BY <1>1 DEF RegisterFile
  <2>3. Bits(Put(r[a.rg], a.unit, a.size, v), b.unit, b.size)
         = Bits(r[a.rg], b.unit, b.size)
    BY <1>1, <2>1, <2>2, PutKeeps, SMTT(30)
  <2>4. Write(r, a, v)[a.rg] = Put(r[a.rg], a.unit, a.size, v)
    BY WriteIs
  <2> QED
    BY <1>3, <2>3, <2>4 DEF Field, Bits
<1> QED
  BY <1>2, <1>3

\* The subregisters, register by register.
LEMMA ClockBits ==
  /\ CLKM_SHA_SEL \in Subregisters /\ CLKM_SHA_SEL.rg = "TRX_CTRL_0"
  /\ CLKM_SHA_SEL.unit = 8 /\ CLKM_SHA_SEL.size = 2
  /\ CLKM_CTRL \in Subregisters /\ CLKM_CTRL.rg = "TRX_CTRL_0"
  /\ CLKM_CTRL.unit = 1 /\ CLKM_CTRL.size = 8
  BY DEF Subregisters, SR, CLKM_SHA_SEL, CLKM_CTRL

LEMMA InterruptBits ==
  /\ IRQ_2_EXT_EN \in Subregisters /\ IRQ_2_EXT_EN.rg = "TRX_CTRL_1"
  /\ IRQ_2_EXT_EN.unit = 64 /\ IRQ_2_EXT_EN.size = 2
  /\ IRQ_MASK_MODE \in Subregisters /\ IRQ_MASK_MODE.rg = "TRX_CTRL_1"
  /\ IRQ_MASK_MODE.unit = 2 /\ IRQ_MASK_MODE.size = 2
  BY DEF Subregisters, SR, IRQ_2_EXT_EN, IRQ_MASK_MODE

LEMMA CrcBits ==
  /\ TX_AUTO_CRC_ON \in Subregisters /\ TX_AUTO_CRC_ON.rg = "TRX_CTRL_1"
  /\ TX_AUTO_CRC_ON.unit = 32 /\ TX_AUTO_CRC_ON.size = 2
  /\ RF230_TX_AUTO_CRC_ON \in Subregisters /\ RF230_TX_AUTO_CRC_ON.rg = "PHY_TX_PWR"
  /\ RF230_TX_AUTO_CRC_ON.unit = 128 /\ RF230_TX_AUTO_CRC_ON.size = 2
  BY DEF Subregisters, SR, TX_AUTO_CRC_ON, RF230_TX_AUTO_CRC_ON

LEMMA PowerBits ==
  /\ PA_BOOST \in Subregisters /\ PA_BOOST.rg = "PHY_TX_PWR"
  /\ PA_BOOST.unit = 128 /\ PA_BOOST.size = 2
  /\ TX_PWR \in Subregisters /\ TX_PWR.rg = "PHY_TX_PWR"
  /\ TX_PWR.unit = 1 /\ TX_PWR.size = 16
  BY DEF Subregisters, SR, PA_BOOST, TX_PWR

LEMMA ChannelBits ==
  /\ CHANNEL \in Subregisters /\ CHANNEL.rg = "PHY_CC_CCA"
  /\ CHANNEL.unit = 1 /\ CHANNEL.size = 32
  /\ CC_BAND \in Subregisters /\ CC_BAND.rg = "CC_CTRL_1"
  /\ CC_BAND.unit = 1 /\ CC_BAND.size = 8
  BY DEF Subregisters, SR, CHANNEL, CC_BAND

LEMMA RateBits ==
  /\ RX_SAFE_MODE \in Subregisters /\ RX_SAFE_MODE.rg = "TRX_CTRL_2"
  /\ RX_SAFE_MODE.unit = 128 /\ RX_SAFE_MODE.size = 2
  /\ OQPSK_DATA_RATE \in Subregisters /\ OQPSK_DATA_RATE.rg = "TRX_CTRL_2"
  /\ OQPSK_DATA_RATE.unit = 1 /\ OQPSK_DATA_RATE.size = 4
  BY DEF Subregisters, SR, RX_SAFE_MODE, OQPSK_DATA_RATE

LEMMA AntennaBits ==
  /\ ANT_DIV_EN \in Subregisters /\ ANT_DIV_EN.rg = "ANT_DIV"
  /\ ANT_DIV_EN.unit = 8 /\ ANT_DIV_EN.size = 2
  /\ ANT_EXT_SW_EN \in Subregisters /\ ANT_EXT_SW_EN.rg = "ANT_DIV"
  /\ ANT_EXT_SW_EN.unit = 4 /\ ANT_EXT_SW_EN.size = 2
  BY DEF Subregisters, SR, ANT_DIV_EN, ANT_EXT_SW_EN

LEMMA TimingBits ==
  /\ GC_TX_OFFS \in Subregisters /\ GC_TX_OFFS.rg = "RF_CTRL_0"
  /\ GC_TX_OFFS.unit = 1 /\ GC_TX_OFFS.size = 4
  /\ AACK_ACK_TIME \in Subregisters /\ AACK_ACK_TIME.rg = "XAH_CTRL_1"
  /\ AACK_ACK_TIME.unit = 4 /\ AACK_ACK_TIME.size = 2
  BY DEF Subregisters, SR, GC_TX_OFFS, AACK_ACK_TIME

LEMMA AckBits ==
  /\ AACK_FVN_MODE \in Subregisters /\ AACK_FVN_MODE.rg = "CSMA_SEED_1"
  /\ AACK_FVN_MODE.unit = 64 /\ AACK_FVN_MODE.size = 4
  /\ AACK_SET_PD \in Subregisters /\ AACK_SET_PD.rg = "CSMA_SEED_1"
  /\ AACK_SET_PD.unit = 32 /\ AACK_SET_PD.size = 2
  BY DEF Subregisters, SR, AACK_FVN_MODE, AACK_SET_PD

LEMMA CsmaBits ==
  /\ I_AM_COORD \in Subregisters /\ I_AM_COORD.rg = "CSMA_SEED_1"
  /\ I_AM_COORD.unit = 8 /\ I_AM_COORD.size = 2
  /\ CSMA_SEED_1 \in Subregisters /\ CSMA_SEED_1.rg = "CSMA_SEED_1"
  /\ CSMA_SEED_1.unit = 1 /\ CSMA_SEED_1.size = 8
  /\ MIN_BE \in Subregisters /\ MIN_BE.rg = "CSMA_BE"
  /\ MIN_BE.unit = 1 /\ MIN_BE.size = 16
  BY DEF Subregisters, SR, I_AM_COORD, CSMA_SEED_1, MIN_BE

LEMMA Lows ==
  /\ Low(0, 2) = 0 /\ Low(0, 4) = 0 /\ Low(0, 8) = 0 /\ Low(0, 16) = 0 /\ Low(1, 2) = 1
  /\ Low(4, 16) = 4
  /\ \A c \in 0..31 : Low(c, 32) = c
  /\ \A b \in 0..7 : Low(b, 8) = b
  BY DEF Low

LEMMA Bytes == 0 \in Byte /\ 1 \in Byte /\ 3 \in Byte /\ 4 \in Byte /\ 0..31 \subseteq Byte
  BY DEF Byte

\* A subregister that is cleared, or a single bit that is set.
LEMMA Cleared ==
  ASSUME NEW r \in RegisterFile, NEW sr \in Subregisters
  PROVE  /\ Write(r, sr, 0) \in RegisterFile /\ Field(Write(r, sr, 0), sr) = 0
         /\ \A rg \in Registers : rg # sr.rg => Write(r, sr, 0)[rg] = r[rg]
<1>1. Low(0, sr.size) = 0
  BY Shaped DEF Low, Shapes
<1> QED
  BY <1>1, WriteIs, Bytes

LEMMA BitSet ==
  ASSUME NEW r \in RegisterFile, NEW sr \in Subregisters, sr.size = 2
  PROVE  /\ Write(r, sr, 1) \in RegisterFile /\ Field(Write(r, sr, 1), sr) = 1
         /\ Write(r, sr, 1)[sr.rg] = Put(r[sr.rg], sr.unit, sr.size, 1)
         /\ \A rg \in Registers : rg # sr.rg => Write(r, sr, 1)[rg] = r[rg]
<1>1. Low(1, sr.size) = 1
  BY Lows
<1> QED
  BY <1>1, WriteIs, Bytes

LEMMA FourWritten ==
  ASSUME NEW r \in RegisterFile, NEW sr \in Subregisters
  PROVE  /\ Write(r, sr, 4) \in RegisterFile /\ Field(Write(r, sr, 4), sr) = Low(4, sr.size)
         /\ \A rg \in Registers : rg # sr.rg => Write(r, sr, 4)[rg] = r[rg]
  BY WriteIs, Bytes

\* Registers that a step leaves alone keep their subregisters.
LEMMA FieldsKept ==
  ASSUME NEW r \in RegisterFile, NEW w \in RegisterFile, NEW X,
         \A rg \in Registers \ X : w[rg] = r[rg]
  PROVE  \A sr \in Subregisters : sr.rg \notin X => Field(w, sr) = Field(r, sr)
  BY Shaped DEF Field

EnhancedOf(r) ==
  Write(Write(Write(Write(Write(r, AACK_FVN_MODE, 0), AACK_SET_PD, 0),
    RX_SAFE_MODE, 1), IRQ_MASK_MODE, 0), IRQ_2_EXT_EN, 0)

\* rf2xx_tat_set_enhanced_feature: five subregisters of three registers.
LEMMA EnhancedRegisters ==
  ASSUME NEW r \in RegisterFile
  PROVE  /\ EnhancedOf(r) \in RegisterFile
         /\ \A rg \in Registers \ {"CSMA_SEED_1", "TRX_CTRL_2", "TRX_CTRL_1"} :
              EnhancedOf(r)[rg] = r[rg]
         /\ Field(EnhancedOf(r), AACK_FVN_MODE) = 0 /\ Field(EnhancedOf(r), AACK_SET_PD) = 0
         /\ Field(EnhancedOf(r), RX_SAFE_MODE) = 1
         /\ Field(EnhancedOf(r), IRQ_MASK_MODE) = 0
<1> DEFINE r1 == Write(r, AACK_FVN_MODE, 0)
           r2 == Write(r1, AACK_SET_PD, 0)
           r3 == Write(r2, RX_SAFE_MODE, 1)
           r4 == Write(r3, IRQ_MASK_MODE, 0)
           r5 == Write(r4, IRQ_2_EXT_EN, 0)
<1>1. /\ r1 \in RegisterFile /\ Field(r1, AACK_FVN_MODE) = 0
      /\ \A rg \in Registers : rg # "CSMA_SEED_1" => r1[rg] = r[rg]
  BY Cleared, AckBits
<1> HIDE DEF r1
<1>2. /\ r2 \in RegisterFile /\ Field(r2, AACK_SET_PD) = 0
      /\ \A rg \in Registers : rg # "CSMA_SEED_1" => r2[rg] = r1[rg]
  BY <1>1, Cleared, AckBits
<1>3. Field(r2, AACK_FVN_MODE) = 0
  BY <1>1, WriteKeeps, AckBits, Bytes DEF Apart, Neighbours
<1> HIDE DEF r2
<1>4. /\ r3 \in RegisterFile /\ Field(r3, RX_SAFE_MODE) = 1
      /\ \A rg \in Registers : rg # "TRX_CTRL_2" => r3[rg] = r2[rg]
  BY <1>2, BitSet, RateBits
<1> HIDE DEF r3
<1>5. /\ r4 \in RegisterFile /\ Field(r4, IRQ_MASK_MODE) = 0
      /\ \A rg \in Registers : rg # "TRX_CTRL_1" => r4[rg] = r3[rg]
  BY <1>4, Cleared, InterruptBits
<1> HIDE DEF r4
<1>6. /\ r5 \in RegisterFile
      /\ \A rg \in Registers : rg # "TRX_CTRL_1" => r5[rg] = r4[rg]
  BY <1>5, Cleared, InterruptBits
<1>7. Field(r5, IRQ_MASK_MODE) = 0
  BY <1>5, WriteKeeps, InterruptBits, Bytes DEF Apart, Neighbours
<1> HIDE DEF r5
<1>8. Field(r5, AACK_FVN_MODE) = 0 /\ Field(r5, AACK_SET_PD) = 0
      /\ Field(r5, RX_SAFE_MODE) = 1
  <2>1. /\ r5["CSMA_SEED_1"] = r2["CSMA_SEED_1"]
        /\ r5["TRX_CTRL_2"] = r3["TRX_CTRL_2"]
    BY <1>4, <1>5, <1>6 DEF Registers
  <2> QED
    BY <1>2, <1>3, <1>4, <2>1, AckBits, RateBits DEF Field
<1>9. \A rg \in Registers \ {"CSMA_SEED_1", "TRX_CTRL_2", "TRX_CTRL_1"} : r5[rg] = r[rg]
  BY <1>1, <1>2, <1>4, <1>5, <1>6
<1> QED
  BY <1>6, <1>7, <1>8, <1>9 DEF r1, r2, r3, r4, r5, EnhancedOf

\* rf2xx_tat_set_bitrate keeps the safe mode of the receiver, which is in the
\* register of the data rate.
BitrateRegisters == {"TRX_CTRL_2", "ANT_DIV", "RF_CTRL_0", "XAH_CTRL_1"}

Bitrate231Of(r) ==
  Write(Write(Write(r, OQPSK_DATA_RATE, 0), ANT_DIV_EN, 0),
    ANT_EXT_SW_EN, 0)

LEMMA Bitrate231 ==
  ASSUME NEW r \in RegisterFile
  PROVE  /\ Bitrate231Of(r) \in RegisterFile
         /\ \A rg \in Registers \ BitrateRegisters : Bitrate231Of(r)[rg] = r[rg]
         /\ Field(Bitrate231Of(r), RX_SAFE_MODE) = Field(r, RX_SAFE_MODE)
<1> DEFINE r1 == Write(r, OQPSK_DATA_RATE, 0)
           r2 == Write(r1, ANT_DIV_EN, 0)
           r3 == Write(r2, ANT_EXT_SW_EN, 0)
<1>1. /\ r1 \in RegisterFile
      /\ \A rg \in Registers : rg # "TRX_CTRL_2" => r1[rg] = r[rg]
  BY Cleared, RateBits
<1>2. Field(r1, RX_SAFE_MODE) = Field(r, RX_SAFE_MODE)
  BY WriteKeeps, RateBits, Bytes DEF Apart, Neighbours
<1> HIDE DEF r1
<1>3. /\ r2 \in RegisterFile
      /\ \A rg \in Registers : rg # "ANT_DIV" => r2[rg] = r1[rg]
  BY <1>1, Cleared, AntennaBits
<1> HIDE DEF r2
<1>4. /\ r3 \in RegisterFile
      /\ \A rg \in Registers : rg # "ANT_DIV" => r3[rg] = r2[rg]
  BY <1>3, Cleared, AntennaBits
<1> HIDE DEF r3
<1>5. r3["TRX_CTRL_2"] = r1["TRX_CTRL_2"]
  BY <1>3, <1>4 DEF Registers
<1>6. Field(r3, RX_SAFE_MODE) = Field(r, RX_SAFE_MODE)
  BY <1>2, <1>5, RateBits DEF Field
<1>7. \A rg \in Registers \ BitrateRegisters : r3[rg] = r[rg]
  BY <1>1, <1>3, <1>4 DEF BitrateRegisters
<1> QED
  BY <1>4, <1>6, <1>7 DEF r1, r2, r3, Bitrate231Of

LEMMA UpperBits ==
  \A b \in Byte : 64 * (b \div 64) \in Byte
                  /\ Bits(64 * (b \div 64), 128, 2) = Bits(b, 128, 2)
  BY DEF Byte, Bits

Bitrate212Of(r) ==
  Write(Write([r EXCEPT !["TRX_CTRL_2"] = 64 * (@ \div 64)],
    GC_TX_OFFS, 3), AACK_ACK_TIME, 0)

LEMMA Bitrate212 ==
  ASSUME NEW r \in RegisterFile
  PROVE  /\ Bitrate212Of(r) \in RegisterFile
         /\ \A rg \in Registers \ BitrateRegisters : Bitrate212Of(r)[rg] = r[rg]
         /\ Field(Bitrate212Of(r), RX_SAFE_MODE) = Field(r, RX_SAFE_MODE)
<1> DEFINE r1 == [r EXCEPT !["TRX_CTRL_2"] = 64 * (@ \div 64)]
           r2 == Write(r1, GC_TX_OFFS, 3)
           r3 == Write(r2, AACK_ACK_TIME, 0)
<1>0. "TRX_CTRL_2" \in Registers /\ r["TRX_CTRL_2"] \in Byte
  BY DEF Registers, RegisterFile
<1>1. /\ r1 \in RegisterFile
      /\ \A rg \in Registers : rg # "TRX_CTRL_2" => r1[rg] = r[rg]
      /\ r1["TRX_CTRL_2"] = 64 * (r["TRX_CTRL_2"] \div 64)
  BY <1>0, UpperBits DEF RegisterFile
<1>2. Field(r1, RX_SAFE_MODE) = Field(r, RX_SAFE_MODE)
  BY <1>0, <1>1, UpperBits, RateBits DEF Field, Bits
<1> HIDE DEF r1
<1>3. /\ r2 \in RegisterFile
      /\ \A rg \in Registers : rg # "RF_CTRL_0" => r2[rg] = r1[rg]
  BY <1>1, WriteIs, TimingBits, Bytes
<1> HIDE DEF r2
<1>4. /\ r3 \in RegisterFile
      /\ \A rg \in Registers : rg # "XAH_CTRL_1" => r3[rg] = r2[rg]
  BY <1>3, Cleared, TimingBits
<1> HIDE DEF r3
<1>5. r3["TRX_CTRL_2"] = r1["TRX_CTRL_2"]
  BY <1>3, <1>4 DEF Registers
<1>6. Field(r3, RX_SAFE_MODE) = Field(r, RX_SAFE_MODE)
  BY <1>2, <1>5, RateBits DEF Field
<1>7. \A rg \in Registers \ BitrateRegisters : r3[rg] = r[rg]
  BY <1>1, <1>3, <1>4 DEF BitrateRegisters
<1> QED
  BY <1>4, <1>6, <1>7 DEF r1, r2, r3, Bitrate212Of

Power212Of(r) ==
  Write([r EXCEPT !["PHY_TX_PWR"] = 192], PA_BOOST, 1)

\* The amplifier is a bit that 0xC0 contains already.
LEMMA Power212 ==
  ASSUME NEW r \in RegisterFile
  PROVE  /\ Power212Of(r) \in RegisterFile /\ Power212Of(r)["PHY_TX_PWR"] = 192
         /\ \A rg \in Registers : rg # "PHY_TX_PWR" => Power212Of(r)[rg] = r[rg]
<1> DEFINE r1 == [r EXCEPT !["PHY_TX_PWR"] = 192]
           r2 == Write(r1, PA_BOOST, 1)
<1>1. /\ r1 \in RegisterFile /\ r1["PHY_TX_PWR"] = 192
      /\ \A rg \in Registers : rg # "PHY_TX_PWR" => r1[rg] = r[rg]
  BY DEF Registers, RegisterFile, Byte
<1> HIDE DEF r1
<1>2. /\ r2 \in RegisterFile
      /\ \A rg \in Registers : rg # "PHY_TX_PWR" => r2[rg] = r1[rg]
  BY <1>1, BitSet, PowerBits
<1>3. r2["PHY_TX_PWR"] = Put(192, 128, 2, 1)
  <2>1. r2[PA_BOOST.rg] = Put(r1[PA_BOOST.rg], PA_BOOST.unit, PA_BOOST.size, 1)
    BY <1>1, BitSet, PowerBits
  <2> HIDE DEF r2
  <2> QED
    BY <1>1, <2>1, PowerBits
<1>4. Put(192, 128, 2, 1) = 192
  BY DEF Put, Low, Bits
<1> HIDE DEF r2
<1>5. r2["PHY_TX_PWR"] = 192
  BY <1>3, <1>4
<1>6. \A rg \in Registers : rg # "PHY_TX_PWR" => r2[rg] = r[rg]
  BY <1>1, <1>2
<1> QED
  BY <1>2, <1>5, <1>6 DEF r1, r2, Power212Of

\* The seed, the role and the acknowledgements share a register.
CsmaRegisters == {"XAH_CTRL", "CSMA_SEED_0", "CSMA_SEED_1", "CSMA_BE"}

CsmaOf(r) ==
  Write(Write([r EXCEPT !["XAH_CTRL"] = 56, !["CSMA_SEED_0"] = 127],
    MIN_BE, 4), CSMA_SEED_1, 0)

LEMMA CsmaRegistersWritten ==
  ASSUME NEW r \in RegisterFile
  PROVE  /\ CsmaOf(r) \in RegisterFile
         /\ \A rg \in Registers \ CsmaRegisters : CsmaOf(r)[rg] = r[rg]
         /\ CsmaOf(r)["XAH_CTRL"] = 56 /\ CsmaOf(r)["CSMA_SEED_0"] = 127
         /\ Field(CsmaOf(r), MIN_BE) = 4 /\ Field(CsmaOf(r), CSMA_SEED_1) = 0
         /\ Field(CsmaOf(r), I_AM_COORD) = Field(r, I_AM_COORD)
         /\ Field(CsmaOf(r), AACK_FVN_MODE) = Field(r, AACK_FVN_MODE)
         /\ Field(CsmaOf(r), AACK_SET_PD) = Field(r, AACK_SET_PD)
<1> DEFINE r1 == [r EXCEPT !["XAH_CTRL"] = 56, !["CSMA_SEED_0"] = 127]
<1>1. /\ r1 \in RegisterFile /\ r1["XAH_CTRL"] = 56 /\ r1["CSMA_SEED_0"] = 127
      /\ \A rg \in Registers \ CsmaRegisters : r1[rg] = r[rg]
      /\ r1["CSMA_SEED_1"] = r["CSMA_SEED_1"]
  <2>1. {"XAH_CTRL", "CSMA_SEED_0", "CSMA_SEED_1"} \subseteq Registers
    BY DEF Registers
  <2>2. 56 \in Byte /\ 127 \in Byte
    BY DEF Byte
  <2> QED
    BY <2>1, <2>2 DEF RegisterFile, CsmaRegisters
<1> HIDE DEF r1
<1> DEFINE r2 == Write(r1, MIN_BE, 4)
           r3 == Write(r2, CSMA_SEED_1, 0)
<1>2. /\ r2 \in RegisterFile /\ Field(r2, MIN_BE) = 4
      /\ \A rg \in Registers : rg # "CSMA_BE" => r2[rg] = r1[rg]
  <2>1. Low(4, MIN_BE.size) = 4
    BY CsmaBits, Lows
  <2>2. /\ r2 \in RegisterFile /\ Field(r2, MIN_BE) = Low(4, MIN_BE.size)
        /\ \A rg \in Registers : rg # MIN_BE.rg => r2[rg] = r1[rg]
    BY <1>1, FourWritten, CsmaBits
  <2> QED
    BY <2>1, <2>2, CsmaBits
<1> HIDE DEF r2
<1>3. /\ r3 \in RegisterFile /\ Field(r3, CSMA_SEED_1) = 0
      /\ \A rg \in Registers : rg # "CSMA_SEED_1" => r3[rg] = r2[rg]
  BY <1>2, Cleared, CsmaBits
<1>4. Field(r3, I_AM_COORD) = Field(r2, I_AM_COORD)
  BY <1>2, WriteKeeps, CsmaBits, Bytes DEF Apart, Neighbours
<1>5. Field(r3, AACK_FVN_MODE) = Field(r2, AACK_FVN_MODE)
  BY <1>2, WriteKeeps, CsmaBits, AckBits, Bytes DEF Apart, Neighbours
<1>6. Field(r3, AACK_SET_PD) = Field(r2, AACK_SET_PD)
  BY <1>2, WriteKeeps, CsmaBits, AckBits, Bytes DEF Apart, Neighbours
<1> HIDE DEF r3
<1>7. r2["CSMA_SEED_1"] = r["CSMA_SEED_1"]
  BY <1>1, <1>2 DEF Registers
<1>8. /\ Field(r2, I_AM_COORD) = Field(r, I_AM_COORD)
      /\ Field(r2, AACK_FVN_MODE) = Field(r, AACK_FVN_MODE)
      /\ Field(r2, AACK_SET_PD) = Field(r, AACK_SET_PD)
  BY <1>7, CsmaBits, AckBits DEF Field
<1>9. r3["CSMA_BE"] = r2["CSMA_BE"] /\ r3["XAH_CTRL"] = 56 /\ r3["CSMA_SEED_0"] = 127
  BY <1>1, <1>2, <1>3 DEF Registers
<1>10. Field(r3, MIN_BE) = 4
  BY <1>2, <1>9, CsmaBits DEF Field
<1>11. \A rg \in Registers \ CsmaRegisters : r3[rg] = r[rg]
  BY <1>1, <1>2, <1>3 DEF CsmaRegisters
<1> QED
  BY <1>3, <1>4, <1>5, <1>6, <1>8, <1>9, <1>10, <1>11 DEF r1, r2, r3, CsmaOf

\* The bits of the registers have room for every band and channel.
LEMMA SettingFits ==
  ASSUME NEW f \in Frequencies, set_band_channel(f) # Failed
  PROVE  \E b \in 0..7, c \in 0..31, n \in Byte : set_band_channel(f) = Setting(b, n, c)
<1> DEFINE s == set_band_channel(f)
<1>1. f \in Int /\ 7690 <= f /\ f <= 9350
  BY DEF Frequencies, RF212_MIN_CHANNEL, RF212_MAX_CHANNEL
<1>2. \E b \in 0..7, c \in 0..31 : \E n : s = Setting(b, n, c)
  <2>1. CASE f = EU_868_3
    BY <2>1 DEF set_band_channel, InBand0
  <2>2. CASE InBand0(f) /\ f # EU_868_3
    <3>1. PICK k \in 0..9 : f = 9060 + 20 * k
      BY <2>2 DEF InBand0, NA_906
    <3>2. (f - 9060) \div 20 = k /\ k + 1 \in 0..31
      BY <3>1
    <3>3. s = Setting(0, 0, (f - NA_906) \div 20 + 1)
      BY <2>2 DEF set_band_channel
    <3> QED
      BY <3>2, <3>3 DEF NA_906
  <2>3. CASE ~InBand0(f) /\ f % 10 = 0
    <3>1. f # EU_868_3
      BY <2>3 DEF InBand0
    <3>2. \/ s = Setting(4, (f - Base[4]) \div 10, 0)
          \/ s = Setting(5, (f - Base[5]) \div 10, 0)
      BY <2>3, <3>1 DEF set_band_channel
    <3> QED
      BY <3>2
  <2>4. CASE ~InBand0(f) /\ f % 10 # 0
    <3>1. f # EU_868_3
      BY <2>4 DEF InBand0
    <3>2. \E b \in 1..3 : s = Setting(b, f - Base[b], 0)
      BY <2>4, <3>1 DEF set_band_channel
    <3> QED
      BY <3>2
  <2> QED
    BY <2>1, <2>2, <2>3, <2>4
<1>3. PICK b \in 0..7, c \in 0..31 : \E n : s = Setting(b, n, c)
  BY <1>2
<1>4. PICK n : s = Setting(b, n, c)
  BY <1>3
<1>5. s.number \in 0..255 /\ s.number = n
  BY <1>4, BandReadsBack DEF Setting
<1> QED
  BY <1>4, <1>5 DEF Byte

-----------------------------------------------------------------------------
(* What the functions of rf2xx_Init have done, one after the other.        *)

ChannelSet ==
  get_operating_channel(reg) = IF RF_IS_212 THEN rf212_band_set ELSE channel_2_4G
ClockSet == Field(reg, CLKM_CTRL) = 0
MaskSet == reg["IRQ_MASK"] = 255
EnhancedSet ==
  /\ Field(reg, AACK_FVN_MODE) = 0 /\ Field(reg, AACK_SET_PD) = 0
  /\ Field(reg, RX_SAFE_MODE) = 1 /\ Field(reg, IRQ_MASK_MODE) = 0
PowerSet == IF RF_IS_212 THEN reg["PHY_TX_PWR"] = 192 ELSE Field(reg, TX_PWR) = 0
AddressSet == reg["SHORT_ADDR_0"] + 256 * reg["SHORT_ADDR_1"] = id
FilterSet == reg["PAN_ID_0"] + 256 * reg["PAN_ID_1"] = panid
RoleSet == Field(reg, I_AM_COORD) = 0
CsmaSet ==
  /\ reg["XAH_CTRL"] = 56 /\ reg["CSMA_SEED_0"] = 127
  /\ Field(reg, MIN_BE) = 4 /\ Field(reg, CSMA_SEED_1) = 0
CrcSet == Field(reg, TX_AUTO_CRC_ON) = 1

\* A part that the functions before step pc have set holds in the steps that follow
\* and after a successful end.
FromCrc == {"auto_crc"}
FromCsma == FromCrc \cup {"csma"}
FromRole == FromCsma \cup {"role"}
FromPanId == FromRole \cup {"pan_id"}
FromAddress == FromPanId \cup {"address"}
FromPower == FromAddress \cup {"tx_power"}
FromBitrate == FromPower \cup {"bitrate"}
FromEnhanced == FromBitrate \cup {"enhanced"}
FromMask == FromEnhanced \cup {"irq_mask"}
FromClock == FromMask \cup {"clock"}
FromChannel == FromClock \cup {"channel"}

Since(steps) == pc \in steps \/ (pc = "idle" /\ tat = "SUCCESS")

\* Nothing of an earlier call remains where no address and no mask have been set.
Blank ==
  /\ reg["IRQ_MASK"] = ResetValue["IRQ_MASK"]
  /\ reg["SHORT_ADDR_0"] = ResetValue["SHORT_ADDR_0"]
  /\ reg["SHORT_ADDR_1"] = ResetValue["SHORT_ADDR_1"]

Setup ==
  /\ Since(FromChannel) => rf2xx_version \in {231, 212}
  /\ pc \in FromChannel => tat = "SUCCESS"
  /\ pc = "channel" \/ (pc = "idle" /\ tat # "SUCCESS") => Blank
  /\ Since(FromClock) => ChannelSet
  /\ Since(FromMask) => ClockSet
  /\ Since(FromEnhanced) => MaskSet
  /\ Since(FromBitrate) => EnhancedSet
  /\ Since(FromAddress) => PowerSet
  /\ Since(FromPanId) => AddressSet
  /\ Since(FromCsma) => RoleSet
  /\ Since(FromCrc) => CsmaSet
  /\ Since({}) => CrcSet

Filtering == Since(FromRole) /\ (pc = "idle" => ~slp) => FilterSet

SettingsInv == TypeOK /\ Setup /\ Filtering

LEMMA RegistersTyped == TypeOK => reg \in RegisterFile
  BY DEF TypeOK, RegisterFile

Frame(X) == \A rg \in Registers \ X : reg'[rg] = reg[rg]

\* What has been set stays set while its registers are left alone.
LEMMA PartsKept ==
  ASSUME reg \in RegisterFile, reg' \in RegisterFile, UNCHANGED globals, NEW X, Frame(X)
  PROVE  /\ X \cap {"PHY_CC_CCA", "CC_CTRL_0", "CC_CTRL_1"} = {} =>
              (ChannelSet => ChannelSet')
         /\ "TRX_CTRL_0" \notin X => (ClockSet => ClockSet')
         /\ "IRQ_MASK" \notin X => (MaskSet => MaskSet')
         /\ X \cap {"CSMA_SEED_1", "TRX_CTRL_1", "TRX_CTRL_2"} = {} =>
              (EnhancedSet => EnhancedSet')
         /\ "PHY_TX_PWR" \notin X => (PowerSet => PowerSet')
         /\ X \cap {"SHORT_ADDR_0", "SHORT_ADDR_1"} = {} => (AddressSet => AddressSet')
         /\ X \cap {"PAN_ID_0", "PAN_ID_1"} = {} => (FilterSet => FilterSet')
         /\ "CSMA_SEED_1" \notin X => (RoleSet => RoleSet')
         /\ X \cap CsmaRegisters = {} => (CsmaSet => CsmaSet')
<1>1. \A sr \in Subregisters : sr.rg \notin X => Field(reg', sr) = Field(reg, sr)
  BY FieldsKept DEF Frame
<1>2. ASSUME X \cap {"PHY_CC_CCA", "CC_CTRL_0", "CC_CTRL_1"} = {}, ChannelSet
      PROVE  ChannelSet'
  <2>1. /\ Field(reg', CHANNEL) = Field(reg, CHANNEL)
        /\ Field(reg', CC_BAND) = Field(reg, CC_BAND)
        /\ reg'["CC_CTRL_0"] = reg["CC_CTRL_0"]
    BY <1>1, <1>2, ChannelBits DEF Frame, Registers
  <2> QED
    BY <1>2, <2>1 DEF ChannelSet, get_operating_channel, RF_IS_23X, RF_IS_212,
      RF_IS_230,
                      RF_IS_231, globals
<1>3. "TRX_CTRL_0" \notin X => (ClockSet => ClockSet')
  BY <1>1, ClockBits DEF ClockSet
<1>4. "IRQ_MASK" \notin X => (MaskSet => MaskSet')
  BY DEF MaskSet, Frame, Registers
<1>5. X \cap {"CSMA_SEED_1", "TRX_CTRL_1", "TRX_CTRL_2"} = {} =>
        (EnhancedSet => EnhancedSet')
  BY <1>1, AckBits, RateBits, InterruptBits DEF EnhancedSet
<1>6. "PHY_TX_PWR" \notin X => (PowerSet => PowerSet')
  BY <1>1, PowerBits DEF PowerSet, Frame, Registers, RF_IS_212, globals
<1>7. X \cap {"SHORT_ADDR_0", "SHORT_ADDR_1"} = {} => (AddressSet => AddressSet')
  BY DEF AddressSet, Frame, Registers, globals
<1>8. X \cap {"PAN_ID_0", "PAN_ID_1"} = {} => (FilterSet => FilterSet')
  BY DEF FilterSet, Frame, Registers, globals
<1>9. "CSMA_SEED_1" \notin X => (RoleSet => RoleSet')
  BY <1>1, CsmaBits DEF RoleSet
<1>10. X \cap CsmaRegisters = {} => (CsmaSet => CsmaSet')
  BY <1>1, CsmaBits DEF CsmaSet, Frame, Registers, CsmaRegisters
<1> QED
  BY <1>2, <1>3, <1>4, <1>5, <1>6, <1>7, <1>8, <1>9, <1>10

\* The steps that cannot fail keep the types.
Chain ==
  {<<"clock", "irq_mask">>, <<"irq_mask", "enhanced">>, <<"enhanced", "bitrate">>,
   <<"bitrate", "tx_power">>, <<"tx_power", "address">>, <<"address", "pan_id">>,
   <<"pan_id", "role">>, <<"role", "csma">>, <<"csma", "auto_crc">>, <<"auto_crc", "idle">>}

LEMMA StepTyped ==
  ASSUME TypeOK, NEW from, NEW to, <<from, to>> \in Chain, NEW r \in RegisterFile,
         Step(from, to, r)
  PROVE  TypeOK'
<1>1. /\ reg' \in [Registers -> Byte]
      /\ UNCHANGED <<chip, slp, globals, params, tat>> /\ pc' = to
  BY DEF Step, RegisterFile
<1>2. pc' \in {"irq_mask", "enhanced", "bitrate", "tx_power", "address", "pan_id", "role",
               "csma", "auto_crc", "idle"}
  BY <1>1 DEF Chain
<1> QED
  BY <1>1, <1>2 DEF TypeOK, globals, params

LEMMA WordsInUse == TypeOK => panid \in Word /\ id \in Word /\ cfg_chl \in Word
<1>1. 4 \in Word
  BY DEF Word
<1> QED
  BY <1>1, RadioSettingsAssumption DEF TypeOK, DEFAULT_PANID

\* A word is its two bytes.
LEMMA BytesOf ==
  ASSUME NEW w \in Word
  PROVE  /\ w \in Int /\ (w % 256) \in Byte /\ (w \div 256) \in Byte
         /\ (w % 256) + (256 * (w \div 256)) = w
<1> DEFINE m == (255 * 256) + 255
<1>1. m \in Int /\ m < 256 * 256
  OBVIOUS
<1>2. w \in 0 .. m
  BY Zenon DEF Word
<1> HIDE DEF m
<1>3. w \in Int /\ 0 <= w /\ w <= m
  BY <1>1, <1>2
<1> QED
  BY <1>1, <1>3, SMTT(30) DEF Byte

\* The same for a step and the subregisters outside the registers it writes.
LEMMA FrameFields ==
  ASSUME reg \in RegisterFile, reg' \in RegisterFile, NEW X, Frame(X)
  PROVE  \A sr \in Subregisters : sr.rg \notin X => Field(reg', sr) = Field(reg, sr)
  BY FieldsKept DEF Frame

\* What holds before each function of rf2xx_Init.
LEMMA Before ==
  ASSUME SettingsInv
  PROVE  /\ reg \in RegisterFile
         /\ pc \in FromChannel => rf2xx_version \in {231, 212} /\ tat = "SUCCESS"
         /\ pc = "clock" => ChannelSet
         /\ pc = "irq_mask" => ChannelSet /\ ClockSet
         /\ pc = "enhanced" => ChannelSet /\ ClockSet /\ MaskSet
         /\ pc = "bitrate" => ChannelSet /\ ClockSet /\ MaskSet /\ EnhancedSet
         /\ pc = "tx_power" => ChannelSet /\ ClockSet /\ MaskSet /\ EnhancedSet
         /\ pc = "address" =>
              /\ ChannelSet /\ ClockSet /\ MaskSet /\ EnhancedSet /\ PowerSet
         /\ pc = "pan_id" =>
              /\ ChannelSet /\ ClockSet /\ MaskSet /\ EnhancedSet /\ PowerSet
              /\ AddressSet
         /\ pc = "role" =>
              /\ ChannelSet /\ ClockSet /\ MaskSet /\ EnhancedSet /\ PowerSet
              /\ AddressSet /\ FilterSet
         /\ pc = "csma" =>
              /\ ChannelSet /\ ClockSet /\ MaskSet /\ EnhancedSet /\ PowerSet
              /\ AddressSet /\ FilterSet /\ RoleSet
         /\ pc = "auto_crc" =>
              /\ ChannelSet /\ ClockSet /\ MaskSet /\ EnhancedSet /\ PowerSet
              /\ AddressSet /\ FilterSet /\ RoleSet /\ CsmaSet
<1>1. reg \in RegisterFile
  BY RegistersTyped DEF SettingsInv
<1>2. Setup /\ Filtering
  BY DEF SettingsInv
<1> QED
  BY <1>1, <1>2 DEF Setup, Filtering, Since, FromChannel, FromClock, FromMask,
    FromEnhanced, FromBitrate,
         FromPower, FromAddress, FromPanId, FromRole, FromCsma, FromCrc

\* The functions that cannot fail, one after the other.
LEMMA ClockStep ==
  ASSUME SettingsInv, rf2xx_tat_set_clock_speed PROVE SettingsInv'
<1>1. reg \in RegisterFile /\ pc = "clock" /\ pc' = "irq_mask"
      /\ rf2xx_version \in {231, 212} /\ rf2xx_version' \in {231, 212}
      /\ tat' = "SUCCESS" /\ UNCHANGED <<globals, slp>>
  <2>1. pc = "clock" /\ pc' = "irq_mask" /\ UNCHANGED <<globals, slp, tat>>
    BY DEF rf2xx_tat_set_clock_speed, Step
  <2> QED
    BY <2>1, Before DEF FromChannel, FromClock, FromMask, FromEnhanced, FromBitrate,
         FromPower, FromAddress, FromPanId, FromRole, FromCsma, FromCrc, globals
<1> DEFINE r == IF Field(reg, CLKM_CTRL) = 0 THEN reg
                ELSE Write(Write(reg, CLKM_SHA_SEL, 0), CLKM_CTRL, 0)
<1>2. reg' = r /\ r \in RegisterFile /\ Frame({"TRX_CTRL_0"}) /\ ClockSet'
  <2>1. reg' = r
    BY DEF rf2xx_tat_set_clock_speed, Step
  <2>2. CASE Field(reg, CLKM_CTRL) = 0
    BY <1>1, <2>1, <2>2 DEF Frame, ClockSet
  <2>3. CASE Field(reg, CLKM_CTRL) # 0
    <3> DEFINE r1 == Write(reg, CLKM_SHA_SEL, 0)
               r2 == Write(r1, CLKM_CTRL, 0)
    <3>1. r1 \in RegisterFile /\ \A rg \in Registers : rg # "TRX_CTRL_0" => r1[rg] = reg[rg]
      BY <1>1, Cleared, ClockBits
    <3> HIDE DEF r1
    <3>2. /\ r2 \in RegisterFile /\ Field(r2, CLKM_CTRL) = 0
          /\ \A rg \in Registers : rg # "TRX_CTRL_0" => r2[rg] = r1[rg]
      BY <3>1, Cleared, ClockBits
    <3>3. reg' = r2 /\ r = r2
      BY <2>1, <2>3 DEF r1
    <3> HIDE DEF r2, r
    <3> QED
      BY <2>1, <3>1, <3>2, <3>3 DEF Frame, ClockSet
  <2> QED
    BY <2>2, <2>3
<1> HIDE DEF r
<1>3. TypeOK'
  <2>1. Step("clock", "irq_mask", r)
    BY DEF rf2xx_tat_set_clock_speed, r
  <2> QED
    BY <1>2, <2>1, StepTyped DEF SettingsInv, Chain
<1>4. ChannelSet'
  BY <1>1, <1>2, Before, PartsKept DEF CsmaRegisters, BitrateRegisters
<1>5. ClockSet'
  BY <1>2
<1>6. Setup' /\ Filtering'
  BY <1>1, <1>4, <1>5 DEF Setup, Filtering, Since, FromChannel, FromClock, FromMask,
    FromEnhanced, FromBitrate,
         FromPower, FromAddress, FromPanId, FromRole, FromCsma, FromCrc
<1> QED
  BY <1>3, <1>6 DEF SettingsInv

LEMMA IrqMaskStep ==
  ASSUME SettingsInv, rf2xx_tat_set_irq_mask PROVE SettingsInv'
<1>1. reg \in RegisterFile /\ pc = "irq_mask" /\ pc' = "enhanced"
      /\ rf2xx_version \in {231, 212} /\ rf2xx_version' \in {231, 212}
      /\ tat' = "SUCCESS" /\ UNCHANGED <<globals, slp>>
  <2>1. pc = "irq_mask" /\ pc' = "enhanced" /\ UNCHANGED <<globals, slp, tat>>
    BY DEF rf2xx_tat_set_irq_mask, Step
  <2> QED
    BY <2>1, Before DEF FromChannel, FromClock, FromMask, FromEnhanced, FromBitrate,
         FromPower, FromAddress, FromPanId, FromRole, FromCsma, FromCrc, globals
<1> DEFINE r == [reg EXCEPT !["IRQ_MASK"] = SUPPORTED_INTERRUPT_MASK]
<1>2. reg' = r /\ r \in RegisterFile /\ Frame({"IRQ_MASK"}) /\ reg'["IRQ_MASK"] = 255
  <2>1. reg' = r
    BY DEF rf2xx_tat_set_irq_mask, Step
  <2>2. SUPPORTED_INTERRUPT_MASK = 255
    BY <1>1 DEF SUPPORTED_INTERRUPT_MASK, RF_IS_230
  <2> QED
    BY <1>1, <2>1, <2>2 DEF Frame, RegisterFile, Registers, Byte
<1> HIDE DEF r
<1>3. TypeOK'
  <2>1. Step("irq_mask", "enhanced", r)
    BY DEF rf2xx_tat_set_irq_mask, r
  <2> QED
    BY <1>2, <2>1, StepTyped DEF SettingsInv, Chain
<1>4. ChannelSet' /\ ClockSet'
  BY <1>1, <1>2, Before, PartsKept DEF CsmaRegisters, BitrateRegisters
<1>5. MaskSet'
  BY <1>2 DEF MaskSet
<1>6. Setup' /\ Filtering'
  BY <1>1, <1>4, <1>5 DEF Setup, Filtering, Since, FromChannel, FromClock, FromMask,
    FromEnhanced, FromBitrate,
         FromPower, FromAddress, FromPanId, FromRole, FromCsma, FromCrc
<1> QED
  BY <1>3, <1>6 DEF SettingsInv

LEMMA EnhancedStep ==
  ASSUME SettingsInv, rf2xx_tat_set_enhanced_feature PROVE SettingsInv'
<1>1. reg \in RegisterFile /\ pc = "enhanced" /\ pc' = "bitrate"
      /\ rf2xx_version \in {231, 212} /\ rf2xx_version' \in {231, 212}
      /\ tat' = "SUCCESS" /\ UNCHANGED <<globals, slp>>
  <2>1. pc = "enhanced" /\ pc' = "bitrate" /\ UNCHANGED <<globals, slp, tat>>
    BY DEF rf2xx_tat_set_enhanced_feature, Step
  <2> QED
    BY <2>1, Before DEF FromChannel, FromClock, FromMask, FromEnhanced, FromBitrate,
         FromPower, FromAddress, FromPanId, FromRole, FromCsma, FromCrc, globals
<1> DEFINE r == EnhancedOf(reg)
<1>0. Step("enhanced", "bitrate", r)
  BY <1>1 DEF rf2xx_tat_set_enhanced_feature, RF_IS_230, EnhancedOf
<1>2. /\ reg' = r /\ r \in RegisterFile
      /\ Frame({"CSMA_SEED_1", "TRX_CTRL_2", "TRX_CTRL_1"}) /\ EnhancedSet'
  <2>1. reg' = r
    BY <1>0 DEF Step
  <2> QED
    BY <1>1, <2>1, EnhancedRegisters DEF Frame, EnhancedSet
<1> HIDE DEF r
<1>3. TypeOK'
  BY <1>0, <1>2, StepTyped DEF SettingsInv, Chain
<1>4. ChannelSet' /\ ClockSet' /\ MaskSet'
  BY <1>1, <1>2, Before, PartsKept DEF CsmaRegisters, BitrateRegisters
<1>5. EnhancedSet'
  BY <1>2
<1>6. Setup' /\ Filtering'
  BY <1>1, <1>4, <1>5 DEF Setup, Filtering, Since, FromChannel, FromClock, FromMask,
    FromEnhanced, FromBitrate,
         FromPower, FromAddress, FromPanId, FromRole, FromCsma, FromCrc
<1> QED
  BY <1>3, <1>6 DEF SettingsInv

LEMMA BitrateStep ==
  ASSUME SettingsInv, rf2xx_tat_set_bitrate PROVE SettingsInv'
<1>1. reg \in RegisterFile /\ pc = "bitrate" /\ pc' = "tx_power"
      /\ rf2xx_version \in {231, 212} /\ rf2xx_version' \in {231, 212}
      /\ tat' = "SUCCESS" /\ UNCHANGED <<globals, slp>>
  <2>1. pc = "bitrate" /\ pc' = "tx_power" /\ UNCHANGED <<globals, slp, tat>>
    BY DEF rf2xx_tat_set_bitrate, Step
  <2> QED
    BY <2>1, Before DEF FromChannel, FromClock, FromMask, FromEnhanced, FromBitrate,
         FromPower, FromAddress, FromPanId, FromRole, FromCsma, FromCrc, globals
<1>2. /\ reg' \in RegisterFile /\ Frame(BitrateRegisters)
      /\ Field(reg', RX_SAFE_MODE) = Field(reg, RX_SAFE_MODE)
      /\ Step("bitrate", "tx_power", reg')
  <2>1. CASE rf2xx_version = 231
    <3> DEFINE r == Bitrate231Of(reg)
    <3>1. Step("bitrate", "tx_power", r)
      BY <2>1 DEF rf2xx_tat_set_bitrate, RF_IS_231, RF_IS_212, Bitrate231Of
    <3>2. reg' = r
      BY <3>1 DEF Step
    <3>3. /\ r \in RegisterFile /\ Field(r, RX_SAFE_MODE) = Field(reg, RX_SAFE_MODE)
          /\ \A rg \in Registers \ BitrateRegisters : r[rg] = reg[rg]
      BY <1>1, Bitrate231
    <3> HIDE DEF r
    <3> QED
      BY <3>1, <3>2, <3>3 DEF Frame
  <2>2. CASE rf2xx_version = 212
    <3> DEFINE r == Bitrate212Of(reg)
    <3>1. Step("bitrate", "tx_power", r)
      BY <2>2 DEF rf2xx_tat_set_bitrate, RF_IS_231, RF_IS_212, Bitrate212Of
    <3>2. reg' = r
      BY <3>1 DEF Step
    <3>3. /\ r \in RegisterFile /\ Field(r, RX_SAFE_MODE) = Field(reg, RX_SAFE_MODE)
          /\ \A rg \in Registers \ BitrateRegisters : r[rg] = reg[rg]
      BY <1>1, Bitrate212
    <3> HIDE DEF r
    <3> QED
      BY <3>1, <3>2, <3>3 DEF Frame
  <2> QED
    BY <1>1, <2>1, <2>2
<1>3. TypeOK'
  BY <1>2, StepTyped DEF SettingsInv, Chain
<1>4. ChannelSet' /\ ClockSet' /\ MaskSet'
  BY <1>1, <1>2, Before, PartsKept DEF CsmaRegisters, BitrateRegisters
<1>5. EnhancedSet'
  <2>1. \A sr \in Subregisters : sr.rg \notin BitrateRegisters =>
         Field(reg', sr) = Field(reg, sr)
    BY <1>1, <1>2, FrameFields
  <2> QED
    BY <1>1, <1>2, <2>1, Before, AckBits, InterruptBits DEF EnhancedSet,
      BitrateRegisters
<1>6. Setup' /\ Filtering'
  BY <1>1, <1>4, <1>5 DEF Setup, Filtering, Since, FromChannel, FromClock, FromMask,
    FromEnhanced, FromBitrate,
         FromPower, FromAddress, FromPanId, FromRole, FromCsma, FromCrc
<1> QED
  BY <1>3, <1>6 DEF SettingsInv

LEMMA PowerStep ==
  ASSUME SettingsInv, rf2xx_tat_set_tx_power_level PROVE SettingsInv'
<1>1. reg \in RegisterFile /\ pc = "tx_power" /\ pc' = "address"
      /\ rf2xx_version \in {231, 212} /\ rf2xx_version' \in {231, 212}
      /\ tat' = "SUCCESS" /\ UNCHANGED <<globals, slp>>
  <2>1. pc = "tx_power" /\ pc' = "address" /\ UNCHANGED <<globals, slp, tat>>
    BY DEF rf2xx_tat_set_tx_power_level, Step
  <2> QED
    BY <2>1, Before DEF FromChannel, FromClock, FromMask, FromEnhanced, FromBitrate,
         FromPower, FromAddress, FromPanId, FromRole, FromCsma, FromCrc, globals
<1>2. /\ reg' \in RegisterFile /\ Frame({"PHY_TX_PWR"}) /\ PowerSet'
      /\ Step("tx_power", "address", reg')
  <2>1. CASE rf2xx_version = 231
    <3>1. Step("tx_power", "address", Write(reg, TX_PWR, 0))
      BY <2>1 DEF rf2xx_tat_set_tx_power_level, RF_IS_23X, RF_IS_231
    <3>2. reg' = Write(reg, TX_PWR, 0) /\ rf2xx_version' = rf2xx_version
      BY <3>1 DEF Step, globals
    <3>3. /\ reg' \in RegisterFile /\ Field(reg', TX_PWR) = 0
          /\ \A rg \in Registers : rg # "PHY_TX_PWR" => reg'[rg] = reg[rg]
      BY <1>1, <3>2, Cleared, PowerBits
    <3> QED
      BY <2>1, <3>1, <3>2, <3>3 DEF Frame, PowerSet, RF_IS_212
  <2>2. CASE rf2xx_version = 212
    <3> DEFINE r == Power212Of(reg)
    <3>1. Step("tx_power", "address", r)
      BY <2>2 DEF rf2xx_tat_set_tx_power_level, RF_IS_23X, RF_IS_230, RF_IS_231,
        Power212Of
    <3>2. reg' = r /\ rf2xx_version' = rf2xx_version
      BY <3>1 DEF Step, globals
    <3>3. /\ r \in RegisterFile /\ r["PHY_TX_PWR"] = 192
          /\ \A rg \in Registers : rg # "PHY_TX_PWR" => r[rg] = reg[rg]
      BY <1>1, Power212
    <3> HIDE DEF r
    <3> QED
      BY <2>2, <3>1, <3>2, <3>3 DEF Frame, PowerSet, RF_IS_212
  <2> QED
    BY <1>1, <2>1, <2>2
<1>3. TypeOK'
  BY <1>2, StepTyped DEF SettingsInv, Chain
<1>4. ChannelSet' /\ ClockSet' /\ MaskSet' /\ EnhancedSet'
  BY <1>1, <1>2, Before, PartsKept DEF CsmaRegisters, BitrateRegisters
<1>5. PowerSet'
  BY <1>2
<1>6. Setup' /\ Filtering'
  BY <1>1, <1>4, <1>5 DEF Setup, Filtering, Since, FromChannel, FromClock, FromMask,
    FromEnhanced, FromBitrate,
         FromPower, FromAddress, FromPanId, FromRole, FromCsma, FromCrc
<1> QED
  BY <1>3, <1>6 DEF SettingsInv

LEMMA AddressStep ==
  ASSUME SettingsInv, rf2xx_tat_set_short_address PROVE SettingsInv'
<1>1. reg \in RegisterFile /\ pc = "address" /\ pc' = "pan_id"
      /\ rf2xx_version \in {231, 212} /\ rf2xx_version' \in {231, 212}
      /\ tat' = "SUCCESS" /\ UNCHANGED <<globals, slp>>
  <2>1. pc = "address" /\ pc' = "pan_id" /\ UNCHANGED <<globals, slp, tat>>
    BY DEF rf2xx_tat_set_short_address, Step
  <2> QED
    BY <2>1, Before DEF FromChannel, FromClock, FromMask, FromEnhanced, FromBitrate,
         FromPower, FromAddress, FromPanId, FromRole, FromCsma, FromCrc, globals
<1> DEFINE r == [reg EXCEPT !["SHORT_ADDR_0"] = id % 256, !["SHORT_ADDR_1"] = id \div 256]
<1>0. Step("address", "pan_id", r)
  BY DEF rf2xx_tat_set_short_address
<1>2. /\ reg' = r /\ r \in RegisterFile
      /\ Frame({"SHORT_ADDR_0", "SHORT_ADDR_1"}) /\ AddressSet'
  <2>1. reg' = r /\ id' = id
    BY <1>0 DEF Step, globals
  <2>2. id \in Word
    BY WordsInUse DEF SettingsInv
  <2> DEFINE low == id % 256
             high == id \div 256
  <2>3. low \in Byte /\ high \in Byte /\ low + (256 * high) = id
    BY <2>2, BytesOf, SMTT(30)
  <2>4. r = [reg EXCEPT !["SHORT_ADDR_0"] = low, !["SHORT_ADDR_1"] = high]
    OBVIOUS
  <2> HIDE DEF low, high, r
  <2>5. r \in RegisterFile /\ r["SHORT_ADDR_0"] = low /\ r["SHORT_ADDR_1"] = high
    BY <1>1, <2>3, <2>4 DEF RegisterFile, Registers
  <2>6. \A rg \in Registers \ {"SHORT_ADDR_0", "SHORT_ADDR_1"} : r[rg] = reg[rg]
    BY <1>1, <2>4 DEF RegisterFile
  <2> QED
    BY <2>1, <2>3, <2>5, <2>6 DEF Frame, AddressSet
<1> HIDE DEF r
<1>3. TypeOK'
  BY <1>0, <1>2, StepTyped DEF SettingsInv, Chain
<1>4. /\ ChannelSet' /\ ClockSet' /\ MaskSet' /\ EnhancedSet' /\ PowerSet'
  BY <1>1, <1>2, Before, PartsKept DEF CsmaRegisters, BitrateRegisters
<1>5. AddressSet'
  BY <1>2
<1>6. Setup' /\ Filtering'
  BY <1>1, <1>4, <1>5 DEF Setup, Filtering, Since, FromChannel, FromClock, FromMask,
    FromEnhanced, FromBitrate,
         FromPower, FromAddress, FromPanId, FromRole, FromCsma, FromCrc
<1> QED
  BY <1>3, <1>6 DEF SettingsInv

LEMMA PanIdStep ==
  ASSUME SettingsInv, rf2xx_tat_set_pan_id PROVE SettingsInv'
<1>1. reg \in RegisterFile /\ pc = "pan_id" /\ pc' = "role"
      /\ rf2xx_version \in {231, 212} /\ rf2xx_version' \in {231, 212}
      /\ tat' = "SUCCESS" /\ UNCHANGED <<globals, slp>>
  <2>1. pc = "pan_id" /\ pc' = "role" /\ UNCHANGED <<globals, slp, tat>>
    BY DEF rf2xx_tat_set_pan_id, Step
  <2> QED
    BY <2>1, Before DEF FromChannel, FromClock, FromMask, FromEnhanced, FromBitrate,
         FromPower, FromAddress, FromPanId, FromRole, FromCsma, FromCrc, globals
<1> DEFINE r == [reg EXCEPT !["PAN_ID_0"] = panid % 256, !["PAN_ID_1"] = panid \div 256]
<1>0. Step("pan_id", "role", r)
  BY DEF rf2xx_tat_set_pan_id, WithPanId
<1>2. /\ reg' = r /\ r \in RegisterFile
      /\ Frame({"PAN_ID_0", "PAN_ID_1"}) /\ FilterSet'
  <2>1. reg' = r /\ panid' = panid
    BY <1>0 DEF Step, globals
  <2>2. panid \in Word
    BY WordsInUse DEF SettingsInv
  <2> DEFINE low == panid % 256
             high == panid \div 256
  <2>3. low \in Byte /\ high \in Byte /\ low + (256 * high) = panid
    BY <2>2, BytesOf, SMTT(30)
  <2>4. r = [reg EXCEPT !["PAN_ID_0"] = low, !["PAN_ID_1"] = high]
    OBVIOUS
  <2> HIDE DEF low, high, r
  <2>5. r \in RegisterFile /\ r["PAN_ID_0"] = low /\ r["PAN_ID_1"] = high
    BY <1>1, <2>3, <2>4 DEF RegisterFile, Registers
  <2>6. \A rg \in Registers \ {"PAN_ID_0", "PAN_ID_1"} : r[rg] = reg[rg]
    BY <1>1, <2>4 DEF RegisterFile
  <2> QED
    BY <2>1, <2>3, <2>5, <2>6 DEF Frame, FilterSet
<1> HIDE DEF r
<1>3. TypeOK'
  BY <1>0, <1>2, StepTyped DEF SettingsInv, Chain
<1>4. /\ ChannelSet' /\ ClockSet' /\ MaskSet' /\ EnhancedSet' /\ PowerSet'
      /\ AddressSet'
  BY <1>1, <1>2, Before, PartsKept DEF CsmaRegisters, BitrateRegisters
<1>5. FilterSet'
  BY <1>2
<1>6. Setup' /\ Filtering'
  BY <1>1, <1>4, <1>5 DEF Setup, Filtering, Since, FromChannel, FromClock, FromMask,
    FromEnhanced, FromBitrate,
         FromPower, FromAddress, FromPanId, FromRole, FromCsma, FromCrc
<1> QED
  BY <1>3, <1>6 DEF SettingsInv

LEMMA RoleStep ==
  ASSUME SettingsInv, rf2xx_tat_set_device_role PROVE SettingsInv'
<1>1. reg \in RegisterFile /\ pc = "role" /\ pc' = "csma"
      /\ rf2xx_version \in {231, 212} /\ rf2xx_version' \in {231, 212}
      /\ tat' = "SUCCESS" /\ UNCHANGED <<globals, slp>>
  <2>1. pc = "role" /\ pc' = "csma" /\ UNCHANGED <<globals, slp, tat>>
    BY DEF rf2xx_tat_set_device_role, Step
  <2> QED
    BY <2>1, Before DEF FromChannel, FromClock, FromMask, FromEnhanced, FromBitrate,
         FromPower, FromAddress, FromPanId, FromRole, FromCsma, FromCrc, globals
<1> DEFINE r == Write(reg, I_AM_COORD, 0)
<1>0. Step("role", "csma", r)
  BY DEF rf2xx_tat_set_device_role
<1>2. /\ reg' = r /\ r \in RegisterFile /\ Frame({"CSMA_SEED_1"})
      /\ Field(reg', I_AM_COORD) = 0
      /\ Field(reg', AACK_FVN_MODE) = Field(reg, AACK_FVN_MODE)
      /\ Field(reg', AACK_SET_PD) = Field(reg, AACK_SET_PD)
  <2>1. reg' = r
    BY <1>0 DEF Step
  <2>2. /\ r \in RegisterFile /\ Field(r, I_AM_COORD) = 0
        /\ \A rg \in Registers : rg # "CSMA_SEED_1" => r[rg] = reg[rg]
    BY <1>1, Cleared, CsmaBits, SMTT(30)
  <2>3. Field(r, AACK_FVN_MODE) = Field(reg, AACK_FVN_MODE)
    BY <1>1, WriteKeeps, CsmaBits, AckBits, Bytes DEF Apart, Neighbours
  <2>4. Field(r, AACK_SET_PD) = Field(reg, AACK_SET_PD)
    BY <1>1, WriteKeeps, CsmaBits, AckBits, Bytes DEF Apart, Neighbours
  <2> HIDE DEF r
  <2> QED
    BY <2>1, <2>2, <2>3, <2>4 DEF Frame
<1> HIDE DEF r
<1>3. TypeOK'
  BY <1>0, <1>2, StepTyped DEF SettingsInv, Chain
<1>4. /\ ChannelSet' /\ ClockSet' /\ MaskSet' /\ PowerSet' /\ AddressSet'
      /\ FilterSet'
  BY <1>1, <1>2, Before, PartsKept DEF CsmaRegisters, BitrateRegisters
<1>5. EnhancedSet' /\ RoleSet'
  <2>1. \A sr \in Subregisters : sr.rg \notin {"CSMA_SEED_1"} =>
         Field(reg', sr) = Field(reg, sr)
    BY <1>1, <1>2, FrameFields
  <2> QED
    BY <1>1, <1>2, <2>1, Before, RateBits, InterruptBits DEF EnhancedSet, RoleSet
<1>6. Setup' /\ Filtering'
  BY <1>1, <1>4, <1>5 DEF Setup, Filtering, Since, FromChannel, FromClock, FromMask,
    FromEnhanced, FromBitrate,
         FromPower, FromAddress, FromPanId, FromRole, FromCsma, FromCrc
<1> QED
  BY <1>3, <1>6 DEF SettingsInv

LEMMA CsmaStep ==
  ASSUME SettingsInv, rf2xx_tat_configure_csma PROVE SettingsInv'
<1>1. reg \in RegisterFile /\ pc = "csma" /\ pc' = "auto_crc"
      /\ rf2xx_version \in {231, 212} /\ rf2xx_version' \in {231, 212}
      /\ tat' = "SUCCESS" /\ UNCHANGED <<globals, slp>>
  <2>1. pc = "csma" /\ pc' = "auto_crc" /\ UNCHANGED <<globals, slp, tat>>
    BY DEF rf2xx_tat_configure_csma, Step
  <2> QED
    BY <2>1, Before DEF FromChannel, FromClock, FromMask, FromEnhanced, FromBitrate,
         FromPower, FromAddress, FromPanId, FromRole, FromCsma, FromCrc, globals
<1> DEFINE r == CsmaOf(reg)
<1>0. Step("csma", "auto_crc", r)
  BY <1>1 DEF rf2xx_tat_configure_csma, RF_IS_230, CsmaOf
<1>2. /\ reg' = r /\ r \in RegisterFile /\ Frame(CsmaRegisters) /\ CsmaSet'
      /\ Field(reg', I_AM_COORD) = Field(reg, I_AM_COORD)
      /\ Field(reg', AACK_FVN_MODE) = Field(reg, AACK_FVN_MODE)
      /\ Field(reg', AACK_SET_PD) = Field(reg, AACK_SET_PD)
  <2>1. reg' = r
    BY <1>0 DEF Step
  <2> HIDE DEF r
  <2> QED
    BY <1>1, <2>1, CsmaRegistersWritten DEF Frame, CsmaSet, r
<1> HIDE DEF r
<1>3. TypeOK'
  BY <1>0, <1>2, StepTyped DEF SettingsInv, Chain
<1>4. /\ ChannelSet' /\ ClockSet' /\ MaskSet' /\ PowerSet' /\ AddressSet'
      /\ FilterSet'
  BY <1>1, <1>2, Before, PartsKept DEF CsmaRegisters, BitrateRegisters
<1>5. EnhancedSet' /\ RoleSet' /\ CsmaSet'
  <2>1. \A sr \in Subregisters : sr.rg \notin CsmaRegisters =>
         Field(reg', sr) = Field(reg, sr)
    BY <1>1, <1>2, FrameFields
  <2> QED
    BY <1>1, <1>2, <2>1, Before, RateBits, InterruptBits
    DEF EnhancedSet, RoleSet, CsmaRegisters
<1>6. Setup' /\ Filtering'
  BY <1>1, <1>4, <1>5 DEF Setup, Filtering, Since, FromChannel, FromClock, FromMask,
    FromEnhanced, FromBitrate,
         FromPower, FromAddress, FromPanId, FromRole, FromCsma, FromCrc
<1> QED
  BY <1>3, <1>6 DEF SettingsInv

LEMMA AutoCrcStep ==
  ASSUME SettingsInv, rf2xx_tat_use_auto_tx_crc PROVE SettingsInv'
<1>1. reg \in RegisterFile /\ pc = "auto_crc" /\ pc' = "idle"
      /\ rf2xx_version \in {231, 212} /\ rf2xx_version' \in {231, 212}
      /\ tat' = "SUCCESS" /\ UNCHANGED <<globals, slp>>
  <2>1. pc = "auto_crc" /\ pc' = "idle" /\ UNCHANGED <<globals, slp, tat>>
    BY DEF rf2xx_tat_use_auto_tx_crc, Step
  <2> QED
    BY <2>1, Before DEF FromChannel, FromClock, FromMask, FromEnhanced, FromBitrate,
         FromPower, FromAddress, FromPanId, FromRole, FromCsma, FromCrc, globals
<1> DEFINE r == Write(reg, TX_AUTO_CRC_ON, 1)
<1>0. Step("auto_crc", "idle", r)
  BY <1>1 DEF rf2xx_tat_use_auto_tx_crc, RF_IS_230
<1>2. /\ reg' = r /\ r \in RegisterFile /\ Frame({"TRX_CTRL_1"}) /\ CrcSet'
      /\ Field(reg', IRQ_MASK_MODE) = Field(reg, IRQ_MASK_MODE)
  <2>1. reg' = r
    BY <1>0 DEF Step
  <2>2. /\ r \in RegisterFile /\ Field(r, TX_AUTO_CRC_ON) = 1
        /\ \A rg \in Registers : rg # "TRX_CTRL_1" => r[rg] = reg[rg]
    BY <1>1, BitSet, CrcBits
  <2>3. Field(r, IRQ_MASK_MODE) = Field(reg, IRQ_MASK_MODE)
    BY <1>1, WriteKeeps, CrcBits, InterruptBits, Bytes DEF Apart, Neighbours
  <2> HIDE DEF r
  <2> QED
    BY <2>1, <2>2, <2>3 DEF Frame, CrcSet
<1> HIDE DEF r
<1>3. TypeOK'
  BY <1>0, <1>2, StepTyped DEF SettingsInv, Chain
<1>4. /\ ChannelSet' /\ ClockSet' /\ MaskSet' /\ PowerSet' /\ AddressSet'
      /\ FilterSet' /\ RoleSet' /\ CsmaSet'
  BY <1>1, <1>2, Before, PartsKept DEF CsmaRegisters, BitrateRegisters
<1>5. EnhancedSet' /\ CrcSet'
  <2>1. \A sr \in Subregisters : sr.rg \notin {"TRX_CTRL_1"} =>
         Field(reg', sr) = Field(reg, sr)
    BY <1>1, <1>2, FrameFields
  <2> QED
    BY <1>1, <1>2, <2>1, Before, RateBits, AckBits DEF EnhancedSet
<1>6. Setup' /\ Filtering'
  BY <1>1, <1>4, <1>5 DEF Setup, Filtering, Since, FromChannel, FromClock, FromMask,
    FromEnhanced, FromBitrate,
         FromPower, FromAddress, FromPanId, FromRole, FromCsma, FromCrc
<1> QED
  BY <1>3, <1>6 DEF SettingsInv

\* No setting is found to be missing when it is read back.
LEMMA ReadBack23X ==
  ASSUME SettingsInv, RF_IS_23X, SetChannel23X
  PROVE  /\ reg' \in RegisterFile /\ Frame({"PHY_CC_CCA"})
         /\ tat' \in {"SUCCESS", "INVALID_ARGUMENT"}
         /\ tat' = "SUCCESS" => get_operating_channel(reg') = channel_2_4G
<1>1. reg \in RegisterFile
  BY Before
<1>2. CASE ~ChannelIsValid
  BY <1>1, <1>2 DEF SetChannel23X, Frame
<1>3. CASE ChannelIsValid
  <2> DEFINE w == Write(reg, CHANNEL, channel_2_4G)
             r == IF get_operating_channel(reg) = channel_2_4G THEN reg ELSE w
  <2>1. channel_2_4G \in 0..31 /\ channel_2_4G \in Byte
    BY <1>3 DEF ChannelIsValid, Byte
  <2>2. CHANNEL \in Subregisters /\ CHANNEL.rg = "PHY_CC_CCA"
        /\ Low(channel_2_4G, CHANNEL.size) = channel_2_4G
    BY <2>1, ChannelBits, Lows
  <2>3. /\ w \in RegisterFile /\ Field(w, CHANNEL) = channel_2_4G
        /\ \A rg \in Registers : rg # "PHY_CC_CCA" => w[rg] = reg[rg]
    BY <1>1, <2>1, <2>2, WriteIs
  <2>4. get_operating_channel(w) = channel_2_4G
    BY <2>3 DEF get_operating_channel
  <2>5. /\ reg' = r
        /\ tat' = IF get_operating_channel(r) = channel_2_4G THEN "SUCCESS" ELSE "TIMED_OUT"
    BY <1>3 DEF SetChannel23X
  <2> HIDE DEF w
  <2>6. get_operating_channel(r) = channel_2_4G
    BY <2>4
  <2>7. r \in RegisterFile /\ \A rg \in Registers : rg # "PHY_CC_CCA" => r[rg] = reg[rg]
    BY <1>1, <2>3
  <2> HIDE DEF r
  <2> QED
    BY <2>5, <2>6, <2>7 DEF Frame
<1> QED
  BY <1>2, <1>3

\* The band, the number and the channel are those of the frequency.
LEMMA ReadBack212 ==
  ASSUME SettingsInv, ~RF_IS_23X, SetChannel212
  PROVE  /\ reg' \in RegisterFile /\ Frame({"PHY_CC_CCA", "CC_CTRL_0", "CC_CTRL_1"})
         /\ tat' \in {"SUCCESS", "INVALID_ARGUMENT"}
         /\ tat' = "SUCCESS" => get_operating_channel(reg') = rf212_band_set
<1> DEFINE set == set_band_channel(rf212_band_set)
<1>1. reg \in RegisterFile
  BY Before
<1>2. CASE UNCHANGED reg /\ tat' = "INVALID_ARGUMENT"
  BY <1>1, <1>2 DEF Frame
<1>3. CASE UNCHANGED reg /\ tat' = "SUCCESS" /\ get_operating_channel(reg) = rf212_band_set
  BY <1>1, <1>3 DEF Frame
<1>4. CASE rf212_band_set \in Frequencies /\ set # Failed
           /\ get_operating_channel(reg) # rf212_band_set
  <2>1. PICK b \in 0..7, c \in 0..31, n \in Byte : set = Setting(b, n, c)
    BY <1>4, SettingFits
  <2>2. set.band = b /\ set.number = n /\ set.channel = c
    BY <2>1 DEF Setting
  <2>3. b \in Byte /\ c \in Byte
    BY DEF Byte
  <2> DEFINE w1 == Write(reg, CC_BAND, b)
             w2 == [w1 EXCEPT !["CC_CTRL_0"] = n]
             w3 == Write(w2, CHANNEL, c)
  <2>4. /\ CC_BAND \in Subregisters /\ CC_BAND.rg = "CC_CTRL_1" /\ Low(b, CC_BAND.size) = b
        /\ CHANNEL \in Subregisters /\ CHANNEL.rg = "PHY_CC_CCA" /\ Low(c, CHANNEL.size) = c
    BY ChannelBits, Lows
  <2>5. /\ w1 \in RegisterFile /\ Field(w1, CC_BAND) = b
        /\ \A rg \in Registers : rg # "CC_CTRL_1" => w1[rg] = reg[rg]
    BY <1>1, <2>3, <2>4, WriteIs
  <2> HIDE DEF w1
  <2>6. /\ w2 \in RegisterFile /\ w2["CC_CTRL_0"] = n
        /\ \A rg \in Registers : rg # "CC_CTRL_0" => w2[rg] = w1[rg]
    BY <2>5 DEF RegisterFile, Registers
  <2> HIDE DEF w2
  <2>7. /\ w3 \in RegisterFile /\ Field(w3, CHANNEL) = c
        /\ \A rg \in Registers : rg # "PHY_CC_CCA" => w3[rg] = w2[rg]
    BY <2>3, <2>4, <2>6, WriteIs
  <2> HIDE DEF w3
  <2>8. w3["CC_CTRL_1"] = w1["CC_CTRL_1"] /\ w3["CC_CTRL_0"] = n
    BY <2>6, <2>7 DEF Registers
  <2>9. Field(w3, CC_BAND) = b
    BY <2>4, <2>5, <2>8 DEF Field
  <2>10. get_operating_channel(w3) = get_band_channel(set)
    BY <2>1, <2>7, <2>8, <2>9 DEF get_operating_channel
  <2>11. get_band_channel(set) = rf212_band_set
    BY <1>4, BandReadsBack
  <2>12. /\ reg' = w3
         /\ tat' = IF get_operating_channel(w3) = rf212_band_set
                   THEN "SUCCESS" ELSE "TIMED_OUT"
    BY <1>4, <2>2 DEF SetChannel212, w1, w2, w3
  <2>13. \A rg \in Registers \ {"PHY_CC_CCA", "CC_CTRL_0", "CC_CTRL_1"} : w3[rg] = reg[rg]
    BY <2>5, <2>6, <2>7
  <2> QED
    BY <2>7, <2>10, <2>11, <2>12, <2>13 DEF Frame
<1> QED
  BY <1>2, <1>3, <1>4 DEF SetChannel212

\* The setting of the channel ends with the channel set or with an error that is not a
\* time-out.
LEMMA ChannelStep ==
  ASSUME SettingsInv, rf2xx_tat_set_operating_channel
  PROVE  SettingsInv' /\ tat' # "TIMED_OUT"
<1> DEFINE X == {"PHY_CC_CCA", "CC_CTRL_0", "CC_CTRL_1"}
<1>1. /\ pc = "channel" /\ pc' = (IF tat' = "SUCCESS" THEN "clock" ELSE "idle")
      /\ UNCHANGED <<chip, slp, globals, params>>
  BY DEF rf2xx_tat_set_operating_channel, Goto
<1>2. /\ reg \in RegisterFile /\ rf2xx_version \in {231, 212}
      /\ rf2xx_version' \in {231, 212}
  BY <1>1, Before DEF FromChannel, globals
<1>3. /\ reg' \in RegisterFile /\ Frame(X) /\ tat' \in {"SUCCESS", "INVALID_ARGUMENT"}
      /\ tat' = "SUCCESS" => ChannelSet'
  <2>1. CASE rf2xx_version = 231
    <3>1. RF_IS_23X /\ SetChannel23X /\ rf2xx_version' = 231
      BY <1>1, <2>1 DEF rf2xx_tat_set_operating_channel, RF_IS_23X, RF_IS_231, globals
    <3>2. Frame(X)
      BY <3>1, ReadBack23X DEF Frame
    <3>3. tat' = "SUCCESS" => ChannelSet'
      BY <1>1, <2>1, <3>1, ReadBack23X
      DEF ChannelSet, get_operating_channel, RF_IS_23X, RF_IS_230, RF_IS_231,
        RF_IS_212, globals
    <3> QED
      BY <3>1, <3>2, <3>3, ReadBack23X
  <2>2. CASE rf2xx_version = 212
    <3>1. ~RF_IS_23X /\ SetChannel212 /\ rf2xx_version' = 212
      BY <1>1, <2>2
      DEF rf2xx_tat_set_operating_channel, RF_IS_23X, RF_IS_230, RF_IS_231, globals
    <3>2. tat' = "SUCCESS" => ChannelSet'
      BY <1>1, <2>2, <3>1, ReadBack212
      DEF ChannelSet, get_operating_channel, RF_IS_23X, RF_IS_230, RF_IS_231,
        RF_IS_212, globals
    <3> QED
      BY <3>1, <3>2, ReadBack212
  <2> QED
    BY <1>2, <2>1, <2>2
<1>4. Blank'
  <2>1. Blank
    BY <1>1 DEF SettingsInv, Setup
  <2> QED
    BY <1>3, <2>1 DEF Blank, Frame, Registers
<1>5. TypeOK'
  BY <1>1, <1>3 DEF SettingsInv, TypeOK, RegisterFile, globals, params
<1>6. Setup' /\ Filtering'
  BY <1>1, <1>2, <1>3, <1>4 DEF Setup, Filtering, Since, FromChannel, FromClock,
    FromMask,
    FromEnhanced, FromBitrate, FromPower, FromAddress, FromPanId, FromRole, FromCsma,
    FromCrc
<1> QED
  BY <1>3, <1>5, <1>6 DEF SettingsInv

\* rf2xx_tat_init clears everything, and recognizes an RF231 or an RF212 or fails.
LEMMA InitStep == ASSUME SettingsInv, rf2xx_tat_init PROVE SettingsInv'
<1>1. /\ reg' = ResetValue /\ slp' = FALSE
      /\ pc' = (IF tat' = "SUCCESS" THEN "channel" ELSE "idle")
      /\ UNCHANGED <<chip, channel_2_4G, panid, id, rf212_band_set, params>>
  BY DEF rf2xx_tat_init, Goto
<1>2. /\ rf2xx_version' \in {0, 230, 231, 212}
      /\ tat' \in {"SUCCESS", "TIMED_OUT", "UNSUPPORTED_DEVICE", "NO_DEVICE"}
      /\ tat' = "SUCCESS" => rf2xx_version' \in {231, 212}
  <2>1. ~Revision(230)
    BY DEF Revision
  <2>2. rf2xx_version \in {0, 230, 231, 212}
    BY DEF SettingsInv, TypeOK
  <2> QED
    BY <2>1, <2>2 DEF rf2xx_tat_init, Identify
<1>3. reg' \in [Registers -> Byte] /\ Blank'
  BY <1>1, RadioSettingsAssumption DEF Blank
<1>4. TypeOK'
  BY <1>1, <1>2, <1>3 DEF SettingsInv, TypeOK, params
<1>5. Setup' /\ Filtering'
  BY <1>1, <1>2, <1>3 DEF Setup, Filtering, Since, FromChannel, FromClock, FromMask,
    FromEnhanced, FromBitrate, FromPower, FromAddress, FromPanId, FromRole, FromCsma,
    FromCrc
<1> QED
  BY <1>4, <1>5 DEF SettingsInv

\* Between two calls of mac_init.
LEMMA IdleStep ==
  ASSUME SettingsInv, mac_init \/ Configure \/ Sleep PROVE SettingsInv'
<1>0. reg \in RegisterFile
  BY Before
<1>1. CASE mac_init
  <2>1. channel_2_4G' \in Byte
    <3>1. cfg_chl \in Int
      <4>1. cfg_chl \in Word
        BY WordsInUse DEF SettingsInv
      <4> QED
        BY <4>1, BytesOf, SMTT(30)
    <3>2. (cfg_chl % 256) \in Byte /\ 12 \in Byte
      BY <3>1 DEF Byte
    <3> QED
      BY <1>1, <3>2 DEF mac_init, ChannelOf
  <2>2. TypeOK'
    <3>1. /\ panid' = DEFAULT_PANID /\ id' = cfg_tgid /\ pc' = "init"
          /\ UNCHANGED <<chip, reg, slp, rf2xx_version, rf212_band_set, cfg_chl,
                       cfg_tgid, tat>>
      BY <1>1 DEF mac_init, params
    <3> QED
      BY <2>1, <3>1 DEF SettingsInv, TypeOK
  <2>3. pc' = "init"
    BY <1>1 DEF mac_init
  <2> QED
    BY <2>2, <2>3 DEF SettingsInv, Setup, Filtering, Since, FromChannel, FromClock,
      FromMask,
      FromEnhanced, FromBitrate, FromPower, FromAddress, FromPanId, FromRole, FromCsma,
      FromCrc
<1>2. CASE Configure \/ Sleep
  <2>1. pc = "idle" /\ UNCHANGED <<chip, reg, globals, pc, tat>> /\ (~slp' => ~slp)
    BY <1>2 DEF Configure, Sleep
  <2>2. TypeOK'
    <3>1. /\ UNCHANGED <<chip, reg, rf2xx_version, channel_2_4G, panid, id, rf212_band_set,
                       pc, tat>>
          /\ cfg_chl' = cfg_chl \/ cfg_chl' \in Channels
          /\ cfg_tgid' = cfg_tgid \/ cfg_tgid' \in Addresses
      BY <1>2 DEF Configure, Sleep, globals, params
    <3>2. slp' = slp \/ slp' = TRUE
      BY <1>2 DEF Configure, Sleep
    <3>3. slp' \in BOOLEAN
      BY <3>2 DEF SettingsInv, TypeOK
    <3> QED
      BY <3>1, <3>3 DEF SettingsInv, TypeOK
  <2>3. Frame({})
    BY <2>1 DEF Frame
  <2>4. Blank => Blank'
    BY <2>1 DEF Blank
  <2>5. CrcSet => CrcSet'
    BY <2>1 DEF CrcSet
  <2>6. Setup'
    BY <1>0, <2>1, <2>3, <2>4, <2>5, PartsKept DEF SettingsInv, Setup, Since, globals
  <2>7. Filtering'
    BY <1>0, <2>1, <2>3, PartsKept DEF SettingsInv, Filtering, Since
  <2> QED
    BY <2>2, <2>6, <2>7 DEF SettingsInv
<1> QED
  BY <1>1, <1>2

\* A synchronizing packet writes the two registers of the PAN identifier only.
LEMMA SynchronizeStep ==
  ASSUME SettingsInv, NEW p \in PanIds, Synchronize(p) PROVE SettingsInv'
<1> DEFINE low == p % 256
           high == p \div 256
           X == {"PAN_ID_0", "PAN_ID_1"}
<1>1. /\ pc = "idle" /\ panid' = p
      /\ reg' = (IF slp THEN reg
                 ELSE [reg EXCEPT !["PAN_ID_0"] = low, !["PAN_ID_1"] = high])
      /\ UNCHANGED <<chip, slp, rf2xx_version, channel_2_4G, id, rf212_band_set, params,
                     pc, tat>>
  BY DEF Synchronize, WithPanId
<1>2. low \in Byte /\ high \in Byte /\ low + (256 * high) = p
  <2>1. p \in Word
    BY RadioSettingsAssumption
  <2> QED
    BY <2>1, BytesOf, SMTT(30)
<1> HIDE DEF low, high
<1>3. reg \in RegisterFile
  BY Before
<1>4. /\ reg' \in RegisterFile /\ \A rg \in Registers \ X : reg'[rg] = reg[rg]
      /\ ~slp => reg'["PAN_ID_0"] = low /\ reg'["PAN_ID_1"] = high
  BY <1>1, <1>2, <1>3 DEF RegisterFile, Registers
<1>5. TypeOK'
  BY <1>1, <1>4 DEF SettingsInv, TypeOK, RegisterFile, params
<1>6. \A sr \in Subregisters : Field(reg', sr) = Field(reg, sr)
  <2>1. \A sr \in Subregisters : sr.rg \notin X
    BY DEF Subregisters, SR, CLKM_SHA_SEL, CLKM_CTRL, IRQ_2_EXT_EN, TX_AUTO_CRC_ON,
           IRQ_MASK_MODE, PA_BOOST, RF230_TX_AUTO_CRC_ON, TX_PWR, CHANNEL, RX_SAFE_MODE,
           OQPSK_DATA_RATE, ANT_DIV_EN, ANT_EXT_SW_EN, CC_BAND, GC_TX_OFFS, AACK_ACK_TIME,
           AACK_FVN_MODE, AACK_SET_PD, I_AM_COORD, CSMA_SEED_1, MIN_BE
  <2> QED
    BY <1>3, <1>4, <2>1, FieldsKept
<1>7. /\ reg'["CC_CTRL_0"] = reg["CC_CTRL_0"] /\ reg'["IRQ_MASK"] = reg["IRQ_MASK"]
      /\ reg'["SHORT_ADDR_0"] = reg["SHORT_ADDR_0"]
      /\ reg'["SHORT_ADDR_1"] = reg["SHORT_ADDR_1"]
      /\ reg'["PHY_TX_PWR"] = reg["PHY_TX_PWR"] /\ reg'["XAH_CTRL"] = reg["XAH_CTRL"]
      /\ reg'["CSMA_SEED_0"] = reg["CSMA_SEED_0"]
  BY <1>4 DEF Registers
<1>8. (ChannelSet => ChannelSet') /\ (ClockSet => ClockSet') /\ (MaskSet => MaskSet')
      /\ (EnhancedSet => EnhancedSet') /\ (PowerSet => PowerSet')
  <2>0. /\ Field(reg', CHANNEL) = Field(reg, CHANNEL)
        /\ Field(reg', CC_BAND) = Field(reg, CC_BAND)
        /\ Field(reg', TX_PWR) = Field(reg, TX_PWR)
        /\ UNCHANGED <<rf2xx_version, rf212_band_set, channel_2_4G>>
    BY <1>1, <1>6, ChannelBits, PowerBits
  <2>1. ChannelSet => ChannelSet'
    BY <1>7, <2>0 DEF ChannelSet, get_operating_channel, RF_IS_23X,
       RF_IS_212, RF_IS_230, RF_IS_231
  <2>2. (ClockSet => ClockSet') /\ (MaskSet => MaskSet')
    BY <1>6, <1>7, ClockBits DEF ClockSet, MaskSet
  <2>3. EnhancedSet => EnhancedSet'
    BY <1>6, AckBits, RateBits, InterruptBits DEF EnhancedSet
  <2>4. PowerSet => PowerSet'
    BY <1>7, <2>0 DEF PowerSet, RF_IS_212
  <2> QED
    BY <2>1, <2>2, <2>3, <2>4
<1>9. (AddressSet => AddressSet') /\ (RoleSet => RoleSet') /\ (CsmaSet => CsmaSet')
      /\ (CrcSet => CrcSet') /\ (Blank => Blank')
  BY <1>1, <1>6, <1>7, CsmaBits, CrcBits, ZenonT(40) DEF AddressSet, RoleSet, CsmaSet, CrcSet, Blank
<1>10. Setup'
  BY <1>1, <1>8, <1>9 DEF SettingsInv, Setup, Since, FromChannel, FromClock, FromMask,
    FromEnhanced, FromBitrate, FromPower, FromAddress, FromPanId, FromRole, FromCsma,
    FromCrc
<1>11. Filtering'
  <2>1. ~slp => FilterSet'
    BY <1>1, <1>2, <1>4 DEF FilterSet
  <2> QED
    BY <1>1, <2>1 DEF Filtering
<1> QED
  BY <1>5, <1>10, <1>11 DEF SettingsInv

\* Every step keeps the invariant.
LEMMA SettingsInvStep ==
  ASSUME SettingsInv, [Next]_vars
  PROVE  SettingsInv' /\ (rf2xx_tat_set_operating_channel => tat' # "TIMED_OUT")
<1>1. rf2xx_tat_set_operating_channel => tat' # "TIMED_OUT"
  BY ChannelStep
<1>2. CASE rf2xx_Init
  BY <1>2, InitStep, ChannelStep, ClockStep, IrqMaskStep, EnhancedStep, BitrateStep,
    PowerStep,
     AddressStep, PanIdStep, RoleStep, CsmaStep, AutoCrcStep DEF rf2xx_Init
<1>3. CASE mac_init \/ Configure \/ Sleep
  BY <1>1, <1>3, IdleStep
<1>4. CASE \E p \in PanIds : Synchronize(p)
  BY <1>1, <1>4, SynchronizeStep
<1>5. CASE UNCHANGED vars
  <2>1. UNCHANGED <<chip, reg, slp, rf2xx_version, channel_2_4G, panid, id, rf212_band_set,
                    cfg_chl, cfg_tgid, pc, tat>>
    BY <1>5 DEF vars, globals, params
  <2>2. TypeOK'
    BY <2>1 DEF SettingsInv, TypeOK
  <2>3. reg \in RegisterFile /\ Frame({}) /\ UNCHANGED globals
    BY <2>1, Before DEF Frame, globals
  <2>4. (Blank => Blank') /\ (CrcSet => CrcSet')
    BY <2>1 DEF Blank, CrcSet
  <2>5. Setup'
    BY <2>1, <2>3, <2>4, PartsKept DEF SettingsInv, Setup, Since
  <2>6. Filtering'
    BY <2>1, <2>3, PartsKept DEF SettingsInv, Filtering, Since
  <2> QED
    BY <1>1, <2>2, <2>5, <2>6 DEF SettingsInv
<1> QED
  BY <1>1, <1>2, <1>3, <1>4, <1>5 DEF Next

LEMMA SettingsInvInit == Init => SettingsInv
<1> SUFFICES ASSUME Init PROVE SettingsInv
  OBVIOUS
<1>1. 12 \in Byte
  BY DEF Byte
<1>2. TypeOK
  BY <1>1, RadioSettingsAssumption DEF Init, TypeOK
<1>3. Setup /\ Filtering
  BY DEF Init, Setup, Filtering, Since, FromChannel, FromClock, FromMask, FromEnhanced,
    FromBitrate, FromPower, FromAddress, FromPanId, FromRole, FromCsma, FromCrc
<1> QED
  BY <1>2, <1>3 DEF SettingsInv

\* The invariant holds for every transceiver, parameter and earlier contents.
THEOREM SettingsInvariant == Spec => []SettingsInv
<1>1. SettingsInv /\ [Next]_vars => SettingsInv'
  BY SettingsInvStep
<1> QED
  BY <1>1, SettingsInvInit, PTL DEF Spec

-----------------------------------------------------------------------------
\* The registers stay bytes and the variables keep their types, whatever the
\* parameters hold.
THEOREM SettingsTypeCorrect == Spec => []TypeOK
<1>1. SettingsInv => TypeOK
  BY DEF SettingsInv
<1> QED
  BY <1>1, SettingsInvariant, PTL

\* rf2xx_Init sets everything, or leaves a transceiver without interrupts and without
\* an address (rf2xx/rf2xx_init.c), for every transceiver, channel, band and address.
THEOREM SettingsAllOrNothing == Spec => []AllOrNothing
<1>1. SettingsInv => AllOrNothing
  <2> SUFFICES ASSUME SettingsInv, pc = "idle"
               PROVE  IF tat = "SUCCESS" THEN Configured ELSE Blank
    BY DEF AllOrNothing, Blank
  <2>1. CASE tat = "SUCCESS"
    <3>1. rf2xx_version \in {231, 212} /\ SUPPORTED_INTERRUPT_MASK = 255
      BY <2>1 DEF SettingsInv, Setup, Since, SUPPORTED_INTERRUPT_MASK, RF_IS_230
    <3>2. /\ ChannelSet /\ ClockSet /\ MaskSet /\ EnhancedSet /\ PowerSet /\ AddressSet
          /\ RoleSet /\ CsmaSet /\ CrcSet
      BY <2>1 DEF SettingsInv, Setup, Since
    <3>3. slp \/ FilterSet
      BY <2>1 DEF SettingsInv, Filtering, Since
    <3>4. Configured
      BY <3>1, <3>2, <3>3 DEF Configured, ChannelSet, ClockSet, MaskSet, EnhancedSet,
        PowerSet, AddressSet, FilterSet, RoleSet, CsmaSet, CrcSet
    <3> QED
      BY <2>1, <3>4
  <2>2. CASE tat # "SUCCESS"
    BY <2>2 DEF SettingsInv, Setup
  <2> QED
    BY <2>1, <2>2
<1> QED
  BY <1>1, SettingsInvariant, PTL

\* No channel that rf2xx_tat_set_operating_channel accepts is read back differently
\* from the bits it was written to.
THEOREM ChannelAlwaysReadsBack == Spec => ChannelReadsBack
<1>1. SettingsInv /\ [Next]_vars
        => [rf2xx_tat_set_operating_channel => tat' # "TIMED_OUT"]_vars
  <2> SUFFICES ASSUME SettingsInv, [Next]_vars
               PROVE  rf2xx_tat_set_operating_channel => tat' # "TIMED_OUT"
    OBVIOUS
  <2> QED BY SettingsInvStep
<1> QED
  BY <1>1, SettingsInvariant, PTL DEF Spec, ChannelReadsBack
================================================================================
