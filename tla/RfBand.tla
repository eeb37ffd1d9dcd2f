------------------------------- MODULE RfBand -------------------------------
(* The frequency of the AT86RF212 in units of 100 kHz, and the band, the    *)
(* number and the channel that stand for it in the registers                *)
(* (rf2xx/rf2xx_version.c:34-200).                                          *)
EXTENDS Integers

RF212_MIN_CHANNEL == 7690
RF212_MAX_CHANNEL == 9350
Frequencies == RF212_MIN_CHANNEL..RF212_MAX_CHANNEL

EU_868_3 == 8683
NA_906 == 9060

\* Bands 1 to 3 in steps of 100 kHz, bands 4 and 5 in steps of 1 MHz.
Base == [b \in 1..5 |-> CASE b = 1 -> 7690 [] b = 2 -> 8570 [] b = 3 -> 9030
                          [] b = 4 -> 7690 [] b = 5 -> 8330]
End == [b \in 1..5 |-> CASE b = 1 -> 7945 [] b = 2 -> 8825 [] b = 3 -> 9285
                         [] b = 4 -> 8630 [] b = 5 -> 9350]

Setting(b, n, c) == [band |-> b, number |-> n, channel |-> c]
Failed == Setting(-1, 0, 0)

WithinBand(f, b) == Base[b] <= f /\ f <= End[b]

\* set_band_channel: the channels of band 0 by name, whole MHz by bands 4 and 5,
\* the others by bands 1 to 3 or not at all.  (The test for a frequency below
\* band 4 and above band 5 is never true.)
InBand0(f) == f = EU_868_3 \/ f \in {NA_906 + 20 * k : k \in 0..9}

set_band_channel(f) ==
  CASE f = EU_868_3 -> Setting(0, 0, 0)
    [] InBand0(f) /\ f # EU_868_3 -> Setting(0, 0, (f - NA_906) \div 20 + 1)
    [] ~InBand0(f) /\ f % 10 = 0 ->
         IF f < End[4] THEN Setting(4, (f - Base[4]) \div 10, 0)
                       ELSE Setting(5, (f - Base[5]) \div 10, 0)
    [] OTHER ->
         IF WithinBand(f, 1) THEN Setting(1, f - Base[1], 0)
         ELSE IF WithinBand(f, 2) THEN Setting(2, f - Base[2], 0)
         ELSE IF WithinBand(f, 3) THEN Setting(3, f - Base[3], 0)
         ELSE Failed

get_band_channel(s) ==
  CASE s.band = 0 /\ s.channel = 0 -> EU_868_3
    [] s.band = 0 /\ s.channel \in 1..10 -> NA_906 + (s.channel - 1) * 20
    [] s.band \in 1..3 -> Base[s.band] + s.number
    [] s.band \in 4..5 -> Base[s.band] + s.number * 10
    [] OTHER -> 0
=============================================================================
