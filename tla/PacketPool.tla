------------------------------ MODULE PacketPool ------------------------------
(***************************************************************************)
(* The packet pool: a ring of bytes that the interrupt handler fills with  *)
(* the frames it accepts (rf2xx_trx_recv_packet) and the main loop empties *)
(* one record at a time (mac_parze_packet).  header is the last byte read, *)
(* tail the next to be written; packet_received counts the records.        *)
(*                                                                         *)
(* The handler preempts the main loop between any two of its steps, unless *)
(* interrupts are masked; nothing preempts the handler.  A byte stands for *)
(* its record and its place in it: <<frame, k>>.                           *)
(***************************************************************************)
EXTENDS Integers, Sequences

CONSTANTS
  Size,     \* MAX_PACKET_BUFFER_SIZE
  Byte,     \* values of a byte, 2^8: the length of a payload is computed in one
  MaxFrame, \* HAL_MAX_FRAME_LENGTH
  Lengths,  \* lengths of the frames on the air
  Ids       \* to tell frames apart: sequence number, sender, payload

PACKET_OVERHEAD == 9
PACKET_FOOTER == 2

\* recv_time, seqNumber, srcAddr, srcPanId and length come before the payload,
\* ackRequest and ed after it.
Before == 8 + 1 + 2 + 2 + 1
After == 1 + 1

None == [id |-> "none", length |-> 0]

RecordSize(f) == Before + f.length + After
Record(f) == [k \in 1 .. RecordSize(f) |-> <<f, k>>]

ASSUME PoolAssumption ==
  /\ Size \in Nat \ {0} /\ Byte \in Nat \ {0}
  /\ MaxFrame + 1 < Byte /\ Before + After < Size
  /\ Lengths \subseteq 0 .. MaxFrame

VARIABLES
  packet_buffer, tail, header, \* received_packet_pool
  packet_received,
  rx_frame,                    \* the data frame last read from the transceiver
  pc, loaded,                  \* main loop; its copy of packet_received
  masked,                      \* between ENTER_ and LEAVE_CRITICAL_REGION
  out,                         \* bytes the last mac_parze_packet took
  pending                      \* observer: frames accepted and not yet parsed

pool == <<packet_buffer, tail, header>>
vars == <<pool, packet_received, rx_frame, pc, loaded, masked, out, pending>>

Init ==
  /\ packet_buffer = [i \in 0 .. Size - 1 |-> <<None, 0>>]
  /\ tail = 0 /\ header = Size - 1
  /\ packet_received = 0 /\ loaded = 0 /\ rx_frame = None.id
  /\ pc = "main" /\ masked = FALSE
  /\ out = <<>> /\ pending = <<>>

(***************************************************************************)
(* The ring.                                                               *)
(***************************************************************************)
\* Bug: the distance is taken the wrong way round when tail is ahead.
CHECK_POOL_NoWrap ==
  IF tail <= header THEN header - tail ELSE tail - header

CHECK_POOL ==
  IF tail <= header THEN header - tail ELSE header + Size - tail

\* Bug: tail is set back only once it is beyond size.
WRITE_PACKET_POOL_WrapsLate(bytes) ==
  /\ packet_buffer' = [i \in DOMAIN packet_buffer |->
       LET k == ((i - tail) % Size) + 1
       IN  IF k <= Len(bytes) THEN bytes[k] ELSE packet_buffer[i]]
  /\ tail' = IF tail + Len(bytes) > Size THEN (tail + Len(bytes)) % Size
                                         ELSE tail + Len(bytes)

WRITE_PACKET_POOL(bytes) ==
  /\ packet_buffer' = [i \in DOMAIN packet_buffer |->
       LET k == ((i - tail) % Size) + 1
       IN  IF k <= Len(bytes) THEN bytes[k] ELSE packet_buffer[i]]
  /\ tail' = (tail + Len(bytes)) % Size

\* n bytes after the one read last, which is at h.
ReadFrom(h, n) == [k \in 1 .. n |-> packet_buffer[(h + k) % Size]]

\* What a byte says if it is taken for the length of a payload.
LengthIn(byte) == IF byte[2] = Before THEN byte[1].length ELSE 0

SizeAt(h) == Before + LengthIn(packet_buffer[(h + Before) % Size]) + After
READ_PACKET_POOL(h) == ReadFrom(h, SizeAt(h))

(***************************************************************************)
(* The interrupt handler, for a frame of len bytes that carries f's        *)
(* contents.  ok: the CRC of what is in rx_frame is right; data: the frame *)
(* control field is that of a data frame.  A frame of the greatest length  *)
(* is not read from the transceiver, and nothing looks at the result: the  *)
(* CRC is taken of what an earlier frame and those before it have left in  *)
(* rx_frame.  It may fit, and that frame is then taken again, as a longer  *)
(* one.                                                                    *)
(***************************************************************************)
\* The length is the byte before the frame and counts it as one more.
spi1_read_buff(len) == len + 1 <= MaxFrame

\* rf2xx_hal_frame_read, which tests the length and not the result of the reading.
Readable(len) == len \in 3 .. MaxFrame

PayloadLength(len) == (len - PACKET_OVERHEAD - PACKET_FOOTER) % Byte

Frame == [id : Ids, length : {PayloadLength(len) : len \in Lengths}]

\* Bug: the room is compared with the payload only.
HasRoom_PayloadOnly(f) == f.length < CHECK_POOL

HasRoom(f) == f.length + 16 < CHECK_POOL

\* The data frame that rx_frame holds after a reading, or none.
LastRead(len, id, data) ==
  IF ~spi1_read_buff(len) THEN rx_frame ELSE IF data THEN id ELSE None.id

rf2xx_trx_recv_packet(len, id, ok, data) ==
  LET f == [id |-> LastRead(len, id, data), length |-> PayloadLength(len)]
  IN  /\ ~masked
      /\ rx_frame' = f.id
      /\ IF Readable(len) /\ ok /\ len >= PACKET_OVERHEAD /\ f.id # None.id /\ HasRoom(f)
           THEN /\ WRITE_PACKET_POOL(Record(f))
                /\ packet_received' = packet_received + 1
                /\ pending' = Append(pending, f)
           ELSE UNCHANGED <<packet_buffer, tail, packet_received, pending>>
      /\ UNCHANGED <<header, pc, loaded, masked, out>>

(***************************************************************************)
(* The main loop.  The count is decremented by a load and a store.         *)
(***************************************************************************)
\* Bug: the record is read with interrupts enabled.
ENTER_CRITICAL_REGION_Forgotten == UNCHANGED masked

ENTER_CRITICAL_REGION == masked' = TRUE

mac_parze_packet ==
  /\ pc = "main" /\ packet_received > 0
  /\ ENTER_CRITICAL_REGION
  /\ out' = READ_PACKET_POOL(header)
  /\ header' = (header + Len(out')) % Size
  /\ pending' = IF pending = <<>> THEN <<>> ELSE Tail(pending)
  /\ pc' = "load"
  /\ UNCHANGED <<packet_buffer, tail, packet_received, rx_frame, loaded>>

Load ==
  /\ pc = "load"
  /\ loaded' = packet_received
  /\ pc' = "store"
  /\ UNCHANGED <<pool, packet_received, rx_frame, masked, out, pending>>

Store ==
  /\ pc = "store"
  /\ packet_received' = loaded - 1 /\ loaded' = 0
  /\ masked' = FALSE
  /\ pc' = "main"
  /\ UNCHANGED <<pool, rx_frame, out, pending>>

\* mac_init runs with the transceiver off.
rf2xx_protoc_init ==
  /\ pc = "main"
  /\ packet_received' = 0
  /\ header' = Size - 1 /\ tail' = 0
  /\ pending' = <<>>
  /\ UNCHANGED <<packet_buffer, rx_frame, pc, loaded, masked, out>>

Next ==
  \/ \E len \in Lengths, id \in Ids, ok, data \in BOOLEAN :
       rf2xx_trx_recv_packet(len, id, ok, data)
  \/ mac_parze_packet \/ Load \/ Store
  \/ rf2xx_protoc_init

Spec == Init /\ [][Next]_vars

-------------------------------------------------------------------------------
(***************************************************************************)
(* Properties.                                                             *)
(***************************************************************************)
\* The variables have their types; tail and header stay inside the ring.
TypeOK ==
  /\ tail \in 0 .. Size - 1 /\ header \in 0 .. Size - 1
  /\ packet_received \in 0 .. Size \div (Before + After)
  /\ loaded \in 0 .. Size \div (Before + After)
  /\ pc \in {"main", "load", "store"} /\ masked \in BOOLEAN
  /\ rx_frame \in Ids \cup {None.id}
  /\ DOMAIN packet_buffer = 0 .. Size - 1

\* Records that the pool holds: one that is being parsed counts until Store.
Waiting == IF pc = "main" THEN packet_received ELSE packet_received - 1

\* Where the n-th record begins, that is, the last byte before it.
Start[n \in 0 .. Waiting] ==
  IF n = 0 THEN header
  ELSE LET h == Start[n - 1] IN (h + SizeAt(h)) % Size

FrameOf(bytes) ==
  IF bytes # <<>> /\ bytes = Record(bytes[1][1]) THEN bytes[1][1] ELSE None

\* The count and the ring agree: after as many records as are waiting the next
\* byte is the one to write.  When they part, the main loop parses bytes that no
\* frame put there, or leaves frames in the pool for good.
CountMatchesTheRing == (Start[Waiting] + 1) % Size = tail

\* Bytes of the first n frames pending.
Used[n \in 0 .. Len(pending)] ==
  IF n = 0 THEN 0 ELSE Used[n - 1] + RecordSize(pending[n])

\* The room CHECK_POOL finds is all there is but the byte that tells a full
\* pool from an empty one, and none of it leaks as the ring turns.
RoomIsWhatIsLeft == CHECK_POOL = Size - 1 - Used[Len(pending)]

\* Frames come out whole, once each, in the order in which they were accepted.
Fifo == INSTANCE FrameFifo WITH queue <- pending, out <- FrameOf(out)
FramesInOrder == Fifo!Spec

==============================================================================
