------------------------------ MODULE CodeUpdate ------------------------------
(***************************************************************************)
(* The update of the card's program over the air:                          *)
(* parse_rx_update_code_pkt (app/event_receive_pkt.c) with the flash       *)
(* routines it calls (arch/FLASHCTRL.c), and the configuration parameters  *)
(* that lie in the same flash (app/flash_operation.c).  The card is in     *)
(* configuration mode (c_state = config in TagCard); frames reach it in    *)
(* any order, repeated and with any contents.                              *)
(*                                                                         *)
(* The flash is a function from cells, counted from USER_CODE_STORE_ADDR,  *)
(* to what they hold.  A cell is the 32 bytes of which a piece has 3 and a *)
(* page 32.  The check sum of a file is the sequence of its pieces: that   *)
(* two files have the same check sum is not modelled.  The sequence number *)
(* that labels the answers is left out, no test reads it.  A file may be   *)
(* longer than the flash: what is written behind the flash is lost, and    *)
(* what the entries of write_flash_ok past the 350th (a piece behind the   *)
(* flash) overwrite is not modelled.                                       *)
(***************************************************************************)
EXTENDS Integers, Sequences

CONSTANTS
  Data,       \* contents of one piece
  Images,     \* files the updater may announce, sequences of pieces
  OldImages,  \* those of them it may announce with an old version number
  Piece,      \* cells of a piece (PIECE_SIZE)
  Page,       \* cells of a flash page (PAGE_SIZE)
  StorePages, \* pages FLASH_STORE_CODE_SIZE counts from the store address
  BootPage,   \* page of USER_BOOT_INFO_ADDR
  SysPage,    \* page of SYS_INFO_START_ADDR
  InfoPage,   \* page of IMG_INFO_PAGE_ADDR
  Params,     \* sets of configuration parameters
  Default     \* the one get_cfg_default writes

ASSUME UpdateAssumption ==
  /\ Images \subseteq Seq(Data) \ {<<>>} /\ OldImages \subseteq Images
  /\ {Piece, Page, StorePages, BootPage, SysPage, InfoPage} \subseteq Nat \ {0}
  /\ Piece <= Page /\ Page > 1
  /\ BootPage < SysPage /\ SysPage < InfoPage /\ StorePages <= InfoPage
  /\ Default \in Params

Cells == 0 .. (InfoPage + 1) * Page - 1
BootAddr == BootPage * Page
SysAddr == SysPage * Page
InfoAddr == InfoPage * Page

\* What a cell holds: nothing, part of a piece, the reboot flag, the length of the
\* image to boot, its size and check sum, the parameters, or a mixture.
Word(what, of, part) == [what |-> what, of |-> of, part |-> part]
Blank == Word("blank", <<>>, 0)
Mixed == Word("mixed", <<>>, 0)
Flag == Word("flag", <<>>, 0)
Len96(n) == Word("len", <<n>>, 0)
Info(img) == Word("info", img, Len(img))
Sys(v) == Word("params", <<v>>, 0)
Code(d) == [k \in 1..Piece |-> Word("code", <<d>>, k)]

VARIABLES
  pc,                 \* "receive", a step of the completion or of the start, "halt"
  recv_updata_req,    \* code frames are taken
  file_crc,           \* check sum so far: the pieces taken
  recv_file_crc,      \* check sum announced: the file
  current_piece,      \* piece expected next
  total_segments,     \* pieces announced
  current_store_addr, \* cell at which the next piece goes
  write_flash_ok,     \* pieces written
  code,               \* contents of the frame at hand
  flash,
  answer,             \* answer to the last request
  acked,              \* pieces of the session confirmed, send_cf_ack returned 0
  params,             \* parameters configured last
  mishap,             \* what has befallen their page since then
  legal               \* the file completed was accepted and ends before the boot page

transfer == <<recv_updata_req, file_crc, recv_file_crc, current_piece,
              total_segments, current_store_addr, write_flash_ok>>
seen == <<answer, acked>>
config == <<params, mishap>>
vars == <<pc, transfer, code, flash, seen, config, legal>>

TypeOK ==
  /\ pc \in {"receive", "info", "piece", "erase", "flag", "len", "reset", "boot",
             "start", "halt"}
  /\ recv_updata_req \in BOOLEAN
  /\ file_crc \in Seq(Data) /\ recv_file_crc \in Images \cup {<<>>}
  /\ current_piece \in Nat /\ total_segments \in Nat
  /\ current_store_addr \in Nat
  /\ write_flash_ok \subseteq Nat /\ acked \subseteq Nat
  /\ code \in Data \cup {<<>>}
  /\ answer \in {"none", "ok", "version_err", "total_err"}
  /\ params \in Params /\ mishap \subseteq {"power", "overrun"} /\ legal \in BOOLEAN
  /\ DOMAIN flash = Cells

-----------------------------------------------------------------------------
(* The flash.                                                              *)

Erase(f, page) == [c \in Cells |-> IF c \div Page = page THEN Blank ELSE f[c]]

\* Programming clears bits only: a cell programmed twice holds a mixture.
Program(f, addr, words) ==
  [c \in Cells |->
     IF c - addr + 1 \in DOMAIN words
     THEN IF f[c] = Blank THEN words[c - addr + 1] ELSE Mixed
     ELSE f[c]]

ErasedFor_NoRunOver(addr, len) == {p \in {addr \div Page} : addr % Page = 0}

\* The page that begins at addr, and the page the data runs over into.  erase_flash
\* does not advance its address: of several pages it erases the first.
ErasedFor(addr, len) ==
  {p \in {addr \div Page} : addr % Page = 0} \cup
  {p \in {addr \div Page + 1} : (addr + len - 1) \div Page > addr \div Page}

EraseFor(f, addr, len) ==
  LET pages == ErasedFor(addr, len)
  IN [c \in Cells |-> IF c \div Page \in pages THEN Blank ELSE f[c]]

write_data_to_flash(f, addr, words) ==
  Program(EraseFor(f, addr, Len(words)), addr, words)

-----------------------------------------------------------------------------
(* Start and reset.                                                        *)

\* The statics of event_receive_pkt.c after a reset.
Statics ==
  /\ recv_updata_req = FALSE /\ file_crc = <<>> /\ recv_file_crc = <<>>
  /\ current_piece = 0 /\ total_segments = 0 /\ current_store_addr = 0
  /\ write_flash_ok = {0}

Init ==
  /\ pc = "receive" /\ Statics
  /\ code = <<>> /\ answer = "none" /\ acked = {}
  /\ params = Default /\ mishap = {} /\ legal = TRUE
  /\ flash = [c \in Cells |-> IF c = SysAddr THEN Sys(Default) ELSE Blank]

\* What a reset does to all but the flash.
Reset ==
  /\ pc' = "boot"
  /\ recv_updata_req' = FALSE /\ file_crc' = <<>> /\ recv_file_crc' = <<>>
  /\ current_piece' = 0 /\ total_segments' = 0 /\ current_store_addr' = 0
  /\ write_flash_ok' = {0}
  /\ code' = <<>> /\ answer' = "none" /\ acked' = {}
  /\ UNCHANGED <<params, legal>>

\* A reset at any moment: the software reset that ends an update, the one of the
\* quit command or of the time-out of configuration mode, or a loss of power.
Restart ==
  /\ pc \notin {"boot", "start"}
  /\ Reset
  /\ UNCHANGED <<flash, mishap>>

\* A piece that is written over the page of the parameters, or runs over into it.
PieceMishap ==
  IF SysPage \in current_store_addr \div Page .. (current_store_addr + Piece - 1) \div Page
  THEN mishap \cup {"overrun"} ELSE mishap

\* Power is lost in a write, after its pages are erased: of the parameters, or of a
\* piece.
PowerLost ==
  /\ \/ /\ pc = "receive"
        /\ flash' = EraseFor(flash, SysAddr, 1)
        /\ mishap' = mishap \cup {"power"}
     \/ /\ \/ pc = "piece"
           \/ pc = "receive" /\ recv_updata_req /\ current_piece # total_segments
        /\ flash' = EraseFor(flash, current_store_addr, Piece)
        /\ mishap' = PieceMishap
  /\ Reset

\* The boot loader, which is not in the repository, copies the image when the reboot
\* flag is set, and takes the flag back.
Bootloader ==
  /\ pc = "boot"
  /\ pc' = "start"
  /\ flash' = IF flash[BootAddr] = Flag THEN Erase(flash, BootPage) ELSE flash
  /\ legal' = TRUE
  /\ UNCHANGED <<transfer, code, seen, config>>

\* main takes the parameters from the flash, or writes the default ones.
Start ==
  /\ pc = "start"
  /\ pc' = "receive"
  /\ flash' = IF flash[SysAddr].what = "params" THEN flash
              ELSE write_data_to_flash(flash, SysAddr, <<Sys(Default)>>)
  /\ UNCHANGED <<transfer, code, seen, config, legal>>

-----------------------------------------------------------------------------
(* Frames.                                                                 *)

\* A frame that is not a legal configuration frame: a closed loop.
IllegalFrame ==
  /\ pc = "receive"
  /\ pc' = "halt"
  /\ UNCHANGED <<transfer, code, flash, seen, config, legal>>

\* Case 0: new parameters.
ConfigFrame ==
  /\ pc = "receive"
  /\ \E v \in Params :
       /\ params' = v /\ mishap' = {}
       /\ flash' = write_data_to_flash(flash, SysAddr, <<Sys(v)>>)
  /\ UNCHANGED <<pc, transfer, code, seen, legal>>

\* Case 1: a request sets everything up before it is judged.
RequestFrame(img, reply) ==
  /\ pc = "receive"
  /\ file_crc' = <<>> /\ recv_file_crc' = img
  /\ total_segments' = Len(img)
  /\ current_store_addr' = 0
  /\ current_piece' = 1
  /\ write_flash_ok' = {0}
  /\ answer' = reply /\ acked' = {}
  /\ UNCHANGED <<pc, code, flash, config, legal>>

Fits(img) == Len(img) * Piece <= StorePages * Page

\* The answer to an old version leaves recv_updata_req set, and comes before the test
\* of the size: a file of any length is taken.
RequestOldVersion ==
  \E img \in OldImages :
    RequestFrame(img, "version_err") /\ recv_updata_req' = TRUE

RequestTooLong ==
  \E img \in Images :
    /\ ~Fits(img)
    /\ RequestFrame(img, "total_err") /\ recv_updata_req' = FALSE

Request ==
  \E img \in Images :
    /\ Fits(img)
    /\ RequestFrame(img, "ok") /\ recv_updata_req' = TRUE

\* Case 2: a piece of code.  Without a request it is not looked at.
CodeFrame == pc = "receive" /\ recv_updata_req

\* A frame with another total, or of a piece that is neither the one expected nor the
\* one before it, ends the session.
CodeRejected ==
  /\ CodeFrame
  /\ recv_updata_req' = FALSE
  /\ UNCHANGED <<pc, file_crc, recv_file_crc, current_piece, total_segments,
                 current_store_addr, write_flash_ok, code, flash, seen, config, legal>>

CodeRepeated_TwoBack ==
  /\ CodeFrame
  /\ acked' = acked \cup {current_piece - 2}
  /\ UNCHANGED <<pc, transfer, code, flash, answer, config, legal>>

\* The piece before the one expected is taken for a repetition and confirmed again.
CodeRepeated ==
  /\ CodeFrame
  /\ acked' = acked \cup {current_piece - 1}
  /\ UNCHANGED <<pc, transfer, code, flash, answer, config, legal>>

CodePiece(d) ==
  /\ file_crc' = Append(file_crc, d)
  /\ flash' = write_data_to_flash(flash, current_store_addr, Code(d))
  /\ mishap' = PieceMishap
  /\ current_store_addr' = current_store_addr + Piece
  /\ write_flash_ok' = write_flash_ok \cup {current_piece}
  /\ current_piece' = current_piece + 1

CodeDropped_Advances ==
  /\ current_piece' = current_piece + 1
  /\ UNCHANGED <<file_crc, flash, mishap, current_store_addr, write_flash_ok>>

\* When the first answer fails a second one is tried, but the piece is not written even
\* if that one succeeds.
CodeDropped ==
  UNCHANGED <<file_crc, flash, mishap, current_store_addr, write_flash_ok,
              current_piece>>

\* A piece is confirmed before it is written.
CodeNext ==
  /\ CodeFrame
  /\ current_piece # total_segments
  /\ current_piece \notin write_flash_ok /\ current_piece - 1 \in write_flash_ok
  /\ acked' = acked \cup {current_piece}
  /\ CodeDropped \/ \E d \in Data : CodePiece(d)
  /\ UNCHANGED <<pc, recv_updata_req, recv_file_crc, total_segments, code, answer,
                 params, legal>>

Intact_Unchecked(sum) == TRUE

Intact(sum) == sum = recv_file_crc

\* The last piece completes the check sum.  If it is right the update is completed.
CodeLast ==
  /\ CodeFrame
  /\ current_piece = total_segments
  /\ \E d \in Data :
       /\ acked' = acked \cup {current_piece}
       /\ file_crc' = Append(file_crc, d)
       /\ IF Intact(file_crc')
          THEN /\ pc' = "info" /\ code' = d
               /\ legal' = (answer = "ok" /\ total_segments * Piece <= BootAddr)
               /\ UNCHANGED recv_updata_req
          ELSE recv_updata_req' = FALSE /\ UNCHANGED <<pc, code, legal>>
  /\ UNCHANGED <<recv_file_crc, current_piece, total_segments, current_store_addr,
                 write_flash_ok, flash, answer, config>>

-----------------------------------------------------------------------------
(* The completion of an update, one write of the flash after the other.    *)

Completion(from, to) ==
  /\ pc = from /\ pc' = to
  /\ UNCHANGED <<recv_updata_req, file_crc, recv_file_crc, current_piece,
                 total_segments, write_flash_ok, code, seen, params, legal>>

write_image_info_to_flash ==
  /\ Completion("info", "piece")
  /\ flash' = write_data_to_flash(flash, InfoAddr, <<Info(recv_file_crc)>>)
  /\ UNCHANGED <<current_store_addr, mishap>>

WriteLastPiece ==
  /\ Completion("piece", "erase")
  /\ flash' = write_data_to_flash(flash, current_store_addr, Code(code))
  /\ mishap' = PieceMishap
  /\ current_store_addr' = current_store_addr + Piece

EraseBootInfo_TwoPages ==
  /\ Completion("erase", "flag")
  /\ flash' = Erase(Erase(flash, BootPage), BootPage + 1)
  /\ UNCHANGED <<current_store_addr, mishap>>

EraseBootInfo ==
  /\ Completion("erase", "flag")
  /\ flash' = Erase(flash, BootPage)
  /\ UNCHANGED <<current_store_addr, mishap>>

WriteRebootFlag ==
  /\ Completion("flag", "len")
  /\ flash' = Program(flash, BootAddr, <<Flag>>)
  /\ UNCHANGED <<current_store_addr, mishap>>

WriteBootLen ==
  /\ Completion("len", "reset")
  /\ flash' = Program(flash, BootAddr + 1, <<Len96(total_segments)>>)
  /\ UNCHANGED <<current_store_addr, mishap>>

Next ==
  \/ Restart \/ PowerLost \/ Bootloader \/ Start
  \/ IllegalFrame \/ ConfigFrame
  \/ RequestOldVersion \/ RequestTooLong \/ Request
  \/ CodeRejected \/ CodeRepeated \/ CodeNext \/ CodeLast
  \/ write_image_info_to_flash \/ WriteLastPiece \/ EraseBootInfo
  \/ WriteRebootFlag \/ WriteBootLen

Spec == Init /\ [][Next]_vars

-----------------------------------------------------------------------------
(* Correctness.                                                            *)

\* What the boot loader would copy: the pieces found in the store.  A cell that is not
\* part of a piece shows as the corrupt piece <<>>.
Found(i) ==
  LET words == [k \in 1..Piece |-> flash[(i - 1) * Piece + k - 1]]
      intact == {d \in Data : words = Code(d)}
  IN IF intact = {} THEN <<>> ELSE CHOOSE d \in intact : TRUE

Stored(n) == [i \in 1..n |-> Found(i)]

\* While pieces come in, the store holds the pieces of which the check sum was taken,
\* although the pages were erased one by one and earlier sessions left theirs behind:
\* as long as they lie before the boot page, behind which the parameters may be
\* written over them.
StoreHoldsWhatIsSummed ==
  pc = "receive" /\ recv_updata_req =>
    /\ write_flash_ok = 0..Len(file_crc)
    /\ current_piece = Len(file_crc) + 1
    /\ current_store_addr <= BootAddr => Stored(Len(file_crc)) = file_crc

\* The flash holds the parameters last configured, although updates erase and write
\* pages all around theirs, sessions are abandoned and power is lost in any write of a
\* piece; except by name: power lost in the write of the parameters themselves, and a
\* piece that runs over them, of a file that is too long.
ParamsKept == mishap = {} => flash[SysAddr] = Sys(params)

\* An update as its user sees it: a file is announced if it is accepted; bootable is
\* what the boot loader finds.
Bootable ==
  IF flash[BootAddr] = Flag /\ flash[BootAddr + 1] # Blank
  THEN Stored(flash[BootAddr + 1].of[1]) ELSE <<>>

Accepted(x) == IF recv_updata_req /\ answer = "ok" THEN x ELSE <<>>

\* What the tests of the version and of the size (event_receive_pkt.c:325, 330) are
\* there for: only a file that was accepted and received in full becomes bootable.
\* A refused file does as well, and a long one with a part of it erased.
Transfer == INSTANCE ImageTransfer WITH
  file <- Accepted(recv_file_crc), got <- Accepted(file_crc), bootable <- Bootable

BootsWhatWasSent == Transfer!Spec

\* What the code does keep: but for the completion of a refused file, and of one that
\* does not end before the boot page, only a file accepted and received in full
\* becomes bootable, whatever frames are lost, repeated or out of order, wherever power
\* is lost, and whatever a refused or a long file has left behind.
LegalTransfer == INSTANCE ImageTransfer WITH
  file <- Accepted(recv_file_crc), got <- Accepted(file_crc),
  bootable <- IF legal THEN Bootable ELSE <<>>

BootsWhatWasAccepted == LegalTransfer!Spec

\* A piece may be confirmed and not written, but only the one expected next: an updater
\* that goes on to the next piece is refused, and no hole is left in the store.
NoHole ==
  pc = "receive" /\ recv_updata_req =>
    acked \ write_flash_ok \subseteq {current_piece}
=============================================================================
