---------------------------- MODULE CodeStoreProofs ----------------------------
(***************************************************************************)
(* Proofs about CodeUpdate.  First the types, and that no hole is left in  *)
(* the store, for every file, size of piece and page, and loss of power.   *)
(* Then what the flash holds during an update: the parameters survive all  *)
(* but the two mishaps that are named, the store holds the pieces that     *)
(* were summed up to the boot page, and what the boot loader is left with  *)
(* is a file accepted and received, or one completed by one of the two     *)
(* ways around the tests.  Nothing is assumed of the files but that they   *)
(* are sequences of pieces: they may be refused, and of any length.        *)
(***************************************************************************)
EXTENDS CodeUpdate, SequenceTheorems, TLAPS

\* The types without those of the pieces, which they do not depend on.
ControlTypes ==
  /\ pc \in {"receive", "info", "piece", "erase", "flag", "len", "reset", "boot",
             "start", "halt"}
  /\ current_piece \in Nat /\ total_segments \in Nat /\ current_store_addr \in Nat
  /\ write_flash_ok \subseteq Nat
  /\ answer \in {"none", "ok", "version_err", "total_err"}

Opened == recv_updata_req \in BOOLEAN /\ legal \in BOOLEAN

ContentTypes ==
  /\ file_crc \in Seq(Data) /\ recv_file_crc \in Images \cup {<<>>}
  /\ code \in Data \cup {<<>>}
  /\ params \in Params
  /\ DOMAIN flash = Cells

Mishaps == mishap \subseteq {"power", "overrun"}

\* The pieces written are those before the one expected, and at most that one has been
\* confirmed besides.
Session ==
  /\ acked \subseteq Nat
  /\ recv_updata_req =>
       /\ current_piece > 0
       /\ write_flash_ok = 0 .. current_piece - 1
       /\ acked \subseteq 0 .. current_piece

\* Whatever it erases and programs, the flash keeps its cells.
LEMMA FlashCells ==
  ASSUME NEW f, NEW addr, NEW words, NEW page
  PROVE  /\ DOMAIN write_data_to_flash(f, addr, words) = Cells
         /\ DOMAIN Program(f, addr, words) = Cells
         /\ DOMAIN Erase(f, page) = Cells
         /\ \A len : DOMAIN EraseFor(f, addr, len) = Cells
BY DEF write_data_to_flash, Program, Erase, EraseFor

\* The sizes and files, as far as the control needs them.
LEMMA Sizes ==
  /\ Piece \in Nat
  /\ \A img \in Images : img \in Seq(Data) /\ Len(img) \in Nat /\ img # <<>>
  /\ OldImages \subseteq Images
  /\ Default \in Params
<1>1. Images \subseteq Seq(Data) \ {<<>>} /\ OldImages \subseteq Images
  BY UpdateAssumption
<1>2. Piece \in Nat /\ Default \in Params
  BY UpdateAssumption
<1>3. ASSUME NEW img \in Images
      PROVE  img \in Seq(Data) /\ Len(img) \in Nat /\ img # <<>>
  <2>1. img \in Seq(Data) /\ img # <<>>
    BY <1>1
  <2> QED BY <2>1, LenProperties
<1> QED BY <1>1, <1>2, <1>3

\* However a request is judged, it sets up the session of a file.
LEMMA RequestSetsUp ==
  ASSUME RequestOldVersion \/ RequestTooLong \/ Request
  PROVE  \E img \in Images, reply \in {"ok", "version_err", "total_err"} :
           RequestFrame(img, reply)
<1>1. CASE RequestOldVersion
  <2>1. PICK img \in OldImages : RequestFrame(img, "version_err")
    BY <1>1 DEF RequestOldVersion
  <2> QED BY <2>1, Sizes
<1>2. CASE RequestTooLong
  BY <1>2 DEF RequestTooLong
<1>3. CASE Request
  BY <1>3 DEF Request
<1> QED BY <1>1, <1>2, <1>3

\* A step keeps the types of the control variables.
LEMMA ControlStep == ASSUME ControlTypes, [Next]_vars PROVE ControlTypes'
<1> USE DEF ControlTypes, transfer, seen
<1>1. CASE Restart
  BY <1>1 DEF Restart, Reset
<1>2. CASE PowerLost
  BY <1>2 DEF PowerLost, Reset
<1>3. CASE Bootloader
  BY <1>3 DEF Bootloader
<1>4. CASE Start
  BY <1>4 DEF Start
<1>5. CASE IllegalFrame \/ ConfigFrame
  BY <1>5 DEF IllegalFrame, ConfigFrame
<1>6. CASE RequestOldVersion \/ RequestTooLong \/ Request
  <2>1. PICK img \in Images, reply \in {"ok", "version_err", "total_err"} :
          RequestFrame(img, reply)
    BY <1>6, RequestSetsUp
  <2>2. Len(img) \in Nat
    BY Sizes
  <2> QED BY <2>1, <2>2 DEF RequestFrame
<1>7. CASE CodeRejected \/ CodeRepeated
  BY <1>7 DEF CodeRejected, CodeRepeated
<1>8. CASE CodeNext
  <2>1. CASE CodeDropped
    BY <1>8, <2>1 DEF CodeNext, CodeDropped
  <2>2. CASE \E d \in Data : CodePiece(d)
    <3>1. current_store_addr' \in Nat /\ current_piece' \in Nat
      BY <2>2, Sizes DEF CodePiece
    <3>2. write_flash_ok' \subseteq Nat
      BY <2>2 DEF CodePiece
    <3> QED BY <1>8, <3>1, <3>2 DEF CodeNext
  <2> QED BY <1>8, <2>1, <2>2 DEF CodeNext
<1>9. CASE CodeLast
  <2>1. pc' \in {"receive", "info"}
    BY <1>9 DEF CodeLast, CodeFrame
  <2> QED BY <1>9, <2>1 DEF CodeLast
<1>10. CASE write_image_info_to_flash
  BY <1>10 DEF write_image_info_to_flash, Completion
<1>11. CASE WriteLastPiece
  BY <1>11, Sizes DEF WriteLastPiece, Completion
<1>12. CASE EraseBootInfo \/ WriteRebootFlag \/ WriteBootLen
  BY <1>12 DEF EraseBootInfo, WriteRebootFlag, WriteBootLen, Completion
<1>13. CASE UNCHANGED vars
  BY <1>13 DEF vars
<1> QED
  BY <1>1, <1>2, <1>3, <1>4, <1>5, <1>6, <1>7, <1>8, <1>9, <1>10, <1>11, <1>12, <1>13
  DEF Next

\* A step keeps recv_updata_req and legal Booleans.
LEMMA OpenedStep == ASSUME Opened, [Next]_vars PROVE Opened'
<1> USE Zenon DEF Opened, transfer
<1>1. CASE Restart
  BY <1>1 DEF Restart, Reset
<1>2. CASE PowerLost
  BY <1>2 DEF PowerLost, Reset
<1>3. CASE Bootloader \/ Start \/ IllegalFrame \/ ConfigFrame
  BY <1>3 DEF Bootloader, Start, IllegalFrame, ConfigFrame
<1>4. CASE RequestOldVersion \/ RequestTooLong \/ Request
  BY <1>4 DEF RequestOldVersion, RequestTooLong, Request, RequestFrame
<1>5. CASE CodeRejected \/ CodeRepeated \/ CodeNext
  BY <1>5 DEF CodeRejected, CodeRepeated, CodeNext
<1>6. CASE CodeLast
  BY <1>6 DEF CodeLast
<1>7. CASE write_image_info_to_flash \/ WriteLastPiece \/ EraseBootInfo
           \/ WriteRebootFlag \/ WriteBootLen
  BY <1>7 DEF write_image_info_to_flash, WriteLastPiece, EraseBootInfo,
              WriteRebootFlag, WriteBootLen, Completion
<1>8. CASE UNCHANGED vars
  BY <1>8 DEF vars
<1> QED
  BY <1>1, <1>2, <1>3, <1>4, <1>5, <1>6, <1>7, <1>8 DEF Next

\* A step keeps the types of what is stored.
LEMMA ContentStep == ASSUME ContentTypes, [Next]_vars PROVE ContentTypes'
<1> USE Sizes, FlashCells DEF ContentTypes, transfer, seen, config
<1>0. <<>> \in Seq(Data)
  OBVIOUS
<1>1. CASE Restart
  BY <1>0, <1>1 DEF Restart, Reset
<1>2. CASE PowerLost
  BY <1>0, <1>2 DEF PowerLost, Reset
<1>3. CASE Bootloader
  BY <1>3 DEF Bootloader
<1>4. CASE Start
  BY <1>4 DEF Start
<1>5. CASE IllegalFrame \/ ConfigFrame
  BY <1>5 DEF IllegalFrame, ConfigFrame
<1>6. CASE RequestOldVersion \/ RequestTooLong \/ Request
  BY <1>0, <1>6 DEF RequestOldVersion, RequestTooLong, Request, RequestFrame
<1>7. CASE CodeRejected \/ CodeRepeated
  BY <1>7 DEF CodeRejected, CodeRepeated
<1>8. CASE CodeNext
  <2>1. CASE CodeDropped
    BY <1>8, <2>1 DEF CodeNext, CodeDropped
  <2>2. CASE \E d \in Data : CodePiece(d)
    <3>1. file_crc' \in Seq(Data)
      BY <2>2 DEF CodePiece
    <3>2. DOMAIN flash' = Cells
      BY <2>2 DEF CodePiece
    <3> QED BY <1>8, <3>1, <3>2 DEF CodeNext
  <2> QED BY <1>8, <2>1, <2>2 DEF CodeNext
<1>9. CASE CodeLast
  BY <1>9 DEF CodeLast
<1>10. CASE write_image_info_to_flash \/ WriteLastPiece \/ EraseBootInfo
            \/ WriteRebootFlag \/ WriteBootLen
  BY <1>10 DEF write_image_info_to_flash, WriteLastPiece, EraseBootInfo,
               WriteRebootFlag, WriteBootLen, Completion
<1>11. CASE UNCHANGED vars
  BY <1>11 DEF vars
<1> QED
  BY <1>1, <1>2, <1>3, <1>4, <1>5, <1>6, <1>7, <1>8, <1>9, <1>10, <1>11 DEF Next

\* The mishaps are those that have a name.
LEMMA MishapStep == ASSUME Mishaps, [Next]_vars PROVE Mishaps'
<1>1. PieceMishap \subseteq {"power", "overrun"}
  BY DEF Mishaps, PieceMishap
<1>2. mishap' \in {mishap, {}, PieceMishap, mishap \cup {"power"}}
  <2> USE DEF seen, config
  <2>1. CASE Restart \/ PowerLost \/ Bootloader \/ Start
    BY <2>1 DEF Restart, PowerLost, Bootloader, Start
  <2>2. CASE IllegalFrame \/ ConfigFrame
    BY <2>2 DEF IllegalFrame, ConfigFrame
  <2>3. CASE RequestOldVersion \/ RequestTooLong \/ Request
    BY <2>3, RequestSetsUp DEF RequestFrame
  <2>4. CASE CodeRejected \/ CodeRepeated \/ CodeNext \/ CodeLast
    BY <2>4 DEF CodeRejected, CodeRepeated, CodeNext, CodeLast, CodeDropped, CodePiece
  <2>5. CASE write_image_info_to_flash \/ WriteLastPiece \/ EraseBootInfo
             \/ WriteRebootFlag \/ WriteBootLen
    BY <2>5 DEF write_image_info_to_flash, WriteLastPiece, EraseBootInfo,
                WriteRebootFlag, WriteBootLen
  <2>6. CASE UNCHANGED vars
    BY <2>6 DEF vars
  <2> QED BY <2>1, <2>2, <2>3, <2>4, <2>5, <2>6 DEF Next
<1> QED BY <1>1, <1>2 DEF Mishaps

\* A step keeps the order of confirming and writing.
LEMMA SessionStep == ASSUME ControlTypes, Session, [Next]_vars PROVE Session'
<1> USE DEF ControlTypes, Session, transfer, seen
<1>1. CASE Restart
  BY <1>1 DEF Restart, Reset
<1>2. CASE PowerLost
  BY <1>2 DEF PowerLost, Reset
<1>3. CASE Bootloader
  BY <1>3 DEF Bootloader
<1>4. CASE Start
  BY <1>4 DEF Start
<1>5. CASE IllegalFrame \/ ConfigFrame
  <2>1. UNCHANGED <<recv_updata_req, current_piece, write_flash_ok, acked>>
    BY <1>5 DEF IllegalFrame, ConfigFrame
  <2> QED BY <2>1
<1>6. CASE RequestOldVersion \/ RequestTooLong \/ Request
  <2>1. current_piece' = 1 /\ write_flash_ok' = {0} /\ acked' = {}
    BY <1>6, RequestSetsUp DEF RequestFrame
  <2>2. 0 .. 1 - 1 = {0}
    OBVIOUS
  <2> QED BY <2>1, <2>2
<1>7. CASE CodeRejected
  BY <1>7 DEF CodeRejected
<1>8. CASE CodeRepeated
  BY <1>8 DEF CodeRepeated, CodeFrame
<1>9. CASE CodeNext
  <2>1. /\ recv_updata_req /\ UNCHANGED recv_updata_req
        /\ acked' = acked \cup {current_piece}
    BY <1>9 DEF CodeNext, CodeFrame
  <2>2. acked' \subseteq 0 .. current_piece
    BY <2>1
  <2>3. CASE CodeDropped
    BY <2>1, <2>2, <2>3 DEF CodeDropped
  <2>4. CASE \E d \in Data : CodePiece(d)
    <3>1. /\ current_piece' = current_piece + 1
          /\ write_flash_ok' = write_flash_ok \cup {current_piece}
      BY <2>4 DEF CodePiece
    <3>2. write_flash_ok' = 0 .. current_piece' - 1
      BY <2>1, <3>1
    <3>3. acked' \subseteq 0 .. current_piece'
      BY <2>2, <3>1
    <3> QED BY <2>1, <3>1, <3>2, <3>3
  <2> QED BY <1>9, <2>3, <2>4 DEF CodeNext
<1>10. CASE CodeLast
  BY <1>10 DEF CodeLast, CodeFrame
<1>11. CASE write_image_info_to_flash \/ WriteLastPiece \/ EraseBootInfo
            \/ WriteRebootFlag \/ WriteBootLen
  <2>1. UNCHANGED <<recv_updata_req, current_piece, write_flash_ok, acked>>
    BY <1>11 DEF write_image_info_to_flash, WriteLastPiece, EraseBootInfo,
                 WriteRebootFlag, WriteBootLen, Completion
  <2> QED BY <2>1
<1>12. CASE UNCHANGED vars
  BY <1>12 DEF vars
<1> QED
  BY <1>1, <1>2, <1>3, <1>4, <1>5, <1>6, <1>7, <1>8, <1>9, <1>10, <1>11, <1>12
  DEF Next

Inductive == ControlTypes /\ Opened /\ ContentTypes /\ Mishaps /\ Session

\* Together they are an invariant of every behaviour of the update.
LEMMA InductiveAlways == Spec => []Inductive
<1>1. Init => Inductive
  <2> SUFFICES ASSUME Init PROVE Inductive
    OBVIOUS
  <2> USE DEF Init, Statics
  <2>1. Opened
    BY Zenon DEF Opened
  <2>2. ControlTypes
    BY DEF ControlTypes
  <2>3. ContentTypes
    <3>1. <<>> \in Seq(Data)
      OBVIOUS
    <3> QED BY <3>1, Sizes DEF ContentTypes
  <2>4. Session
    BY DEF Session
  <2>5. Mishaps
    BY DEF Mishaps
  <2> QED BY <2>1, <2>2, <2>3, <2>4, <2>5 DEF Inductive
<1>2. Inductive /\ [Next]_vars => Inductive'
  BY ControlStep, OpenedStep, ContentStep, MishapStep, SessionStep DEF Inductive
<1> QED BY <1>1, <1>2, PTL DEF Spec

\* The variables of the update keep their types, for every file, every size of piece
\* and page, and whatever order of frames and losses of power.
THEOREM UpdateTypeCorrect == Spec => []TypeOK
<1>1. Inductive => TypeOK
  BY DEF Inductive, ControlTypes, Opened, ContentTypes, Mishaps, Session, TypeOK
<1> QED BY <1>1, InductiveAlways, PTL

\* A piece that parse_rx_update_code_pkt has confirmed and not written is the one it
\* expects next: an updater that goes on is refused, and the store has no hole.
THEOREM NoHoleLeft == Spec => []NoHole
<1>1. Inductive => NoHole
  BY DEF Inductive, ControlTypes, Session, NoHole
<1> QED BY <1>1, InductiveAlways, PTL

-------------------------------------------------------------------------------
(* Cells and pages.                                                        *)

LEMMA Places ==
  /\ Piece \in Nat \ {0} /\ Page \in Nat \ {0} /\ Piece <= Page /\ Page > 1
  /\ BootPage \in Nat \ {0} /\ SysPage \in Nat /\ InfoPage \in Nat
  /\ BootPage + 1 <= SysPage /\ SysPage + 1 <= InfoPage
BY UpdateAssumption

LEMMA TimesMonotone ==
  ASSUME NEW a \in Nat, NEW b \in Nat, NEW n \in Nat, a <= b
  PROVE  a * n <= b * n
<1>1. PICK d \in Nat : b = a + d
  <2>1. b - a \in Nat /\ b = a + (b - a)
    OBVIOUS
  <2> QED BY <2>1
<1>2. b * n = a * n + d * n
  BY <1>1
<1>3. d * n \in Nat /\ a * n \in Nat
  OBVIOUS
<1> QED BY <1>2, <1>3

\* The page of a cell.
LEMMA PageOf ==
  ASSUME NEW c \in Nat
  PROVE  /\ c \div Page \in Nat
         /\ (c \div Page) * Page <= c
         /\ c < (c \div Page) * Page + Page
         /\ (c \div Page + 1) * Page = (c \div Page) * Page + Page
BY Places

LEMMA PageBelow ==
  ASSUME NEW c \in Nat, NEW p \in Nat, c < p * Page
  PROVE  c \div Page < p
<1> SUFFICES ASSUME p <= c \div Page PROVE FALSE
  BY PageOf
<1>1. p * Page <= (c \div Page) * Page
  BY PageOf, TimesMonotone, Places
<1> QED BY <1>1, PageOf, Places

LEMMA PageFrom ==
  ASSUME NEW c \in Nat, NEW p \in Nat, p * Page <= c
  PROVE  p <= c \div Page
<1> SUFFICES ASSUME c \div Page + 1 <= p PROVE FALSE
  BY PageOf
<1>1. (c \div Page + 1) * Page <= p * Page
  BY PageOf, TimesMonotone, Places
<1> QED BY <1>1, PageOf, Places

LEMMA PageGrows ==
  ASSUME NEW c \in Nat, NEW d \in Nat, c <= d
  PROVE  c \div Page <= d \div Page
<1>1. (c \div Page) * Page <= d
  BY PageOf, Places
<1> QED BY <1>1, PageOf, PageFrom

\* Less than a page further on is the same page or the next one.
LEMMA PageNext ==
  ASSUME NEW c \in Nat, NEW d \in Nat, c <= d, d < c + Page
  PROVE  d \div Page = c \div Page \/ d \div Page = c \div Page + 1
<1> DEFINE p == c \div Page
<1>1. p \in Nat /\ d < p * Page + Page + Page
  BY PageOf, Places
<1>2. (p + 2) * Page = p * Page + Page + Page
  BY <1>1, Places
<1>3. d \div Page < p + 2
  BY <1>1, <1>2, PageBelow
<1>4. p <= d \div Page /\ d \div Page \in Nat
  BY PageGrows, PageOf
<1> QED BY <1>1, <1>3, <1>4

\* A cell at the beginning of a page.
LEMMA PageBegins ==
  ASSUME NEW c \in Nat
  PROVE  c % Page = 0 <=> c = (c \div Page) * Page
BY Places

LEMMA PageStart ==
  ASSUME NEW p \in Nat
  PROVE  /\ p * Page \in Nat
         /\ (p * Page) \div Page = p /\ (p * Page) % Page = 0
<1>1. p * Page \in Nat /\ p * Page < (p + 1) * Page
  BY Places
<1>2. (p * Page) \div Page = p
  BY <1>1, PageBelow, PageFrom, PageOf, SMTT(30)
<1> QED BY <1>1, <1>2, PageBegins

\* The place of the boot information and of the parameters.
LEMMA Addresses ==
  /\ BootAddr \in Nat /\ SysAddr \in Nat /\ InfoAddr \in Nat
  /\ BootAddr + Page <= SysAddr /\ SysAddr + Page <= InfoAddr
  /\ Cells = 0 .. InfoAddr + Page - 1
<1>1. (BootPage + 1) * Page = BootAddr + Page /\ (SysPage + 1) * Page = SysAddr + Page
      /\ (InfoPage + 1) * Page = InfoAddr + Page
  BY Places DEF BootAddr, SysAddr, InfoAddr
<1>2. (BootPage + 1) * Page <= SysAddr /\ (SysPage + 1) * Page <= InfoAddr
  BY Places, TimesMonotone DEF SysAddr, InfoAddr
<1> QED BY <1>1, <1>2, Places DEF BootAddr, SysAddr, InfoAddr, Cells

-------------------------------------------------------------------------------
(* What a write of the flash does.                                         *)

\* One word at the beginning of a page: the page is erased and nothing else.
LEMMA WordWritten ==
  ASSUME NEW f, NEW p \in Nat, NEW w, p * Page \in Cells
  PROVE  LET g == write_data_to_flash(f, p * Page, <<w>>)
             e == EraseFor(f, p * Page, 1)
         IN  /\ g[p * Page] = w
             /\ e[p * Page] = Blank
             /\ \A c \in Cells : c < p * Page => g[c] = f[c] /\ e[c] = f[c]
<1> DEFINE addr == p * Page
           g == write_data_to_flash(f, addr, <<w>>)
           e == EraseFor(f, addr, 1)
<1>1. addr \in Nat /\ addr \div Page = p /\ addr % Page = 0
  BY PageStart
<1>2. ErasedFor(addr, 1) = {p}
  BY <1>1 DEF ErasedFor
<1>3. Len(<<w>>) = 1 /\ DOMAIN <<w>> = {1} /\ <<w>>[1] = w
  OBVIOUS
<1>4. e[addr] = Blank
  BY <1>1, <1>2 DEF EraseFor
<1>5. ASSUME NEW c \in Cells, c < addr PROVE e[c] = f[c]
  <2>1. c \in Nat /\ c \div Page < p
    BY <1>5, PageBelow, Addresses
  <2> QED BY <1>2, <2>1 DEF EraseFor
<1>6. g = [c \in Cells |-> IF c - addr + 1 \in {1}
                           THEN IF e[c] = Blank THEN <<w>>[c - addr + 1] ELSE Mixed
                           ELSE e[c]]
  BY <1>3 DEF write_data_to_flash, Program
<1>7. g[addr] = w
  BY <1>1, <1>3, <1>4, <1>6
<1>8. ASSUME NEW c \in Cells, c < addr PROVE g[c] = f[c]
  <2>1. c \in Int /\ c - addr + 1 # 1
    BY <1>1, <1>8, Addresses
  <2> QED BY <1>5, <1>6, <1>8, <2>1
<1> QED BY <1>4, <1>5, <1>7, <1>8

\* From addr on the rest of the page is blank, if it is not erased anyway.
Clean(f, addr) ==
  addr % Page # 0 =>
    \A c \in Cells : addr <= c /\ c \div Page = addr \div Page => f[c] = Blank

LEMMA CodeWords ==
  ASSUME NEW d
  PROVE  /\ Len(Code(d)) = Piece /\ DOMAIN Code(d) = 1 .. Piece
         /\ \A k \in 1 .. Piece : Code(d)[k] = Word("code", <<d>>, k)
BY Places DEF Code

\* What write_data_to_flash erases for a piece: it reaches blank cells, and none
\* outside of its pages.
LEMMA PieceErased ==
  ASSUME NEW f, NEW addr \in Nat, addr + Piece <= BootAddr, Clean(f, addr)
  PROVE  LET e == EraseFor(f, addr, Piece)
         IN  /\ \A c \in Cells : addr <= c /\ c < addr + Piece => e[c] = Blank
             /\ \A c \in Cells : c < addr => e[c] = f[c]
             /\ \A c \in Cells : c >= BootAddr => e[c] = f[c]
             /\ Clean(e, addr + Piece)
<1> DEFINE e == EraseFor(f, addr, Piece)
           p == addr \div Page
           last == addr + Piece - 1
<1>1. /\ addr \in Nat /\ p \in Nat /\ last \in Nat /\ addr <= last /\ last < addr + Page
      /\ last < BootAddr
  BY PageOf, Places, Addresses
<1>2. last \div Page = p \/ last \div Page = p + 1
  BY <1>1, PageNext
<1>3. ErasedFor(addr, Piece) = {q \in {p} : addr % Page = 0}
                                 \cup {q \in {p + 1} : last \div Page > p}
  BY DEF ErasedFor
<1>4. \A c \in Cells : e[c] = IF c \div Page \in ErasedFor(addr, Piece) THEN Blank ELSE f[c]
  BY DEF EraseFor
<1>5. \A c \in Cells : c \in Nat
  BY Addresses
\* The cells of the piece.
<1>6. ASSUME NEW c \in Cells, addr <= c, c < addr + Piece PROVE e[c] = Blank
  <2>0. c \in Nat /\ c < addr + Page
    BY <1>1, <1>5, <1>6, Places
  <2>1. c \div Page = p \/ c \div Page = p + 1
    BY <1>6, <2>0, PageNext
  <2>2. CASE c \div Page = p
    BY <1>3, <1>4, <1>6, <2>2 DEF Clean
  <2>3. CASE c \div Page = p + 1
    <3>1. c <= last
      BY <1>1, <1>5, <1>6, Places
    <3>2. c \div Page <= last \div Page
      BY <1>1, <1>5, <3>1, PageGrows
    <3> QED BY <1>1, <1>2, <1>3, <1>4, <2>3, <3>2
  <2> QED BY <2>1, <2>2, <2>3
\* The cells before it.
<1>7. ASSUME NEW c \in Cells, c < addr PROVE e[c] = f[c]
  <2>1. c \div Page \in Nat /\ c \div Page <= p
    BY <1>1, <1>5, <1>7, PageGrows, PageOf
  <2>2. addr % Page = 0 => c \div Page < p
    BY <1>1, <1>5, <1>7, PageBegins, PageBelow
  <2> QED BY <1>1, <1>3, <1>4, <2>1, <2>2
\* The cells from the boot information on.
<1>8. ASSUME NEW c \in Cells, c >= BootAddr PROVE e[c] = f[c]
  <2>1. c \div Page \in Nat /\ BootPage <= c \div Page
    BY <1>5, <1>8, PageFrom, PageOf, Places DEF BootAddr
  <2>2. last \div Page < BootPage /\ last \div Page \in Nat
    BY <1>1, PageBelow, PageOf, Places DEF BootAddr
  <2>3. p <= last \div Page
    BY <1>1, PageGrows
  <2> QED BY <1>1, <1>2, <1>3, <1>4, <2>1, <2>2, <2>3, Places
\* The rest of the last page.
<1>9. Clean(e, addr + Piece)
  <2> SUFFICES ASSUME (addr + Piece) % Page # 0, NEW c \in Cells, addr + Piece <= c,
                      c \div Page = (addr + Piece) \div Page
               PROVE  e[c] = Blank
    BY DEF Clean
  <2> DEFINE next == addr + Piece
             q == next \div Page
  <2>1. next \in Nat /\ q \in Nat /\ next # q * Page /\ q * Page <= next /\ next = last + 1
    BY <1>1, PageBegins, PageOf, Places
  <2>2. q * Page <= last
    BY <1>1, <2>1, Places
  <2>3. q <= last \div Page /\ last \div Page <= q
    BY <1>1, <2>1, <2>2, PageFrom, PageGrows
  <2>4. last \div Page = q
    BY <1>1, <2>1, <2>3, PageOf
  <2>5. CASE q = p
    <3>1. addr <= c
      BY <1>1, <1>5, Places
    <3> QED BY <1>3, <1>4, <2>5, <3>1 DEF Clean
  <2>6. CASE q = p + 1
    BY <1>1, <1>3, <1>4, <2>4, <2>6
  <2> QED BY <1>2, <2>4, <2>5, <2>6
<1> QED BY <1>6, <1>7, <1>8, <1>9

\* A piece is found as it was written; the pieces before it and what lies behind the
\* store are as before.
LEMMA PieceWritten ==
  ASSUME NEW f, NEW addr \in Nat, NEW d, addr + Piece <= BootAddr, Clean(f, addr)
  PROVE  LET g == write_data_to_flash(f, addr, Code(d))
         IN  /\ \A k \in 1 .. Piece : g[addr + k - 1] = Word("code", <<d>>, k)
             /\ \A c \in Cells : c < addr \/ c >= BootAddr => g[c] = f[c]
             /\ Clean(g, addr + Piece)
<1> DEFINE e == EraseFor(f, addr, Piece)
           g == write_data_to_flash(f, addr, Code(d))
<1>1. g = [c \in Cells |->
             IF c - addr + 1 \in 1 .. Piece
             THEN IF e[c] = Blank THEN Code(d)[c - addr + 1] ELSE Mixed
             ELSE e[c]]
  BY CodeWords DEF write_data_to_flash, Program
<1>2. Piece \in Nat /\ BootAddr \in Nat /\ Cells \subseteq Nat
      /\ 0 .. BootAddr - 1 \subseteq Cells
  BY Places, Addresses
<1>3. ASSUME NEW k \in 1 .. Piece PROVE g[addr + k - 1] = Word("code", <<d>>, k)
  <2>1. addr + k - 1 \in Cells /\ addr <= addr + k - 1 /\ addr + k - 1 < addr + Piece
        /\ (addr + k - 1) - addr + 1 = k
    BY <1>2, <1>3
  <2>2. e[addr + k - 1] = Blank
    BY <2>1, PieceErased
  <2> QED BY <1>1, <2>1, <2>2, CodeWords
<1>4. ASSUME NEW c \in Cells, c < addr \/ c >= addr + Piece PROVE g[c] = e[c]
  <2>1. c - addr + 1 \notin 1 .. Piece
    BY <1>2, <1>4
  <2> QED BY <1>1, <2>1
<1>5. ASSUME NEW c \in Cells, c < addr \/ c >= BootAddr PROVE g[c] = f[c]
  <2>1. c < addr \/ c >= addr + Piece
    BY <1>2, <1>5
  <2>2. e[c] = f[c]
    BY <1>5, PieceErased
  <2> QED BY <1>4, <2>1, <2>2
<1>6. Clean(g, addr + Piece)
  <2>1. Clean(e, addr + Piece)
    BY PieceErased
  <2>2. \A c \in Cells : addr + Piece <= c => g[c] = e[c]
    BY <1>2, <1>4
  <2> QED BY <2>1, <2>2 DEF Clean
<1> QED BY <1>3, <1>5, <1>6

\* Wherever a piece is written, in a session that ends anywhere, no cell holds after
\* it what it did not hold before but part of a piece, a mixture or nothing.
LEMMA PieceAnywhere ==
  ASSUME NEW f, NEW addr \in Nat, NEW d, NEW c \in Cells
  PROVE  /\ EraseFor(f, addr, Piece)[c] \in {f[c], Blank}
         /\ \/ write_data_to_flash(f, addr, Code(d))[c] \in {f[c], Blank, Mixed}
            \/ write_data_to_flash(f, addr, Code(d))[c].what = "code"
<1> DEFINE e == EraseFor(f, addr, Piece)
           g == write_data_to_flash(f, addr, Code(d))
<1>1. e[c] \in {f[c], Blank}
  BY DEF EraseFor
<1>2. g = [x \in Cells |->
             IF x - addr + 1 \in 1 .. Piece
             THEN IF e[x] = Blank THEN Code(d)[x - addr + 1] ELSE Mixed
             ELSE e[x]]
  BY CodeWords DEF write_data_to_flash, Program
<1>3. CASE c - addr + 1 \in 1 .. Piece
  <2>1. Code(d)[c - addr + 1].what = "code"
    <3>1. Code(d)[c - addr + 1] = Word("code", <<d>>, c - addr + 1)
      BY <1>3, CodeWords
    <3> QED BY <3>1 DEF Word
  <2> HIDE DEF e, g
  <2>2. g[c] = Mixed \/ g[c].what = "code"
    BY <1>2, <1>3, <2>1
  <2> QED BY <1>1, <2>2 DEF e, g
<1>4. CASE c - addr + 1 \notin 1 .. Piece
  BY <1>1, <1>2, <1>4
<1> QED BY <1>1, <1>3, <1>4

\* A piece that lies on other pages than the parameters leaves them.
LEMMA PieceElsewhere ==
  ASSUME NEW f, NEW addr \in Nat, NEW d,
         SysPage \notin addr \div Page .. (addr + Piece - 1) \div Page
  PROVE  /\ EraseFor(f, addr, Piece)[SysAddr] = f[SysAddr]
         /\ write_data_to_flash(f, addr, Code(d))[SysAddr] = f[SysAddr]
<1> DEFINE e == EraseFor(f, addr, Piece)
           g == write_data_to_flash(f, addr, Code(d))
           p == addr \div Page
           last == addr + Piece - 1
<1>1. last \in Nat /\ addr <= last /\ last < addr + Page
  BY Places
<1>2. p \in Nat /\ last \div Page \in Nat /\ p <= last \div Page
      /\ last \div Page \in {p, p + 1}
  BY <1>1, PageOf, PageGrows, PageNext
<1>3. SysAddr \in Cells /\ SysAddr \in Nat /\ SysAddr \div Page = SysPage /\ SysPage \in Nat
  BY Addresses, Places, PageStart DEF SysAddr
<1>4. ErasedFor(addr, Piece) = {q \in {p} : addr % Page = 0}
                                 \cup {q \in {p + 1} : last \div Page > p}
  BY DEF ErasedFor
<1>5. SysPage \notin ErasedFor(addr, Piece)
  <2>1. SysPage \notin p .. last \div Page
    OBVIOUS
  <2> HIDE DEF p, last
  <2> QED BY <1>2, <1>3, <1>4, <2>1
<1>6. e[SysAddr] = f[SysAddr]
  BY <1>3, <1>5 DEF EraseFor
<1>7. SysAddr < addr \/ last < SysAddr
  <2> SUFFICES ASSUME addr <= SysAddr, SysAddr <= last PROVE FALSE
    BY <1>1, <1>3
  <2>1. p <= SysPage /\ SysPage <= last \div Page
    BY <1>1, <1>3, PageGrows
  <2>2. SysPage \notin p .. last \div Page
    OBVIOUS
  <2> HIDE DEF p, last
  <2> QED BY <1>2, <1>3, <2>1, <2>2
<1>8. SysAddr - addr + 1 \notin 1 .. Piece
  BY <1>3, <1>7, Places
<1>9. g[SysAddr] = e[SysAddr]
  BY <1>3, <1>8, CodeWords DEF write_data_to_flash, Program
<1> QED BY <1>6, <1>9

\* The page of the boot information is erased and written word by word.
LEMMA BootErased ==
  ASSUME NEW f
  PROVE  LET g == Erase(f, BootPage)
         IN  /\ g[BootAddr] = Blank /\ g[BootAddr + 1] = Blank /\ g[SysAddr] = f[SysAddr]
             /\ \A c \in Cells : c < BootAddr => g[c] = f[c]
<1> DEFINE g == Erase(f, BootPage)
<1>1. \A c \in Cells : g[c] = IF c \div Page = BootPage THEN Blank ELSE f[c]
  BY DEF Erase
<1>2. {BootAddr, BootAddr + 1, SysAddr} \subseteq Cells /\ Cells \subseteq Nat
  BY Addresses, Places
<1>3. BootAddr \div Page = BootPage /\ SysAddr \div Page = SysPage
  BY PageStart, Places DEF BootAddr, SysAddr
<1>4. (BootAddr + 1) \div Page = BootPage
  <2>1. (BootPage + 1) * Page = BootAddr + Page
    BY Places DEF BootAddr
  <2> DEFINE next == BootAddr + 1
  <2>2. next \in Nat /\ BootPage + 1 \in Nat /\ next < (BootPage + 1) * Page
        /\ BootPage \in Nat /\ BootPage * Page <= next
    BY <1>2, <2>1, Places DEF BootAddr
  <2> HIDE DEF next
  <2>3. next \div Page < BootPage + 1 /\ BootPage <= next \div Page
    BY <2>2, PageBelow, PageFrom
  <2>4. next \div Page \in Nat
    BY <2>2, PageOf
  <2>5. next \div Page = BootPage
    BY <2>2, <2>3, <2>4
  <2> QED BY <2>5 DEF next
<1>5. ASSUME NEW c \in Cells, c < BootAddr PROVE g[c] = f[c]
  <2>1. c \div Page < BootPage /\ c \div Page \in Nat
    BY <1>2, <1>5, PageBelow, PageOf, Places DEF BootAddr
  <2> QED BY <1>1, <2>1, Places
<1>6. SysPage # BootPage
  BY Places
<1> QED BY <1>1, <1>2, <1>3, <1>4, <1>5, <1>6

LEMMA BootProgrammed ==
  ASSUME NEW f, NEW addr \in Cells, NEW w, f[addr] = Blank
  PROVE  LET g == Program(f, addr, <<w>>)
         IN  g[addr] = w /\ \A c \in Cells : c # addr => g[c] = f[c]
<1>1. Cells \subseteq Int /\ DOMAIN <<w>> = {1} /\ <<w>>[1] = w
  BY Addresses
<1>2. \A c \in Cells : c - addr + 1 = 1 <=> c = addr
  BY <1>1
<1> QED BY <1>1, <1>2 DEF Program

-------------------------------------------------------------------------------
(* The invariant.                                                          *)

Completing == {"info", "piece", "erase", "flag", "len", "reset"}
LastWritten == {"erase", "flag", "len", "reset"}

\* Pieces in the store.
Written == IF pc \in LastWritten THEN current_piece ELSE current_piece - 1

\* The check sum is of the pieces before the one expected; a completion that is legal
\* is of a file that was accepted and ends before the boot information.
Room ==
  /\ pc \in {"boot", "start"} => ~recv_updata_req
  /\ pc \in Completing =>
       /\ recv_updata_req
       /\ current_piece = total_segments /\ file_crc = recv_file_crc
       /\ code = file_crc[current_piece]
       /\ legal => answer = "ok" /\ total_segments * Piece <= BootAddr
  /\ recv_updata_req =>
       /\ recv_file_crc \in Images /\ total_segments = Len(recv_file_crc)
       /\ current_piece \in 1 .. total_segments
       /\ Len(file_crc) = IF pc \in Completing THEN current_piece ELSE current_piece - 1
       /\ current_store_addr = Written * Piece

\* The words of the boot information, step by step.
BootWords ==
  /\ pc \notin {"flag", "len", "reset", "boot"} => flash[BootAddr] # Flag
  /\ pc = "flag" => flash[BootAddr] = Blank /\ flash[BootAddr + 1] = Blank
  /\ pc = "len" => flash[BootAddr] = Flag /\ flash[BootAddr + 1] = Blank
  /\ pc = "reset" => flash[BootAddr] = Flag /\ flash[BootAddr + 1] = Len96(total_segments)

HasPieces(f, sum, n) ==
  \A i \in 1 .. n, k \in 1 .. Piece :
    f[(i - 1) * Piece + k - 1] = Word("code", <<sum[i]>>, k)

\* The pieces in the store, as far as they end before the boot information.
Summed ==
  recv_updata_req /\ current_store_addr <= BootAddr =>
    /\ HasPieces(flash, file_crc, Written)
    /\ pc \notin LastWritten => Clean(flash, current_store_addr)

StoreInv == Room /\ BootWords /\ ParamsKept /\ Summed

\* A word of a kind is not one of another kind.
LEMMA Kinds ==
  /\ Blank # Flag /\ Mixed # Flag /\ Flag.what # "code"
  /\ \A n : Len96(n) # Blank /\ Len96(n).of[1] = n
  /\ \A v : Sys(v).what = "params" /\ Sys(v) # Blank
  /\ Blank.what # "params"
  /\ \A d, k : Word("code", <<d>>, k) # Blank /\ Word("code", <<d>>, k) # Flag
BY DEF Blank, Flag, Mixed, Len96, Sys, Word

LEMMA NoFlagWritten ==
  ASSUME NEW f, NEW addr \in Nat, NEW d, NEW c \in Cells, f[c] # Flag
  PROVE  /\ EraseFor(f, addr, Piece)[c] # Flag
         /\ write_data_to_flash(f, addr, Code(d))[c] # Flag
<1> DEFINE e == EraseFor(f, addr, Piece)[c]
           g == write_data_to_flash(f, addr, Code(d))[c]
<1>1. e \in {f[c], Blank} /\ (g \in {f[c], Blank, Mixed} \/ g.what = "code")
  BY PieceAnywhere
<1> HIDE DEF e, g
<1>2. e # Flag
  BY <1>1, Kinds
<1>3. g # Flag
  BY <1>1, Kinds
<1> QED BY <1>2, <1>3 DEF e, g

\* The cells of a piece lie below those of the next one, and of the boot information.
LEMMA PieceCells ==
  ASSUME NEW n \in Nat, NEW i \in 1 .. n, NEW k \in 1 .. Piece
  PROVE  /\ (i - 1) * Piece + k - 1 \in Nat
         /\ (i - 1) * Piece + k - 1 < n * Piece
<1>1. i \in Nat /\ i - 1 \in Nat /\ i <= n
  OBVIOUS
<1>2. i * Piece <= n * Piece
  BY <1>1, TimesMonotone, Places
<1>3. (i - 1) * Piece + Piece = i * Piece /\ (i - 1) * Piece \in Nat /\ n * Piece \in Nat
  BY <1>1, Places
<1> QED BY <1>2, <1>3, Places

LEMMA StoreInit == Init => StoreInv
<1> SUFFICES ASSUME Init PROVE StoreInv
  OBVIOUS
<1> USE DEF Init, Statics
<1>1. Room
  BY DEF Room, Completing
<1>2. SysAddr \in Cells /\ BootAddr \in Cells /\ BootAddr # SysAddr
  BY Addresses, Places
<1>3. BootWords
  BY <1>2, Kinds DEF BootWords
<1>4. ParamsKept
  BY <1>2 DEF ParamsKept
<1>5. Summed
  BY DEF Summed
<1> QED BY <1>1, <1>3, <1>4, <1>5 DEF StoreInv

\* The place of the piece that is expected.
LEMMA RoomForPiece ==
  ASSUME Inductive, Room, recv_updata_req, pc \notin LastWritten
  PROVE  /\ current_piece \in Nat \ {0} /\ Written = current_piece - 1
         /\ current_store_addr \in Nat /\ current_store_addr = (current_piece - 1) * Piece
         /\ current_store_addr + Piece = current_piece * Piece
<1>1. /\ current_piece \in Nat /\ total_segments \in Nat /\ current_piece \in 1 .. total_segments
      /\ Written = current_piece - 1 /\ current_store_addr = (current_piece - 1) * Piece
  BY DEF Inductive, ControlTypes, Room, Written
<1>2. (current_piece - 1) * Piece + Piece = current_piece * Piece
      /\ (current_piece - 1) * Piece \in Nat
  BY <1>1, Places
<1> QED BY <1>1, <1>2, Places

\* How a session proceeds: what is expected, where it goes, what was summed.
LEMMA RoomStep == ASSUME Inductive, Room, [Next]_vars PROVE Room'
<1> USE DEF transfer, seen, Completing, LastWritten
<1>1. CASE Restart \/ PowerLost
  <2>1. pc' = "boot" /\ recv_updata_req' = FALSE
    BY <1>1 DEF Restart, PowerLost, Reset
  <2> QED BY <2>1 DEF Room
<1>2. CASE Bootloader \/ Start
  <2>1. pc' \in {"start", "receive"} /\ pc \in {"boot", "start"}
        /\ recv_updata_req' = recv_updata_req
    BY <1>2 DEF Bootloader, Start
  <2> QED BY <2>1 DEF Room
<1>3. CASE IllegalFrame \/ ConfigFrame \/ CodeRepeated
  <2>1. pc = "receive" /\ pc' \in {"receive", "halt"} /\ UNCHANGED <<transfer, code>>
    BY <1>3 DEF IllegalFrame, ConfigFrame, CodeRepeated, CodeFrame
  <2> QED BY <2>1 DEF Room, Written
<1>4. CASE RequestOldVersion \/ RequestTooLong \/ Request
  <2>1. PICK img \in Images, reply \in {"ok", "version_err", "total_err"} :
          RequestFrame(img, reply)
    BY <1>4, RequestSetsUp
  <2>2. Len(img) \in Nat /\ Len(img) # 0
    <3>1. img \in Seq(Data) /\ img # <<>>
      BY Sizes
    <3> QED BY <3>1, EmptySeq, LenProperties
  <2>3. /\ pc' = "receive" /\ recv_file_crc' = img /\ total_segments' = Len(img)
        /\ current_piece' = 1 /\ current_store_addr' = 0 /\ file_crc' = <<>>
    BY <2>1 DEF RequestFrame
  <2>4. (1 - 1) * Piece = 0 /\ Len(<<>>) = 0
    BY Places
  <2> QED BY <2>2, <2>3, <2>4 DEF Room, Written
<1>5. CASE CodeRejected
  <2>1. pc' = "receive" /\ recv_updata_req' = FALSE
    BY <1>5 DEF CodeRejected, CodeFrame
  <2> QED BY <2>1 DEF Room
<1>6. CASE CodeNext
  <2>1. /\ pc = "receive" /\ recv_updata_req /\ current_piece # total_segments
        /\ UNCHANGED <<pc, recv_updata_req, recv_file_crc, total_segments, code>>
    BY <1>6 DEF CodeNext, CodeFrame
  <2>2. CASE CodeDropped
    BY <2>1, <2>2 DEF CodeDropped, Room, Written
  <2>3. ASSUME NEW d \in Data, CodePiece(d) PROVE Room'
    <3>1. /\ current_piece \in Nat /\ total_segments \in Nat
          /\ file_crc \in Seq(Data) /\ current_piece \in 1 .. total_segments
          /\ Len(file_crc) = current_piece - 1
      BY <2>1 DEF Inductive, ControlTypes, ContentTypes, Room
    <3>2. /\ current_piece' = current_piece + 1 /\ file_crc' = Append(file_crc, d)
          /\ current_store_addr' = current_store_addr + Piece
      BY <2>3 DEF CodePiece
    <3>3. Len(file_crc') = current_piece' - 1 /\ current_piece' \in 1 .. total_segments
      BY <2>1, <3>1, <3>2
    <3>4. current_store_addr' = Written' * Piece
      BY <2>1, <3>1, <3>2, RoomForPiece DEF Written
    <3> QED BY <2>1, <3>3, <3>4 DEF Room
  <2> QED BY <1>6, <2>2, <2>3 DEF CodeNext
<1>7. CASE CodeLast
  <2>1. PICK d \in Data :
          /\ file_crc' = Append(file_crc, d)
          /\ IF Intact(file_crc')
             THEN /\ pc' = "info" /\ code' = d /\ recv_updata_req' = recv_updata_req
                  /\ legal' = (answer = "ok" /\ total_segments * Piece <= BootAddr)
             ELSE recv_updata_req' = FALSE /\ pc' = pc /\ code' = code
    BY <1>7 DEF CodeLast
  <2>2. /\ pc = "receive" /\ recv_updata_req /\ current_piece = total_segments
        /\ UNCHANGED <<recv_file_crc, current_piece, total_segments, current_store_addr,
                       answer>>
    BY <1>7 DEF CodeLast, CodeFrame
  <2>3. /\ current_piece \in Nat /\ file_crc \in Seq(Data)
        /\ Len(file_crc) = current_piece - 1
    BY <2>2 DEF Inductive, ControlTypes, ContentTypes, Room
  <2>4. Len(file_crc') = current_piece /\ file_crc'[current_piece] = d
    BY <2>1, <2>3
  <2>5. CASE Intact(file_crc')
    <3>1. pc' = "info" /\ code' = d /\ recv_updata_req' /\ file_crc' = recv_file_crc'
      BY <2>1, <2>2, <2>5 DEF Intact
    <3>2. legal' => answer' = "ok" /\ total_segments' * Piece <= BootAddr
      BY <2>1, <2>2, <2>5
    <3> QED BY <2>2, <2>4, <3>1, <3>2 DEF Room, Written
  <2>6. CASE ~Intact(file_crc')
    BY <2>1, <2>2, <2>6 DEF Room
  <2> QED BY <2>5, <2>6
<1>8. CASE \/ write_image_info_to_flash \/ EraseBootInfo \/ WriteRebootFlag \/ WriteBootLen
  <2>1. /\ pc \in Completing /\ pc' \in Completing
        /\ pc \in LastWritten <=> pc' \in LastWritten
        /\ UNCHANGED <<transfer, code, answer, legal>>
    BY <1>8 DEF write_image_info_to_flash, EraseBootInfo, WriteRebootFlag, WriteBootLen,
       Completion
  <2> QED BY <2>1 DEF Room, Written
<1>9. CASE WriteLastPiece
  <2>1. /\ pc = "piece" /\ pc' = "erase"
        /\ current_store_addr' = current_store_addr + Piece
        /\ UNCHANGED <<recv_updata_req, file_crc, recv_file_crc, current_piece,
                       total_segments, code, answer, legal>>
    BY <1>9 DEF WriteLastPiece, Completion
  <2>2. recv_updata_req
    BY <2>1 DEF Room
  <2>3. current_store_addr' = Written' * Piece
    BY <2>1, <2>2, RoomForPiece DEF Written
  <2> QED BY <2>1, <2>3 DEF Room
<1>10. CASE UNCHANGED vars
  BY <1>10 DEF vars, Room, Written
<1> QED
  BY <1>1, <1>2, <1>3, <1>4, <1>5, <1>6, <1>7, <1>8, <1>9, <1>10 DEF Next

LEMMA Marks ==
  /\ {BootAddr, BootAddr + 1, SysAddr} \subseteq Cells
  /\ 0 .. BootAddr - 1 \subseteq Cells
  /\ BootAddr + 1 < SysAddr /\ SysAddr < InfoAddr
BY Addresses, Places

\* Parameters and image information leave what lies before them.
LEMMA ParamsWritten ==
  ASSUME NEW f, NEW w
  PROVE  /\ write_data_to_flash(f, SysAddr, <<w>>)[SysAddr] = w
         /\ EraseFor(f, SysAddr, 1)[SysAddr] = Blank
         /\ \A c \in Cells : c < SysAddr =>
              /\ write_data_to_flash(f, SysAddr, <<w>>)[c] = f[c]
              /\ EraseFor(f, SysAddr, 1)[c] = f[c]
<1>1. SysPage \in Nat /\ SysPage * Page \in Cells
  BY Marks, Places DEF SysAddr
<1> QED BY <1>1, WordWritten DEF SysAddr

LEMMA InfoWritten ==
  ASSUME NEW f, NEW w
  PROVE  \A c \in Cells : c < InfoAddr => write_data_to_flash(f, InfoAddr, <<w>>)[c] = f[c]
<1>1. InfoPage \in Nat /\ InfoPage * Page \in Cells
  BY Addresses, Places DEF InfoAddr
<1> QED BY <1>1, WordWritten, SMTT(30) DEF InfoAddr

\* The steps that write nothing.
Unwritten ==
  /\ UNCHANGED flash
  /\ pc' = "boot" \/ pc' = pc \/ (pc = "receive" /\ pc' \in {"info", "halt"})
  /\ UNCHANGED config
  /\ UNCHANGED total_segments \/ pc' \in {"boot", "receive"}

LEMMA UnwrittenSteps ==
  ASSUME \/ Restart \/ IllegalFrame \/ RequestOldVersion \/ RequestTooLong \/ Request
         \/ CodeRejected \/ CodeRepeated \/ CodeLast \/ UNCHANGED vars
         \/ CodeNext /\ CodeDropped
  PROVE  Unwritten
<1> USE DEF Unwritten, transfer, seen, config
<1>1. CASE Restart
  BY <1>1 DEF Restart, Reset
<1>2. CASE IllegalFrame \/ CodeRejected \/ CodeRepeated
  BY <1>2 DEF IllegalFrame, CodeRejected, CodeRepeated
<1>3. CASE RequestOldVersion \/ RequestTooLong \/ Request
  BY <1>3, RequestSetsUp DEF RequestFrame
<1>4. CASE CodeLast
  BY <1>4 DEF CodeLast, CodeFrame
<1>5. CASE CodeNext /\ CodeDropped
  BY <1>5 DEF CodeNext, CodeDropped
<1>6. CASE UNCHANGED vars
  BY <1>6 DEF vars
<1> QED BY <1>1, <1>2, <1>3, <1>4, <1>5, <1>6

\* The steps that write a piece.
LEMMA PieceSteps ==
  ASSUME Inductive, StoreInv,
         \/ CodeNext /\ \E d \in Data : CodePiece(d)
         \/ WriteLastPiece
  PROVE  /\ recv_updata_req /\ pc \in {"receive", "piece"} /\ pc' \in {"receive", "erase"}
         /\ current_store_addr \in Nat /\ mishap' = PieceMishap /\ UNCHANGED params
         /\ \E d : flash' = write_data_to_flash(flash, current_store_addr, Code(d))
<1>1. current_store_addr \in Nat
  BY DEF Inductive, ControlTypes
<1>2. ASSUME CodeNext, NEW d \in Data, CodePiece(d)
      PROVE  /\ recv_updata_req /\ pc = "receive" /\ pc' = "receive"
             /\ mishap' = PieceMishap /\ UNCHANGED params
             /\ flash' = write_data_to_flash(flash, current_store_addr, Code(d))
  BY <1>2 DEF CodeNext, CodeFrame, CodePiece
<1>3. CASE WriteLastPiece
  <2>1. /\ pc = "piece" /\ pc' = "erase" /\ mishap' = PieceMishap /\ UNCHANGED params
        /\ flash' = write_data_to_flash(flash, current_store_addr, Code(code))
    BY <1>3 DEF WriteLastPiece, Completion
  <2>2. recv_updata_req
    BY <2>1 DEF StoreInv, Room, Completing
  <2> QED BY <1>1, <2>1, <2>2
<1> QED BY <1>1, <1>2, <1>3

\* The boot information is written by the completion and erased by the boot loader.
LEMMA BootWordsStep == ASSUME Inductive, StoreInv, [Next]_vars PROVE BootWords'
<1> USE Marks, Addresses
<1>0. BootWords
  BY DEF StoreInv
<1>1. CASE Unwritten
  BY <1>0, <1>1 DEF Unwritten, BootWords
<1>2. CASE PowerLost
  BY <1>2 DEF PowerLost, Reset, BootWords
<1>3. CASE Bootloader
  <2>1. pc' = "start" /\ flash' = IF flash[BootAddr] = Flag THEN Erase(flash, BootPage) ELSE flash
    BY <1>3 DEF Bootloader
  <2>2. flash'[BootAddr] # Flag
    BY <2>1, BootErased, Kinds
  <2> QED BY <2>1, <2>2 DEF BootWords
<1>4. CASE Start \/ ConfigFrame \/ write_image_info_to_flash
  <2>1. pc \in {"start", "receive", "info"} /\ pc' \in {"receive", "piece"}
    BY <1>4 DEF Start, ConfigFrame, write_image_info_to_flash, Completion
  <2>2. flash'[BootAddr] = flash[BootAddr]
    <3>1. CASE Start \/ ConfigFrame
      <4>1. flash' = flash \/ \E w : flash' = write_data_to_flash(flash, SysAddr, <<w>>)
        BY <3>1 DEF Start, ConfigFrame
      <4>2. BootAddr \in Cells /\ BootAddr < SysAddr
        OBVIOUS
      <4>3. ASSUME NEW w, flash' = write_data_to_flash(flash, SysAddr, <<w>>)
            PROVE  flash'[BootAddr] = flash[BootAddr]
        BY <4>2, <4>3, ParamsWritten
      <4> QED BY <4>1, <4>3
    <3>2. CASE write_image_info_to_flash
      <4>1. flash' = write_data_to_flash(flash, InfoAddr, <<Info(recv_file_crc)>>)
        BY <3>2 DEF write_image_info_to_flash
      <4> QED BY <4>1, InfoWritten
    <3> QED BY <1>4, <3>1, <3>2
  <2> QED BY <1>0, <2>1, <2>2 DEF BootWords
<1>5. CASE \/ CodeNext /\ \E d \in Data : CodePiece(d)
           \/ WriteLastPiece
  <2>1. /\ pc \in {"receive", "piece"} /\ pc' \in {"receive", "erase"}
        /\ current_store_addr \in Nat
    BY <1>5, PieceSteps
  <2>2. PICK d : flash' = write_data_to_flash(flash, current_store_addr, Code(d))
    BY <1>5, PieceSteps
  <2>3. flash[BootAddr] # Flag
    BY <1>0, <2>1 DEF BootWords
  <2>4. flash'[BootAddr] # Flag
    BY <2>1, <2>2, <2>3, NoFlagWritten
  <2> QED BY <2>1, <2>4 DEF BootWords
<1>6. CASE EraseBootInfo
  <2>1. pc' = "flag" /\ flash' = Erase(flash, BootPage)
    BY <1>6 DEF EraseBootInfo, Completion
  <2>2. flash'[BootAddr] = Blank /\ flash'[BootAddr + 1] = Blank
    BY <2>1, BootErased
  <2> QED BY <2>1, <2>2 DEF BootWords
<1>7. CASE WriteRebootFlag
  <2>1. pc = "flag" /\ pc' = "len" /\ flash' = Program(flash, BootAddr, <<Flag>>)
    BY <1>7 DEF WriteRebootFlag, Completion
  <2>2. flash[BootAddr] = Blank /\ flash[BootAddr + 1] = Blank
    BY <1>0, <2>1 DEF BootWords
  <2>3. flash'[BootAddr] = Flag /\ flash'[BootAddr + 1] = Blank
    BY <2>1, <2>2, BootProgrammed
  <2> QED BY <2>1, <2>3 DEF BootWords
<1>8. CASE WriteBootLen
  <2>1. /\ pc = "len" /\ pc' = "reset" /\ UNCHANGED total_segments
        /\ flash' = Program(flash, BootAddr + 1, <<Len96(total_segments)>>)
    BY <1>8 DEF WriteBootLen, Completion
  <2>2. flash[BootAddr] = Flag /\ flash[BootAddr + 1] = Blank
    BY <1>0, <2>1 DEF BootWords
  <2>3. flash'[BootAddr] = Flag /\ flash'[BootAddr + 1] = Len96(total_segments)
    BY <2>1, <2>2, BootProgrammed
  <2> QED BY <2>1, <2>3 DEF BootWords
<1> QED
  BY <1>1, <1>2, <1>3, <1>4, <1>5, <1>6, <1>7, <1>8, UnwrittenSteps DEF Next, CodeNext

\* Nothing but a new configuration touches the parameters, unless a mishap is noted.
LEMMA KeptStep == ASSUME Inductive, StoreInv, [Next]_vars PROVE ParamsKept'
<1> USE Marks, Addresses
<1>0. ParamsKept
  BY DEF StoreInv
\* It is enough that the parameters stay where they are.
<1>1. ASSUME mishap' = {} => mishap = {} /\ flash'[SysAddr] = flash[SysAddr],
             UNCHANGED params
      PROVE  ParamsKept'
  BY <1>0, <1>1 DEF ParamsKept
<1>2. CASE Unwritten
  BY <1>1, <1>2 DEF Unwritten, config
\* A piece, written or only erased for.
<1>3. ASSUME mishap' = PieceMishap, current_store_addr \in Nat,
             \/ flash' = EraseFor(flash, current_store_addr, Piece)
             \/ \E d : flash' = write_data_to_flash(flash, current_store_addr, Code(d))
      PROVE  mishap' = {} => mishap = {} /\ flash'[SysAddr] = flash[SysAddr]
  <2> SUFFICES ASSUME mishap' = {} PROVE mishap = {} /\ flash'[SysAddr] = flash[SysAddr]
    OBVIOUS
  <2>1. /\ mishap = {}
        /\ SysPage \notin current_store_addr \div Page
                            .. (current_store_addr + Piece - 1) \div Page
    BY <1>3 DEF PieceMishap
  <2>2. CASE flash' = EraseFor(flash, current_store_addr, Piece)
    BY <1>3, <2>1, <2>2, PieceElsewhere
  <2>3. ASSUME NEW d, flash' = write_data_to_flash(flash, current_store_addr, Code(d))
        PROVE  flash'[SysAddr] = flash[SysAddr]
    BY <1>3, <2>1, <2>3, PieceElsewhere
  <2> QED BY <1>3, <2>1, <2>2, <2>3
<1>4. CASE PowerLost
  <2>1. UNCHANGED params
    BY <1>4 DEF PowerLost, Reset
  <2>2. CASE mishap' = mishap \cup {"power"}
    BY <2>2 DEF ParamsKept
  <2>3. CASE /\ flash' = EraseFor(flash, current_store_addr, Piece)
             /\ mishap' = PieceMishap
    BY <1>1, <1>3, <2>1, <2>3 DEF Inductive, ControlTypes
  <2> QED BY <1>4, <2>2, <2>3 DEF PowerLost
<1>5. CASE Bootloader
  <2>1. /\ UNCHANGED config
        /\ flash' = IF flash[BootAddr] = Flag THEN Erase(flash, BootPage) ELSE flash
    BY <1>5 DEF Bootloader
  <2>2. flash'[SysAddr] = flash[SysAddr]
    BY <2>1, BootErased
  <2> QED BY <1>1, <2>1, <2>2 DEF config
<1>6. CASE Start
  <2>1. UNCHANGED config
    BY <1>6 DEF Start
  <2>2. CASE flash[SysAddr].what = "params"
    BY <1>1, <1>6, <2>1, <2>2 DEF Start, config
  <2>3. CASE mishap = {}
    <3>1. flash[SysAddr].what = "params"
      BY <1>0, <2>3, Kinds DEF ParamsKept
    <3> QED BY <2>2, <3>1
  <2>4. CASE mishap # {}
    BY <2>1, <2>4 DEF ParamsKept, config
  <2> QED BY <2>3, <2>4
<1>7. CASE ConfigFrame
  BY <1>7, ParamsWritten DEF ConfigFrame, ParamsKept
<1>8. CASE write_image_info_to_flash
  <2>1. UNCHANGED config /\ flash'[SysAddr] = flash[SysAddr]
    BY <1>8, InfoWritten DEF write_image_info_to_flash, Completion, config
  <2> QED BY <1>1, <2>1 DEF config
<1>9. CASE \/ CodeNext /\ \E d \in Data : CodePiece(d)
           \/ WriteLastPiece
  <2>1. /\ current_store_addr \in Nat /\ mishap' = PieceMishap /\ UNCHANGED params
        /\ \E d : flash' = write_data_to_flash(flash, current_store_addr, Code(d))
    BY <1>9, PieceSteps
  <2> QED BY <1>1, <1>3, <2>1
<1>10. CASE EraseBootInfo
  <2>1. UNCHANGED config /\ flash' = Erase(flash, BootPage)
    BY <1>10 DEF EraseBootInfo, Completion, config
  <2> QED BY <1>1, <2>1, BootErased DEF config
<1>11. CASE WriteRebootFlag
  <2>1. /\ pc = "flag" /\ UNCHANGED config /\ flash' = Program(flash, BootAddr, <<Flag>>)
    BY <1>11 DEF WriteRebootFlag, Completion, config
  <2>2. flash[BootAddr] = Blank
    BY <2>1 DEF StoreInv, BootWords
  <2>3. flash'[SysAddr] = flash[SysAddr]
    BY <2>1, <2>2, BootProgrammed
  <2> QED BY <1>1, <2>1, <2>3 DEF config
<1>12. CASE WriteBootLen
  <2>1. /\ pc = "len" /\ UNCHANGED config
        /\ flash' = Program(flash, BootAddr + 1, <<Len96(total_segments)>>)
    BY <1>12 DEF WriteBootLen, Completion, config
  <2>2. flash[BootAddr + 1] = Blank
    BY <2>1 DEF StoreInv, BootWords
  <2>3. flash'[SysAddr] = flash[SysAddr]
    BY <2>1, <2>2, BootProgrammed
  <2> QED BY <1>1, <2>1, <2>3 DEF config
<1> QED
  BY <1>2, <1>4, <1>5, <1>6, <1>7, <1>8, <1>9, <1>10, <1>11, <1>12, UnwrittenSteps
  DEF Next, CodeNext

\* The pieces in the store.
LEMMA PiecesStay ==
  ASSUME NEW n \in Nat, n * Piece <= BootAddr, NEW f, NEW g, NEW sum, NEW sum2,
         \A c \in Cells : c < BootAddr => g[c] = f[c],
         \A i \in 1 .. n : sum2[i] = sum[i], HasPieces(f, sum, n)
  PROVE  HasPieces(g, sum2, n)
<1> SUFFICES ASSUME NEW i \in 1 .. n, NEW k \in 1 .. Piece
             PROVE  g[(i - 1) * Piece + k - 1] = Word("code", <<sum2[i]>>, k)
  BY DEF HasPieces
<1> DEFINE c == (i - 1) * Piece + k - 1
<1>1. c \in Nat /\ c < n * Piece
  BY PieceCells
<1>2. c \in Cells /\ c < BootAddr
  <2>1. n * Piece \in Nat /\ BootAddr \in Nat
    BY Places, Addresses
  <2> QED BY <1>1, <2>1, Marks
<1> QED BY <1>2 DEF HasPieces

LEMMA PieceAdded ==
  ASSUME NEW n \in Nat, n * Piece + Piece <= BootAddr, NEW f, NEW g, NEW sum, NEW sum2,
         NEW d,
         \A c \in Cells : c < n * Piece => g[c] = f[c],
         \A k \in 1 .. Piece : g[n * Piece + k - 1] = Word("code", <<d>>, k),
         \A i \in 1 .. n : sum2[i] = sum[i], sum2[n + 1] = d, HasPieces(f, sum, n)
  PROVE  HasPieces(g, sum2, n + 1)
<1> SUFFICES ASSUME NEW i \in 1 .. n + 1, NEW k \in 1 .. Piece
             PROVE  g[(i - 1) * Piece + k - 1] = Word("code", <<sum2[i]>>, k)
  BY DEF HasPieces
<1>1. CASE i = n + 1
  BY <1>1
<1>2. CASE i \in 1 .. n
  <2> DEFINE c == (i - 1) * Piece + k - 1
  <2>1. c \in Nat /\ c < n * Piece
    BY <1>2, PieceCells
  <2>2. c \in Cells
    <3>1. n * Piece \in Nat /\ BootAddr \in Nat
      BY Places, Addresses
    <3>2. c < BootAddr
      BY <2>1, <3>1, Places
    <3> QED BY <2>1, <3>1, <3>2, Marks
  <2> QED BY <1>2, <2>1, <2>2 DEF HasPieces
<1> QED BY <1>1, <1>2

LEMMA CleanStays ==
  ASSUME NEW f, NEW g, NEW addr \in Nat, addr <= BootAddr, Clean(f, addr),
         \A c \in Cells : c < BootAddr => g[c] = f[c]
  PROVE  Clean(g, addr)
<1> SUFFICES ASSUME addr % Page # 0, NEW c \in Cells, addr <= c,
                    c \div Page = addr \div Page
             PROVE  g[c] = Blank
  BY DEF Clean
<1>0. c \in Nat /\ BootAddr \in Nat /\ addr < BootAddr
  <2>1. BootAddr % Page = 0
    BY PageStart, Places DEF BootAddr
  <2> QED BY <2>1, Addresses
<1>1. addr \div Page < BootPage /\ addr \div Page \in Nat
  BY <1>0, PageBelow, PageOf, Places DEF BootAddr
<1>2. c < BootAddr
  <2> SUFFICES ASSUME BootAddr <= c PROVE FALSE
    BY <1>0
  <2>1. BootPage <= c \div Page
    BY <1>0, PageFrom, Places DEF BootAddr
  <2> QED BY <1>1, <2>1, Places
<1> QED BY <1>2 DEF Clean

\* Nothing below the boot information is written but pieces.
LEMMA StoreStays ==
  ASSUME Inductive, StoreInv, Room', UNCHANGED <<file_crc, current_piece, current_store_addr>>,
         recv_updata_req, recv_updata_req', pc \in LastWritten <=> pc' \in LastWritten,
         \A c \in Cells : c < BootAddr => flash'[c] = flash[c]
  PROVE  Summed'
<1>1. Summed /\ Room
  BY DEF StoreInv
<1>2. SUFFICES ASSUME current_store_addr <= BootAddr
               PROVE  /\ HasPieces(flash', file_crc', Written')
                      /\ pc' \notin LastWritten => Clean(flash', current_store_addr')
  BY DEF Summed
<1>3. Written' = Written /\ Written \in Nat /\ Written * Piece <= BootAddr
  <2>1. /\ current_piece \in 1 .. total_segments /\ total_segments \in Nat
        /\ current_store_addr = Written * Piece
    BY <1>1 DEF Room, Inductive, ControlTypes
  <2>2. Written \in Nat /\ Written' = Written
    BY <2>1 DEF Written
  <2> QED BY <1>2, <2>1, <2>2
<1>4. HasPieces(flash', file_crc', Written')
  BY <1>1, <1>2, <1>3, PiecesStay DEF Summed
<1>5. ASSUME pc' \notin LastWritten PROVE Clean(flash', current_store_addr')
  <2>1. current_store_addr \in Nat
    BY DEF Inductive, ControlTypes
  <2>2. Clean(flash, current_store_addr)
    BY <1>1, <1>2, <1>5 DEF Summed
  <2> QED BY <1>2, <2>1, <2>2, CleanStays
<1> QED BY <1>4, <1>5

LEMMA SummedStep == ASSUME Inductive, StoreInv, Room', [Next]_vars PROVE Summed'
<1> USE Marks, Addresses DEF transfer, seen
<1>0. Summed /\ Room
  BY DEF StoreInv
<1>1. CASE ~recv_updata_req'
  BY <1>1 DEF Summed
<1>2. CASE RequestOldVersion \/ RequestTooLong \/ Request
  <2>1. /\ pc' = "receive" /\ current_piece' = 1 /\ current_store_addr' = 0
    BY <1>2, RequestSetsUp DEF RequestFrame
  <2>2. Written' = 0
    BY <2>1 DEF Written, LastWritten
  <2>3. 0 % Page = 0
    BY Places
  <2> QED BY <2>1, <2>2, <2>3 DEF Summed, HasPieces, Clean
<1>3. ASSUME recv_updata_req',
             \/ IllegalFrame \/ CodeRepeated \/ ConfigFrame \/ UNCHANGED vars
             \/ CodeNext /\ CodeDropped
             \/ write_image_info_to_flash \/ EraseBootInfo \/ WriteRebootFlag \/ WriteBootLen
      PROVE  Summed'
  <2>1. /\ UNCHANGED <<file_crc, current_piece, current_store_addr>> /\ recv_updata_req
        /\ pc \in LastWritten <=> pc' \in LastWritten
    BY <1>3 DEF IllegalFrame, CodeRepeated, CodeFrame, ConfigFrame, vars, CodeNext, CodeDropped,
       write_image_info_to_flash, EraseBootInfo, WriteRebootFlag, WriteBootLen, Completion,
       LastWritten
  <2>2. ASSUME NEW c \in Cells, c < BootAddr PROVE flash'[c] = flash[c]
    <3>1. CASE \/ IllegalFrame \/ CodeRepeated \/ UNCHANGED vars
               \/ CodeNext /\ CodeDropped
      BY <3>1 DEF IllegalFrame, CodeRepeated, vars, CodeNext, CodeDropped
    <3>2. CASE ConfigFrame
      BY <2>2, <3>2, ParamsWritten DEF ConfigFrame
    <3>3. CASE write_image_info_to_flash
      BY <2>2, <3>3, InfoWritten DEF write_image_info_to_flash
    <3>4. CASE EraseBootInfo
      BY <2>2, <3>4, BootErased DEF EraseBootInfo
    <3>5. CASE WriteRebootFlag
      <4>1. flash[BootAddr] = Blank /\ flash' = Program(flash, BootAddr, <<Flag>>)
        BY <3>5 DEF WriteRebootFlag, Completion, StoreInv, BootWords
      <4> QED BY <2>2, <4>1, BootProgrammed
    <3>6. CASE WriteBootLen
      <4>1. /\ flash[BootAddr + 1] = Blank
            /\ flash' = Program(flash, BootAddr + 1, <<Len96(total_segments)>>)
        BY <3>6 DEF WriteBootLen, Completion, StoreInv, BootWords
      <4> QED BY <2>2, <4>1, BootProgrammed
    <3> QED BY <1>3, <3>1, <3>2, <3>3, <3>4, <3>5, <3>6
  <2> QED BY <1>3, <2>1, <2>2, StoreStays
<1>4. ASSUME CodeNext, NEW d \in Data, CodePiece(d) PROVE Summed'
  <2>0. SUFFICES ASSUME current_store_addr' <= BootAddr
                 PROVE  /\ HasPieces(flash', file_crc', Written')
                        /\ pc' \notin LastWritten => Clean(flash', current_store_addr')
    BY DEF Summed
  <2>1. recv_updata_req /\ pc = "receive" /\ pc' = "receive"
    BY <1>4 DEF CodeNext, CodeFrame
  <2>2. /\ file_crc' = Append(file_crc, d)
        /\ flash' = write_data_to_flash(flash, current_store_addr, Code(d))
        /\ current_store_addr' = current_store_addr + Piece
        /\ current_piece' = current_piece + 1
    BY <1>4 DEF CodePiece
  <2> DEFINE n == current_piece - 1
  <2>3. /\ n \in Nat /\ Written = n /\ Written' = n + 1 /\ current_store_addr = n * Piece
        /\ current_store_addr \in Nat /\ current_store_addr + Piece <= BootAddr
        /\ current_store_addr <= BootAddr
    BY <1>0, <2>0, <2>1, <2>2, RoomForPiece, Places, SMTT(30) DEF Written, LastWritten
  <2>4. file_crc \in Seq(Data) /\ Len(file_crc) = n
    BY <1>0, <2>1 DEF Room, Completing, Inductive, ContentTypes
  <2>5. HasPieces(flash, file_crc, n) /\ Clean(flash, current_store_addr)
    BY <1>0, <2>1, <2>3 DEF Summed, LastWritten
  <2>6. /\ \A k \in 1 .. Piece : flash'[n * Piece + k - 1] = Word("code", <<d>>, k)
        /\ \A c \in Cells : c < n * Piece => flash'[c] = flash[c]
        /\ Clean(flash', current_store_addr')
    BY <2>2, <2>3, <2>5, PieceWritten, SMTT(30)
  <2>7. (\A i \in 1 .. n : file_crc'[i] = file_crc[i]) /\ file_crc'[n + 1] = d
    BY <2>2, <2>3, <2>4
  <2>8. n * Piece + Piece <= BootAddr
    BY <2>3
  <2> HIDE DEF n
  <2>9. HasPieces(flash', file_crc', n + 1)
    BY <2>3, <2>5, <2>6, <2>7, <2>8, PieceAdded
  <2> QED BY <2>3, <2>6, <2>9
<1>5. ASSUME CodeLast, recv_updata_req' PROVE Summed'
  <2>0. SUFFICES ASSUME current_store_addr' <= BootAddr
                 PROVE  /\ HasPieces(flash', file_crc', Written')
                        /\ pc' \notin LastWritten => Clean(flash', current_store_addr')
    BY DEF Summed
  <2>1. /\ recv_updata_req /\ pc = "receive" /\ pc' \in {"receive", "info"}
        /\ UNCHANGED <<flash, current_store_addr, current_piece>>
        /\ \E d \in Data : file_crc' = Append(file_crc, d)
    BY <1>5 DEF CodeLast, CodeFrame
  <2>2. Written' = Written /\ Written = current_piece - 1 /\ current_piece \in Nat \ {0}
    BY <1>0, <2>1, RoomForPiece DEF Written, LastWritten
  <2>3. file_crc \in Seq(Data) /\ Len(file_crc) = Written
    BY <1>0, <2>1, <2>2 DEF Room, Completing, Inductive, ContentTypes
  <2>4. \A i \in 1 .. Written : file_crc'[i] = file_crc[i]
    BY <2>1, <2>3
  <2>5. HasPieces(flash, file_crc, Written) /\ Clean(flash, current_store_addr)
    BY <1>0, <2>0, <2>1 DEF Summed, LastWritten
  <2>6. HasPieces(flash', file_crc', Written')
    BY <2>1, <2>2, <2>4, <2>5, ZenonT(40) DEF HasPieces
  <2> QED BY <2>1, <2>5, <2>6
<1>6. CASE WriteLastPiece
  <2>0. SUFFICES ASSUME current_store_addr' <= BootAddr
                 PROVE  /\ HasPieces(flash', file_crc', Written')
                        /\ pc' \notin LastWritten => Clean(flash', current_store_addr')
    BY DEF Summed
  <2>1. /\ pc = "piece" /\ pc' = "erase"
        /\ flash' = write_data_to_flash(flash, current_store_addr, Code(code))
        /\ current_store_addr' = current_store_addr + Piece
        /\ UNCHANGED <<file_crc, current_piece>>
    BY <1>6 DEF WriteLastPiece, Completion
  <2>2. recv_updata_req /\ code = file_crc[current_piece]
    BY <1>0, <2>1 DEF Room, Completing
  <2> DEFINE n == current_piece - 1
  <2>3. /\ n \in Nat /\ n + 1 = current_piece /\ Written = n /\ Written' = n + 1
        /\ current_store_addr = n * Piece
        /\ current_store_addr \in Nat /\ current_store_addr + Piece <= BootAddr
        /\ current_store_addr <= BootAddr
    BY <1>0, <2>0, <2>1, <2>2, RoomForPiece, Places, SMTT(30) DEF Written, LastWritten
  <2>4. HasPieces(flash, file_crc, n) /\ Clean(flash, current_store_addr)
    BY <1>0, <2>1, <2>2, <2>3 DEF Summed, LastWritten
  <2>5. /\ \A k \in 1 .. Piece : flash'[n * Piece + k - 1] = Word("code", <<code>>, k)
        /\ \A c \in Cells : c < n * Piece => flash'[c] = flash[c]
    BY <2>1, <2>3, <2>4, PieceWritten, SMTT(30)
  <2>6. (\A i \in 1 .. n : file_crc'[i] = file_crc[i]) /\ file_crc'[n + 1] = code
    BY <2>1, <2>2, <2>3
  <2>7. n * Piece + Piece <= BootAddr
    BY <2>3
  <2> HIDE DEF n
  <2>8. HasPieces(flash', file_crc', n + 1)
    BY <2>3, <2>4, <2>5, <2>6, <2>7, PieceAdded
  <2> QED BY <2>1, <2>3, <2>8 DEF LastWritten
<1>7. CASE Restart \/ PowerLost \/ Bootloader \/ Start \/ CodeRejected
  <2>1. ~recv_updata_req'
    BY <1>0, <1>7 DEF Restart, PowerLost, Reset, Bootloader, Start, CodeRejected, Room
  <2> QED BY <1>1, <2>1
<1> QED
  BY <1>1, <1>2, <1>3, <1>4, <1>5, <1>6, <1>7 DEF Next, CodeNext

LEMMA StoreInvAlways == Spec => []StoreInv
<1>1. Init => StoreInv
  BY StoreInit
<1>2. Inductive /\ StoreInv /\ [Next]_vars => StoreInv'
  BY RoomStep, BootWordsStep, KeptStep, SummedStep DEF StoreInv
<1> QED BY <1>1, <1>2, InductiveAlways, PTL DEF Spec

\* Whatever is sent, accepted or not, of any length, and wherever power is lost, the
\* parameters are in the flash unless a write of themselves was cut off or a piece was
\* written over them.
THEOREM ParametersSurvive == Spec => []ParamsKept
<1>1. StoreInv => ParamsKept
  BY DEF StoreInv
<1> QED BY <1>1, StoreInvAlways, PTL

\* What the boot loader would find in a flash f.
FoundIn(f, i) ==
  LET words == [k \in 1 .. Piece |-> f[(i - 1) * Piece + k - 1]]
      intact == {d \in Data : words = Code(d)}
  IN IF intact = {} THEN <<>> ELSE CHOOSE d \in intact : TRUE

\* A piece that is found in the store is the one that was written there.
LEMMA PiecesFound ==
  ASSUME NEW f, NEW n \in Nat, NEW sum \in Seq(Data), Len(sum) = n, HasPieces(f, sum, n)
  PROVE  [i \in 1 .. n |-> FoundIn(f, i)] = sum
<1>1. ASSUME NEW i \in 1 .. n PROVE FoundIn(f, i) = sum[i]
  <2> DEFINE words == [k \in 1 .. Piece |-> f[(i - 1) * Piece + k - 1]]
             intact == {d \in Data : words = Code(d)}
  <2>1. sum[i] \in Data
    BY <1>1
  <2>2. words = Code(sum[i])
    BY <1>1, CodeWords DEF HasPieces, Code
  <2>3. ASSUME NEW d \in Data, words = Code(d) PROVE d = sum[i]
    <3>1. Code(d)[1] = Code(sum[i])[1] /\ 1 \in 1 .. Piece
      BY <2>2, <2>3, Places
    <3>2. Word("code", <<d>>, 1) = Word("code", <<sum[i]>>, 1)
      BY <3>1, CodeWords
    <3>3. <<d>> = <<sum[i]>>
      BY <3>2 DEF Word
    <3> QED BY <3>3
  <2>4. intact = {sum[i]}
    BY <2>1, <2>2, <2>3
  <2> QED BY <2>4 DEF FoundIn
<1> QED BY <1>1

\* While pieces come in, the store holds those of which the check sum was taken, as
\* long as they end before the boot information.
THEOREM StoreIsSummed == Spec => []StoreHoldsWhatIsSummed
<1>1. Inductive /\ StoreInv => StoreHoldsWhatIsSummed
  <2> SUFFICES ASSUME Inductive, StoreInv, pc = "receive", recv_updata_req
               PROVE  /\ write_flash_ok = 0 .. Len(file_crc)
                      /\ current_piece = Len(file_crc) + 1
                      /\ current_store_addr <= BootAddr => Stored(Len(file_crc)) = file_crc
    BY DEF StoreHoldsWhatIsSummed
  <2>1. /\ file_crc \in Seq(Data) /\ Len(file_crc) = current_piece - 1
        /\ current_piece \in Nat /\ Written = current_piece - 1
        /\ write_flash_ok = 0 .. current_piece - 1
    BY DEF Inductive, ControlTypes, ContentTypes, Session, StoreInv, Room, Completing, Written,
       LastWritten
  <2>2. ASSUME current_store_addr <= BootAddr PROVE Stored(Len(file_crc)) = file_crc
    <3>1. HasPieces(flash, file_crc, Len(file_crc)) /\ Len(file_crc) \in Nat
      BY <2>1, <2>2 DEF StoreInv, Summed
    <3>2. [i \in 1 .. Len(file_crc) |-> FoundIn(flash, i)] = file_crc
      BY <2>1, <3>1, PiecesFound
    <3> QED BY <3>2 DEF Stored, Found, FoundIn
  <2>3. 0 .. current_piece - 1 = 0 .. Len(file_crc) /\ current_piece = Len(file_crc) + 1
    BY <2>1
  <2> QED BY <2>1, <2>2, <2>3
<1> QED BY <1>1, StoreInvAlways, InductiveAlways, PTL

-------------------------------------------------------------------------------
(* CodeUpdate implements ImageTransfer.                                    *)

\* What the boot loader finds.
LEMMA NotBootable == StoreInv /\ pc \notin {"reset", "boot"} => Bootable = <<>>
BY Kinds DEF StoreInv, BootWords, Bootable

LEMMA NotBootableNext == StoreInv' /\ pc' \notin {"reset", "boot"} => Bootable' = <<>>
BY Kinds DEF StoreInv, BootWords, Bootable

LEMMA BootableStays ==
  ASSUME UNCHANGED flash PROVE UNCHANGED Bootable
BY DEF Bootable, Stored, Found

\* A completion that goes around the tests leaves nothing that counts as installed.
Installed == IF legal THEN Bootable ELSE <<>>

LEMMA InstalledStays ==
  ASSUME UNCHANGED <<flash, legal>> PROVE UNCHANGED Installed
BY BootableStays DEF Installed

LEMMA TransferInit == Init => LegalTransfer!Init
<1> SUFFICES ASSUME Init PROVE LegalTransfer!Init
  OBVIOUS
<1>1. StoreInv /\ pc = "receive" /\ ~recv_updata_req
  BY StoreInit DEF Init, Statics
<1>2. Bootable = <<>>
  BY <1>1, NotBootable
<1> QED BY <1>1, <1>2 DEF LegalTransfer!Init, Accepted

\* The steps that end the session, or open one that is not accepted.
LEMMA AbandonStep ==
  ASSUME Accepted(recv_file_crc)' = <<>>, Accepted(file_crc)' = <<>>, UNCHANGED Installed
  PROVE  LegalTransfer!Next
BY DEF LegalTransfer!Next, LegalTransfer!Abandon, Installed

\* The steps that leave the file and what was received of it.
LEMMA SameFile ==
  ASSUME UNCHANGED <<recv_updata_req, recv_file_crc, file_crc, answer>>
  PROVE  UNCHANGED <<Accepted(recv_file_crc), Accepted(file_crc)>>
BY DEF Accepted

LEMMA TransferStep ==
  ASSUME Inductive, StoreInv, StoreInv', Inductive', [Next]_vars
  PROVE  [LegalTransfer!Next]_(LegalTransfer!tvars)
<1> USE DEF transfer, seen
<1>0. Room
  BY DEF StoreInv
\* Steps before and after which there is nothing to boot.
<1>1. ASSUME {pc, pc'} \cap {"reset", "boot"} = {}
      PROVE  Installed = <<>> /\ Installed' = <<>>
  BY <1>1, NotBootable, NotBootableNext DEF Installed
<1>2. CASE Restart
  <2>1. recv_updata_req' = FALSE /\ UNCHANGED <<flash, legal>>
    BY <1>2 DEF Restart, Reset
  <2> QED BY <2>1, InstalledStays, AbandonStep DEF Accepted
<1>3. CASE PowerLost
  <2>1. recv_updata_req' = FALSE /\ UNCHANGED legal /\ pc \in {"receive", "piece"}
    BY <1>3 DEF PowerLost, Reset
  <2>2. flash[BootAddr] # Flag
    BY <2>1 DEF StoreInv, BootWords
  <2>3. flash'[BootAddr] # Flag
    <3>1. CASE flash' = EraseFor(flash, SysAddr, 1)
      <4>1. BootAddr \in Cells /\ BootAddr < SysAddr
        BY Marks, Addresses
      <4> QED BY <2>2, <3>1, <4>1, ParamsWritten
    <3>2. CASE flash' = EraseFor(flash, current_store_addr, Piece)
      <4>1. current_store_addr \in Nat
        BY DEF Inductive, ControlTypes
      <4> QED BY <2>2, <3>2, <4>1, NoFlagWritten, Marks
    <3> QED BY <1>3, <3>1, <3>2 DEF PowerLost
  <2>4. Installed = <<>> /\ Installed' = <<>>
    BY <2>2, <2>3 DEF Installed, Bootable
  <2> QED BY <2>1, <2>4, AbandonStep DEF Accepted
<1>4. CASE Bootloader
  <2>1. pc' = "start" /\ UNCHANGED <<recv_updata_req, recv_file_crc, file_crc, answer>>
    BY <1>4 DEF Bootloader
  <2>2. Bootable' = <<>>
    BY <2>1, NotBootableNext
  <2>3. Installed' = <<>>
    BY <2>2 DEF Installed
  <2> QED BY <2>1, <2>3, SameFile DEF LegalTransfer!Next, LegalTransfer!Boot, Installed
<1>5. CASE \/ Start \/ IllegalFrame \/ ConfigFrame \/ CodeRepeated
           \/ CodeNext /\ CodeDropped
           \/ write_image_info_to_flash \/ WriteLastPiece \/ EraseBootInfo \/ WriteRebootFlag
  <2>1. /\ UNCHANGED <<recv_updata_req, recv_file_crc, file_crc, answer>>
        /\ {pc, pc'} \cap {"reset", "boot"} = {}
    BY <1>5 DEF Start, IllegalFrame, ConfigFrame, CodeRepeated, CodeFrame, CodeNext, CodeDropped,
       write_image_info_to_flash, WriteLastPiece, EraseBootInfo, WriteRebootFlag, Completion
  <2> QED BY <1>1, <2>1, SameFile DEF LegalTransfer!tvars, Installed
<1>6. CASE RequestOldVersion \/ RequestTooLong \/ Request
  <2>1. PICK img \in Images, reply \in {"ok", "version_err", "total_err"} :
          RequestFrame(img, reply)
    BY <1>6, RequestSetsUp
  <2>2. pc = "receive" /\ pc' = "receive" /\ file_crc' = <<>> /\ recv_file_crc' = img
    BY <2>1 DEF RequestFrame
  <2>3. Installed = <<>> /\ Installed' = <<>>
    BY <1>1, <2>2
  <2>4. CASE recv_updata_req' /\ answer' = "ok"
    <3>1. Accepted(recv_file_crc)' = img /\ Accepted(file_crc)' = <<>>
      BY <2>2, <2>4 DEF Accepted
    <3> QED BY <2>3, <3>1 DEF LegalTransfer!Next, LegalTransfer!Announce, Installed
  <2>5. CASE ~(recv_updata_req' /\ answer' = "ok")
    <3>1. Accepted(recv_file_crc)' = <<>> /\ Accepted(file_crc)' = <<>>
      BY <2>5 DEF Accepted
    <3> QED BY <2>3, <3>1, AbandonStep
  <2> QED BY <2>4, <2>5
<1>7. CASE CodeRejected \/ (CodeLast /\ ~recv_updata_req')
  <2>1. pc = "receive" /\ pc' \in {"receive", "info"} /\ ~recv_updata_req'
    BY <1>7 DEF CodeRejected, CodeLast, CodeFrame
  <2> QED BY <1>1, <2>1, AbandonStep DEF Accepted
<1>8. CASE \/ CodeNext /\ \E d \in Data : CodePiece(d)
           \/ CodeLast /\ recv_updata_req'
  <2>1. /\ pc = "receive" /\ pc' \in {"receive", "info"}
        /\ recv_updata_req /\ recv_updata_req' /\ UNCHANGED <<recv_file_crc, answer>>
        /\ \E d \in Data : file_crc' = Append(file_crc, d)
    BY <1>8 DEF CodeNext, CodeLast, CodeFrame, CodePiece
  <2>2. Installed = <<>> /\ Installed' = <<>>
    BY <1>1, <2>1
  <2>3. Len(file_crc) < Len(recv_file_crc)
    BY <1>0, <2>1 DEF Room, Completing, Inductive, ControlTypes
  <2>4. CASE answer = "ok"
    <3>1. /\ Accepted(file_crc) = file_crc /\ Accepted(recv_file_crc) = recv_file_crc
          /\ Accepted(file_crc)' = file_crc' /\ Accepted(recv_file_crc)' = recv_file_crc
      BY <2>1, <2>4 DEF Accepted
    <3> QED BY <2>1, <2>2, <2>3, <3>1 DEF LegalTransfer!Next, LegalTransfer!Take, Installed
  <2>5. CASE answer # "ok"
    <3>1. /\ Accepted(file_crc)' = <<>> /\ Accepted(recv_file_crc)' = <<>>
      BY <2>1, <2>5 DEF Accepted
    <3> QED BY <2>2, <3>1, AbandonStep
  <2> QED BY <2>4, <2>5
<1>9. CASE WriteBootLen
  <2>1. /\ pc = "len" /\ pc' = "reset"
        /\ UNCHANGED <<recv_updata_req, recv_file_crc, file_crc, total_segments, current_piece,
                       answer, legal, current_store_addr>>
    BY <1>9 DEF WriteBootLen, Completion
  <2>2. /\ recv_updata_req /\ recv_file_crc \in Images /\ file_crc = recv_file_crc
        /\ current_piece = total_segments /\ total_segments = Len(recv_file_crc)
        /\ current_store_addr = total_segments * Piece
    BY <1>0, <2>1 DEF Room, Completing, Written, LastWritten
  <2>3. recv_file_crc \in Seq(Data) /\ recv_file_crc # <<>> /\ total_segments \in Nat
    BY <2>2, Sizes
  <2>4. Installed = <<>>
    <3>1. Bootable = <<>>
      BY <2>1, NotBootable
    <3> QED BY <3>1 DEF Installed
  <2>5. CASE legal
    <3>1. answer = "ok" /\ current_store_addr <= BootAddr
      BY <1>0, <2>1, <2>2, <2>5 DEF Room, Completing
    <3>2. HasPieces(flash', file_crc', total_segments')
      BY <2>1, <2>2, <3>1 DEF StoreInv, Summed, Written, LastWritten
    <3>3. [i \in 1 .. total_segments |-> FoundIn(flash', i)] = recv_file_crc
      BY <2>1, <2>2, <2>3, <3>2, PiecesFound
    <3>4. Stored(total_segments)' = recv_file_crc
      BY <2>1, <3>3 DEF Stored, Found, FoundIn
    <3>5. flash'[BootAddr] = Flag /\ flash'[BootAddr + 1] = Len96(total_segments)
      BY <2>1 DEF StoreInv, BootWords
    <3>6. Bootable' = recv_file_crc
      BY <2>1, <3>4, <3>5, Kinds DEF Bootable
    <3>7. Installed' = recv_file_crc
      BY <2>1, <2>5, <3>6 DEF Installed
    <3>8. /\ Accepted(file_crc) = recv_file_crc /\ Accepted(recv_file_crc) = recv_file_crc
      BY <2>2, <3>1 DEF Accepted
    <3> QED BY <2>1, <2>3, <3>7, <3>8, SameFile
            DEF LegalTransfer!Next, LegalTransfer!Install, Installed
  <2>6. CASE ~legal
    <3>1. Installed' = <<>>
      BY <2>1, <2>6 DEF Installed
    <3> QED BY <2>1, <2>4, <3>1, SameFile DEF LegalTransfer!tvars, Installed
  <2> QED BY <2>5, <2>6
<1>10. CASE UNCHANGED vars
  <2>1. UNCHANGED <<recv_updata_req, recv_file_crc, file_crc, answer, flash, legal>>
    BY <1>10 DEF vars
  <2> QED BY <2>1, InstalledStays, SameFile DEF LegalTransfer!tvars, Installed
<1> QED
  BY <1>2, <1>3, <1>4, <1>5, <1>6, <1>7, <1>8, <1>9, <1>10 DEF Next, CodeNext

\* Whatever frames are lost, repeated or out of order, wherever power is lost, and
\* whatever a refused file or one that is too long has left in the flash: but for the
\* completion of such a file, only a file that was accepted and received in full
\* becomes bootable.
THEOREM OnlyWhatWasAccepted == Spec => BootsWhatWasAccepted
<1>1. Inductive /\ StoreInv /\ Inductive' /\ StoreInv' /\ [Next]_vars
        => [LegalTransfer!Next]_(LegalTransfer!tvars)
  BY TransferStep
<1> QED
  BY <1>1, TransferInit, StoreInvAlways, InductiveAlways, PTL
  DEF Spec, BootsWhatWasAccepted, LegalTransfer!Spec
===============================================================================
