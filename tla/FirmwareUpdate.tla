--------------------------- MODULE FirmwareUpdate ---------------------------
(***************************************************************************)
(* device_bank_update and get_firmware_from_network: the update tool       *)
(* connects to DEVICE_FWUP_PORT and sends the image, the device copies it  *)
(* through a page buffer into the bank it does not run from.  The socket   *)
(* belongs to the Ethernet chip and changes state on its own between any   *)
(* two steps of the program.  Module ConfigStore has what leads here and   *)
(* what becomes of the result.                                             *)
(*                                                                         *)
(* A byte is its place in what the tool sends on one connection; the image *)
(* is the first fwup_size of them.                                         *)
(***************************************************************************)
EXTENDS Integers, Sequences

CONSTANTS
  Sizes,     \* values of fwup_size that device_bank_update lets through
  BankPages, \* FLASH_USE_BANK_SIZE, in pages
  PageSize,  \* FLASH_BANK_PAGE_SIZE
  BufSize,   \* DATA_BUF_SIZE
  RxMax,     \* the receive buffer of the socket
  Extra,     \* bound: bytes a tool may send after the image
  MaxConn    \* bound: connections in one update

ASSUME UpdateAssumption ==
  /\ PageSize \in Nat \ {0} /\ BufSize \in Nat \ {0} /\ BufSize < PageSize
  /\ BankPages \in Nat /\ Sizes \subseteq 1 .. BankPages * PageSize
  /\ RxMax \in Nat \ {0} /\ Extra \in Nat /\ MaxConn \in Nat

BankSize == BankPages * PageSize

Padding == 0   \* a byte of g_temp_buf behind the image

VARIABLES
  sr,        \* Sn_SR of SOCK_FWUPDATE
  rx,        \* what the chip holds received
  sent,      \* bytes the tool has sent on this connection
  conns,     \* connections of this update (history)
  pc,        \* where the update stands
  size,      \* fwup_size
  want,      \* len, between getSn_RX_RSR and recv
  recvFw,    \* recv_fwsize, static
  chunk,     \* g_recv_buf and recv_len
  buf,       \* g_temp_buf up to buf_len
  flashed,   \* the bank from its start up to f_addr
  writeLen,  \* write_fw_len
  taken      \* every byte recv has returned (history)

device == <<pc, size, want, recvFw, chunk, buf, flashed, writeLen, taken>>
vars == <<sr, rx, sent, conns, pc, size, want, recvFw, chunk, buf, flashed,
          writeLen, taken>>

Byte == Nat
SocketState == {"closed", "listen", "synrecv", "established", "close_wait"}

TypeOK ==
  /\ sr \in SocketState /\ rx \in Seq(Byte) /\ sent \in Nat /\ conns \in Nat
  /\ pc \in {"idle", "poll", "recv", "store", "finish", "success", "smashed"}
  /\ size \in 1 .. BankSize /\ want \in Nat /\ recvFw \in Nat
  /\ chunk \in Seq(Byte) /\ Len(chunk) <= BufSize
  /\ buf \in Seq(Byte) /\ Len(buf) < PageSize
  /\ flashed \in Seq(Byte) /\ writeLen \in Nat /\ taken \in Seq(Byte)

Blank(s) ==
  /\ sr = "closed" /\ rx = <<>> /\ sent = 0 /\ conns = 0
  /\ pc = "idle" /\ size = s /\ want = 0 /\ recvFw = 0 /\ chunk = <<>>
  /\ buf = <<>> /\ flashed = <<>> /\ writeLen = 0 /\ taken = <<>>

Init == \E s \in Sizes : Blank(s)

-----------------------------------------------------------------------------
(* The chip and the tool                                                   *)

\* close() and disconnect() return when the socket is closed; what was
\* received and not read is gone
SocketClosed == sr' = "closed" /\ rx' = <<>>

Syn ==
  /\ sr = "listen" /\ conns < MaxConn
  /\ sr' = "synrecv"
  /\ UNCHANGED <<rx, sent, conns>> /\ UNCHANGED device

Established ==
  /\ sr = "synrecv"
  /\ sr' = "established" /\ rx' = <<>> /\ sent' = 0
  /\ conns' = conns + 1
  /\ UNCHANGED device

SendByte ==
  /\ sr = "established" /\ Len(rx) < RxMax /\ sent < size + Extra
  /\ rx' = Append(rx, sent + 1) /\ sent' = sent + 1
  /\ UNCHANGED <<sr, conns>> /\ UNCHANGED device

Fin ==
  /\ sr = "established" /\ sr' = "close_wait"
  /\ UNCHANGED <<rx, sent, conns>> /\ UNCHANGED device

\* a reset from the tool, or the chip gives up its retransmissions
Abort ==
  /\ sr \in {"synrecv", "established", "close_wait"} /\ SocketClosed
  /\ UNCHANGED <<sent, conns>> /\ UNCHANGED device

-----------------------------------------------------------------------------
(* device_bank_update                                                      *)

Least(a, b) == IF a < b THEN a ELSE b

\* segcp_ret_handler closes the socket of an update that failed
Failed == pc' = "idle" /\ SocketClosed

Begin ==
  /\ pc = "idle" /\ pc' = "poll"
  /\ size' \in Sizes
  /\ buf' = <<>> /\ flashed' = <<>> /\ writeLen' = 0
  /\ chunk' = <<>> /\ taken' = <<>> /\ conns' = 0
  /\ UNCHANGED <<sr, rx, sent, want, recvFw>>

\* not more than the buffer takes, nor than is still missing
AskedAll == Least(Len(rx), BufSize)
AskedRoom == IF recvFw + Len(rx) > size THEN size - recvFw ELSE Len(rx)
Asked == IF recvFw + Least(Len(rx), BufSize) > size THEN size - recvFw
                                                    ELSE Least(Len(rx), BufSize)

\* get_firmware_from_network, by the state of the socket
PollData ==
  /\ pc = "poll" /\ sr = "established" /\ rx # <<>>
  /\ want' = Asked
  /\ pc' = "recv"
  /\ UNCHANGED <<sr, rx, sent, conns, size, recvFw, chunk, buf, flashed, writeLen,
                 taken>>

\* disconnect() although there may be data to read
PollCloseWait ==
  /\ pc = "poll" /\ sr = "close_wait" /\ SocketClosed
  /\ UNCHANGED <<sent, conns>> /\ UNCHANGED device

\* the next connection starts the count of bytes again, but not the update
PollClosed ==
  /\ pc = "poll" /\ sr = "closed"
  /\ sr' = "listen" /\ recvFw' = 0
  /\ UNCHANGED <<rx, sent, conns, pc, size, want, chunk, buf, flashed, writeLen,
                 taken>>

\* any other state, the handshake of a new connection among them
PollOther ==
  /\ pc = "poll" /\ sr = "synrecv" /\ SocketClosed
  /\ UNCHANGED <<sent, conns>> /\ UNCHANGED device

\* recv(), the answer to the tool, and disconnect() behind the last byte
Recv ==
  /\ pc = "recv" /\ sr \in {"established", "close_wait"}
  /\ chunk' = SubSeq(rx, 1, want)
  /\ taken' = taken \o chunk'
  /\ recvFw' = recvFw + want
  /\ IF recvFw' >= size
       THEN SocketClosed
       ELSE UNCHANGED sr /\ rx' = SubSeq(rx, want + 1, Len(rx))
  /\ pc' = "store"
  /\ UNCHANGED <<sent, conns, size, want, buf, flashed, writeLen>>

\* recv() returns a negative number, taken for a length of more than 65000:
\* the copy behind the page buffer overwrites other variables
RecvFails ==
  /\ pc = "recv" /\ sr = "closed"
  /\ pc' = "smashed"
  /\ UNCHANGED <<sr, rx, sent, conns, size, want, recvFw, chunk, buf, flashed,
                 writeLen, taken>>

FitsTight(all) == Len(all) <= PageSize
Fits(all) == Len(all) < PageSize

RemainderDropped(all) == <<>>
Remainder(all) == SubSeq(all, PageSize + 1, Len(all))

MissingOne == writeLen + Len(chunk) <= size
Missing == writeLen + Len(chunk) < size

\* into the page buffer, which goes to the flash when it is full; then the test
\* at the end of the loop
Store ==
  /\ pc = "store"
  /\ LET all == buf \o chunk
     IN IF Fits(all)
          THEN buf' = all /\ UNCHANGED flashed
          ELSE /\ flashed' = flashed \o SubSeq(all, 1, PageSize)
               /\ buf' = Remainder(all)
  /\ writeLen' = writeLen + Len(chunk)
  /\ pc' = IF Missing THEN "poll" ELSE "finish"
  /\ chunk' = <<>>
  /\ UNCHANGED <<sr, rx, sent, conns, size, want, recvFw, taken>>

EnoughIn == writeLen >= size
AllIn == writeLen = size

LastPageNot == <<>>
LastPage == IF buf = <<>> THEN <<>>
            ELSE [i \in 1 .. PageSize |-> IF i <= Len(buf) THEN buf[i] ELSE Padding]

\* the rest of the image goes out as a whole page
Finish ==
  /\ pc = "finish" /\ AllIn
  /\ flashed' = flashed \o LastPage
  /\ pc' = "success"
  /\ UNCHANGED <<sr, rx, sent, conns, size, want, recvFw, chunk, buf, writeLen, taken>>

\* more than fwup_size bytes: DEVICE_FWUP_RET_PROGRESS, a failure to the caller
FinishTooLong ==
  /\ pc = "finish" /\ ~AllIn /\ Failed
  /\ UNCHANGED <<sent, conns, size, want, recvFw, chunk, buf, flashed, writeLen, taken>>

\* a flash page that cannot be programmed ends the update
FlashFails ==
  /\ \/ pc = "store" /\ ~Fits(buf \o chunk)
     \/ pc = "finish" /\ AllIn /\ buf # <<>>
  /\ Failed
  /\ UNCHANGED <<sent, conns, size, want, recvFw, chunk, buf, flashed, writeLen, taken>>

\* the restart after a success; or the power or the watchdog cuts the update off
Restart ==
  /\ pc # "idle"
  /\ sr' = "closed" /\ rx' = <<>> /\ sent' = 0 /\ conns' = 0
  /\ pc' = "idle" /\ want' = 0 /\ recvFw' = 0 /\ chunk' = <<>>
  /\ buf' = <<>> /\ flashed' = <<>> /\ writeLen' = 0 /\ taken' = <<>>
  /\ UNCHANGED size

-----------------------------------------------------------------------------
Poll == PollData \/ PollCloseWait \/ PollClosed \/ PollOther
Device == Begin \/ Poll \/ Recv \/ RecvFails \/ Store \/ Finish \/ FinishTooLong
Tool == Syn \/ Established \/ SendByte \/ Fin \/ Abort
Next == Device \/ FlashFails \/ Tool \/ Restart

\* the loop of the update runs on; the tool and the network owe nothing
Spec == Init /\ [][Next]_vars /\ WF_vars(Device)

-----------------------------------------------------------------------------
(* Properties                                                              *)

Loop == {"poll", "recv", "store"}

\* Bank and page buffer together hold every byte that was received, in order and
\* once, whatever sizes recv returned and wherever a page boundary fell.
TakenIsWritten ==
  pc \in Loop \cup {"finish"} => flashed \o buf \o chunk = taken

\* fwup_size - recv_fwsize neither wraps nor asks recv for nothing, although
\* recv_fwsize starts again with each connection and write_fw_len does not.
AsksForSome == pc = "recv" => want \in 1 .. BufSize /\ recvFw + want <= size

\* No page is written behind the end of the bank, not even when a tool that came
\* back has sent more than fwup_size bytes in all.
StaysInBank == Len(flashed) <= BankSize

\* An update that reports success on the tool's only connection has written the
\* image, whichever bytes the tool sent behind it.
SuccessIsImage ==
  pc = "success" /\ conns = 1
    => Len(flashed) >= size /\ \A i \in 1 .. size : flashed[i] = i

\* Once fwup_size bytes have come in, on however many connections, the update ends.
UpdateEnds ==
  pc \in Loop /\ Len(taken) >= size ~> pc \in {"idle", "success", "smashed"}
=============================================================================
