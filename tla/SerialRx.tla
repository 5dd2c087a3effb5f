------------------------------ MODULE SerialRx ------------------------------
(***************************************************************************)
(* The serial receive path: the USART interrupt, the 1 ms timer interrupt  *)
(* and the main loop around the ring buffer data0_rx and the detector of   *)
(* the mode-switch trigger code.                                           *)
(*                                                                         *)
(* Both interrupts run at NVIC priority 0 (stm32l5xx_hal_msp.c,            *)
(* uartHandler.c), so neither preempts the other: each handler is one      *)
(* action.  The main loop is preempted anywhere: pc cuts it at every       *)
(* access to what the handlers share.  The order in which the main loop    *)
(* comes to its operations depends on the sockets and is left open.        *)
(*                                                                         *)
(* init_time_delimiter_timer touches none of these variables and is        *)
(* modelled in SerialToNet; flag_ringbuf_full is written and never read.   *)
(***************************************************************************)
EXTENDS ByteRing

CONSTANTS
  Byte,           \* the bytes on the serial line
  Trigger,        \* serial_command.serial_trigger, three bytes
  SerialCommand,  \* serial_command.serial_command: the trigger is looked for
  MixedMode,      \* working_mode = TCP_MIXED_MODE
  XonXoff,        \* flow_control = flow_xon_xoff
  Xon, Xoff,      \* UART_XON, UART_XOFF
  CmdEnd,         \* the line feed that ends an AT command
  CmdMin,         \* length from which a command is read (4)
  DefaultGap,     \* DEFAULT_MODESWITCH_INTER_GAP
  PackingTime,    \* serial_data_packing.packing_time, 0 when off
  Delimiter,      \* serial_data_packing.packing_delimiter is set
  None            \* a cell of ch_tmp that holds no byte

ASSUME RxAssumption ==
  /\ Trigger \in [0 .. 2 -> Byte]
  /\ {Xon, Xoff, CmdEnd} \subseteq Byte
  /\ None \notin Byte
  /\ SerialCommand \in BOOLEAN /\ MixedMode \in BOOLEAN
  /\ XonXoff \in BOOLEAN /\ Delimiter \in BOOLEAN
  /\ CmdMin \in 1 .. Size - 1
  /\ DefaultGap \in Nat \ {0}
  /\ PackingTime \in Nat

VARIABLES
  buf, wr, rd,      \* data0_rx
  opmode,           \* "gw" or "at"
  status,           \* working_state: "open", "connect" or "at"
  isXON,
  idx, chTmp,       \* triggercode_idx, ch_tmp: the bytes held back
  msTimer, msTime,  \* enable_modeswitch_timer, modeswitch_time
  gap,              \* modeswitch_gap_time
  sw,               \* sw_modeswitch_at_mode_on
  pc, ret,          \* where the main loop stands, and where a flush returns
  ch,               \* the byte uart_getc has read
  left,             \* bytes get_serial_data still wants
  bySwitch          \* init_trigger_modeswitch was called by do_seg

ring == <<buf, wr, rd>>
mode == <<opmode, status>>
detector == <<idx, chTmp, msTimer, msTime, gap, sw>>
main == <<pc, ret, ch, left, bySwitch>>
rxVars == <<buf, wr, rd, opmode, status, isXON, idx, chTmp, msTimer, msTime,
            gap, sw, pc, ret, ch, left, bySwitch>>

Init ==
  /\ buf \in [Index -> {None}]
  /\ wr = 0 /\ rd = 0
  /\ opmode = "gw"
  /\ status = "open"
  /\ isXON = TRUE
  /\ idx = 0
  /\ chTmp = [k \in 0 .. 2 |-> None]
  /\ msTimer = FALSE /\ msTime = 0
  /\ gap = DefaultGap
  /\ sw = FALSE
  /\ pc = "loop" /\ ret = "loop"
  /\ ch = None /\ left = 0
  /\ bySwitch = FALSE

-----------------------------------------------------------------------------
(* The USART interrupt                                                     *)

\* check_serial_store_permitted, its answer before flow control
Permitted == status \in {"connect", "at"} \/ (status = "open" /\ MixedMode)

IsFlowByte(b) == XonXoff /\ b \in {Xon, Xoff}

\* check_modeswitch_trigger returns 0 at once
NotExamined == opmode # "gw" \/ ~SerialCommand

InTime == IF idx = 0 THEN msTime = gap ELSE msTime < gap

MatchesAnyAfterFirst(b) == idx < 3 /\ (idx = 0 => b = Trigger[0]) /\ InTime

\* b is the next byte of the trigger code, in time
Matches(b) == idx < 3 /\ b = Trigger[idx] /\ InTime

\* b shows that the bytes held back are data
Mismatch(b) ==
  IF idx = 3 THEN msTime < gap ELSE idx > 0 /\ ~Matches(b)

\* The rest of the handler for a byte that is data: refused when the ring is
\* full or the state forbids it, else a flow-control command, else stored.
\* The ring is given as the detector left it.
Accept(b, f, w) ==
  IF RingFull(w, rd) \/ ~Permitted \/ IsFlowByte(b)
  THEN /\ buf' = f /\ wr' = w
       /\ isXON' = IF ~RingFull(w, rd) /\ Permitted /\ IsFlowByte(b)
                   THEN b = Xon ELSE isXON
  ELSE /\ buf' = [f EXCEPT ![w] = b]
       /\ wr' = Moved(w, 1)
       /\ UNCHANGED isXON

\* restore_serial_data: the bytes held back go to the ring, which is not
\* asked whether they fit
Restored == Stored(buf, wr, chTmp, idx)
Emptied == [k \in 0 .. 2 |-> IF k < idx THEN None ELSE chTmp[k]]

RxNotExamined(b) ==
  /\ NotExamined
  /\ Accept(b, buf, wr)
  /\ UNCHANGED <<rd, opmode, status, idx, chTmp, msTimer, msTime, gap, sw>>
  /\ UNCHANGED main

RxHold(b) ==
  /\ ~NotExamined
  /\ Matches(b)
  /\ chTmp' = [chTmp EXCEPT ![idx] = b]
  /\ idx' = idx + 1
  /\ msTimer' = IF idx = 0 THEN TRUE ELSE msTimer
  /\ msTime' = 0
  /\ UNCHANGED <<buf, wr, rd, opmode, status, isXON, gap, sw>>
  /\ UNCHANGED main

RxDataTimeKept(b) ==
  /\ ~NotExamined
  /\ idx = 0
  /\ ~Matches(b)
  /\ Accept(b, buf, wr)
  /\ UNCHANGED <<rd, opmode, status, detector>>
  /\ UNCHANGED main

RxData(b) ==
  /\ ~NotExamined
  /\ idx = 0
  /\ ~Matches(b)
  /\ Accept(b, buf, wr)
  /\ msTime' = 0
  /\ UNCHANGED <<rd, opmode, status, idx, chTmp, msTimer, gap, sw>>
  /\ UNCHANGED main

RxMismatch(b) ==
  /\ ~NotExamined
  /\ Mismatch(b)
  /\ Accept(b, Restored, Moved(wr, idx))
  /\ chTmp' = Emptied
  /\ idx' = 0
  /\ msTimer' = FALSE
  /\ msTime' = 0
  /\ UNCHANGED <<rd, opmode, status, gap, sw>>
  /\ UNCHANGED main

\* With the code complete and the gap over, the detector answers 3 to every
\* byte: the byte is not stored.
RxSwallow(b) ==
  /\ ~NotExamined
  /\ idx = 3
  /\ ~Mismatch(b)
  /\ msTime' = 0
  /\ UNCHANGED <<buf, wr, rd, opmode, status, isXON, idx, chTmp, msTimer, gap,
                 sw>>
  /\ UNCHANGED main

\* HAL_UART_RxCpltCallback
RxByte(b) ==
  RxNotExamined(b) \/ RxHold(b) \/ RxData(b) \/ RxMismatch(b) \/ RxSwallow(b)

-----------------------------------------------------------------------------
(* The timer interrupt: the mode-switch part of seg_timer_msec             *)

NextTime == IF msTime < gap THEN msTime + 1 ELSE msTime
GapOver == msTimer /\ NextTime = gap

TickCount ==
  /\ ~GapOver
  /\ msTime' = NextTime
  /\ UNCHANGED <<buf, wr, rd, opmode, status, isXON, idx, chTmp, msTimer, gap,
                 sw>>
  /\ UNCHANGED main

TickTriggered ==
  /\ GapOver /\ idx = 3
  /\ sw' = TRUE
  /\ idx' = 0 /\ msTimer' = FALSE /\ msTime' = NextTime
  /\ UNCHANGED <<buf, wr, rd, opmode, status, isXON, chTmp, gap>>
  /\ UNCHANGED main

TickRestore ==
  /\ GapOver /\ idx # 3
  /\ buf' = Restored /\ wr' = Moved(wr, idx)
  /\ chTmp' = Emptied
  /\ idx' = 0 /\ msTimer' = FALSE /\ msTime' = NextTime
  /\ UNCHANGED <<rd, opmode, status, isXON, gap, sw>>
  /\ UNCHANGED main

seg_timer_msec == TickCount \/ TickTriggered \/ TickRestore

-----------------------------------------------------------------------------
(* The main loop                                                           *)

\* do_seg looks for a recognised trigger first, and only once
SegBegin ==
  /\ pc = "loop" /\ opmode = "gw" /\ ~sw
  /\ pc' = "seg"
  /\ UNCHANGED <<ring, mode, isXON, detector, ret, ch, left, bySwitch>>

SegEnd ==
  /\ pc = "seg"
  /\ pc' = "loop"
  /\ UNCHANGED <<ring, mode, isXON, detector, ret, ch, left, bySwitch>>

GetBeginOneMore ==
  /\ pc = "seg"
  /\ left' \in 1 .. Used(wr, rd) + 1
  /\ pc' = "get"
  /\ UNCHANGED <<ring, mode, isXON, detector, ret, ch, bySwitch>>

\* get_serial_data: how many bytes to take is settled before the first is read.
\* With a delimiter set, one byte in the ring and g_send_buf full but for at
\* most one byte, a byte is read first and as many as fit after it.
GetBegin ==
  /\ pc = "seg"
  /\ \/ left' \in 1 .. Used(wr, rd)
     \/ Delimiter /\ Used(wr, rd) = 1 /\ left' = 2
  /\ pc' = "get"
  /\ UNCHANGED <<ring, mode, isXON, detector, ret, ch, bySwitch>>

\* uart_get_commandline: read up to the line feed, however long it takes
CmdBegin ==
  /\ pc = "loop" /\ opmode = "at"
  /\ Used(wr, rd) >= CmdMin
  /\ pc' = "get" /\ left' = 0
  /\ UNCHANGED <<ring, mode, isXON, detector, ret, ch, bySwitch>>

GetByteAtOnce ==
  /\ pc = "get"
  /\ ch' = buf[rd]
  /\ pc' = "got"
  /\ UNCHANGED <<ring, mode, isXON, detector, ret, left, bySwitch>>

\* uart_getc: spins while the ring is empty, then reads a byte ...
GetByte ==
  /\ pc = "get"
  /\ ~RingEmpty(wr, rd)
  /\ ch' = buf[rd]
  /\ pc' = "got"
  /\ UNCHANGED <<ring, mode, isXON, detector, ret, left, bySwitch>>

\* ... and advances the read index; the caller then wants another or not
GetMove ==
  /\ pc = "got"
  /\ rd' = Moved(rd, 1)
  /\ left' = IF opmode = "gw" THEN left - 1 ELSE 0
  /\ pc' = IF (opmode = "gw" /\ left > 1) \/ (opmode = "at" /\ ch # CmdEnd)
           THEN "get" ELSE "loop"
  /\ ch' = None
  /\ UNCHANGED <<buf, wr, mode, isXON, detector, ret, bySwitch>>

\* a connection is up: set_device_status, then uart_rx_flush
Connect ==
  /\ pc = "seg" /\ status = "open"
  /\ status' = "connect"
  /\ pc' = "flush" /\ ret' = "seg"
  /\ UNCHANGED <<ring, opmode, isXON, detector, ch, left, bySwitch>>

\* the socket is found closed and is opened again; the packing time replaces
\* the default gap, unless socket() fails
Reopen ==
  /\ pc = "seg"
  /\ status' = "open"
  /\ \/ gap' = IF SerialCommand /\ PackingTime # 0 THEN PackingTime ELSE gap
     \/ UNCHANGED gap
  /\ pc' = "loop"
  /\ UNCHANGED <<ring, opmode, isXON, idx, chTmp, msTimer, msTime, sw, ret, ch,
                 left, bySwitch>>

\* init_trigger_modeswitch, called by do_seg once the trigger was recognised,
\* or by segcp_ret_handler for the EX command (from the serial line in AT mode,
\* from the network in either mode)
SwitchBegin(bySeg) ==
  /\ pc = "loop"
  /\ bySeg => opmode = "gw" /\ sw
  /\ opmode' = IF opmode = "gw" THEN "at" ELSE "gw"
  /\ status' = IF opmode = "gw" THEN "at" ELSE "open"
  /\ bySwitch' = bySeg
  /\ pc' = "flush" /\ ret' = "stopTimer"
  /\ UNCHANGED <<ring, isXON, detector, ch, left>>

\* the configuration protocol flushes the ring: the RX command, a command that
\* failed, the end of a certificate
FlushCmd ==
  /\ pc = "loop"
  /\ pc' = "flush" /\ ret' = "loop"
  /\ UNCHANGED <<ring, mode, isXON, detector, ch, left, bySwitch>>

\* uart_rx_flush: the write index first, the read index second
FlushWr ==
  /\ pc = "flush"
  /\ wr' = 0
  /\ pc' = "flushRd"
  /\ UNCHANGED <<buf, rd, mode, isXON, detector, ret, ch, left, bySwitch>>

FlushRdForgotten ==
  /\ pc = "flushRd"
  /\ pc' = ret
  /\ UNCHANGED <<ring, mode, isXON, detector, ret, ch, left, bySwitch>>

FlushRd ==
  /\ pc = "flushRd"
  /\ rd' = 0
  /\ pc' = ret
  /\ UNCHANGED <<buf, wr, mode, isXON, detector, ret, ch, left, bySwitch>>

SwitchStopTimer ==
  /\ pc = "stopTimer"
  /\ msTimer' = FALSE
  /\ pc' = "clearTime"
  /\ UNCHANGED <<ring, mode, isXON, idx, chTmp, msTime, gap, sw, ret, ch, left,
                 bySwitch>>

SwitchClearTime ==
  /\ pc = "clearTime"
  /\ msTime' = 0
  /\ pc' = IF bySwitch THEN "clearSw" ELSE "loop"
  /\ UNCHANGED <<ring, mode, isXON, idx, chTmp, msTimer, gap, sw, ret, ch, left,
                 bySwitch>>

\* do_seg takes the request back
SwitchClearSw ==
  /\ pc = "clearSw"
  /\ sw' = FALSE
  /\ bySwitch' = FALSE
  /\ pc' = "loop"
  /\ UNCHANGED <<ring, mode, isXON, idx, chTmp, msTimer, msTime, gap, ret, ch,
                 left>>

Main ==
  \/ SegBegin \/ SegEnd \/ GetBegin \/ CmdBegin \/ GetByte \/ GetMove
  \/ Connect \/ Reopen
  \/ \E bySeg \in BOOLEAN : SwitchBegin(bySeg)
  \/ FlushCmd \/ FlushWr \/ FlushRd
  \/ SwitchStopTimer \/ SwitchClearTime \/ SwitchClearSw

Next == (\E b \in Byte : RxByte(b)) \/ seg_timer_msec \/ Main

Spec == Init /\ [][Next]_rxVars

-----------------------------------------------------------------------------
(* Every variable holds a value of its C type and of its role.             *)
TypeOK ==
  /\ buf \in [Index -> Byte \cup {None}]
  /\ wr \in Index /\ rd \in Index
  /\ opmode \in {"gw", "at"}
  /\ status \in {"open", "connect", "at"}
  /\ isXON \in BOOLEAN
  /\ idx \in 0 .. 3
  /\ chTmp \in [0 .. 2 -> Byte \cup {None}]
  /\ msTimer \in BOOLEAN
  /\ msTime \in Nat
  /\ gap \in Nat \ {0}
  /\ sw \in BOOLEAN
  /\ pc \in {"loop", "seg", "get", "got", "flush", "flushRd", "stopTimer",
             "clearTime", "clearSw"}
  /\ ret \in {"loop", "seg", "stopTimer"}
  /\ ch \in Byte \cup {None}
  /\ left \in 0 .. Size - 1
  /\ bySwitch \in BOOLEAN

\* The bytes held back are a beginning of the trigger code, in the order of the
\* line, whatever restores, mode switches and changes of the gap time did in
\* between: what restore_serial_data puts back is what the line carried.
HeldIsTrigger == \A k \in 0 .. 2 : k < idx => chTmp[k] = Trigger[k]
=============================================================================
