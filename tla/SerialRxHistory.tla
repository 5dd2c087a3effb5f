--------------------------- MODULE SerialRxHistory ---------------------------
(***************************************************************************)
(* SerialRx with what an observer of the serial line remembers, and the    *)
(* properties of the receive path that speak of the past.                  *)
(***************************************************************************)
EXTENDS SerialRx

VARIABLES
  heard,    \* how many bytes of the trigger code the line has just carried,
            \* begun after a pause or while the program was switching modes
  quiet,    \* ms since the last byte, up to QuietMax
  overrun   \* unread bytes were lost since the ring was last emptied

QuietMax == IF PackingTime > DefaultGap THEN PackingTime ELSE DefaultGap

history == <<heard, quiet, overrun>>
vars == <<buf, wr, rd, opmode, status, isXON, idx, chTmp, msTimer, msTime,
          gap, sw, pc, ret, ch, left, bySwitch, heard, quiet, overrun>>

\* Once uart_rx_flush has cleared the write index the old bytes are given up.
Pending == IF pc = "flushRd" THEN wr ELSE Used(wr, rd)
PendingBytes == IF pc = "flushRd" THEN [k \in 1 .. wr |-> buf[k - 1]]
                ELSE Unread(buf, wr, rd)

\* What the reader may count on: nothing from an overrun to the next flush.
Promised == IF overrun THEN << >> ELSE PendingBytes

\* the bytes held back, oldest first
HeldBytes == [k \in 1 .. idx |-> chTmp[k - 1]]

\* bytes an interrupt stores that leaves the write index at w
Written(w) == (Size + w - wr) % Size

Switching ==
  \/ pc \in {"flush", "flushRd"} /\ ret = "stopTimer"
  \/ pc \in {"stopTimer", "clearTime"}

HInit ==
  /\ Init
  /\ heard = {}
  /\ quiet = 0
  /\ overrun = FALSE

Heard(b) ==
  {n + 1 : n \in {m \in heard : m < 3 /\ b = Trigger[m]}}
    \cup {n \in {1} : b = Trigger[0] /\ (quiet >= gap \/ Switching)}

Overrun == overrun' = (overrun \/ Pending + Written(wr') >= Size)

HRxByte(b) ==
  /\ RxByte(b)
  /\ heard' = Heard(b)
  /\ quiet' = 0
  /\ Overrun

HTick ==
  /\ seg_timer_msec
  /\ quiet' = IF quiet < QuietMax THEN quiet + 1 ELSE quiet
  /\ Overrun
  /\ UNCHANGED heard

HMain ==
  /\ Main
  /\ overrun' = IF FlushWr THEN FALSE ELSE overrun
  /\ UNCHANGED <<heard, quiet>>

HNext == (\E b \in Byte : HRxByte(b)) \/ HTick \/ HMain

HSpec == HInit /\ [][HNext]_vars

-----------------------------------------------------------------------------
\* The ring and the detector before it, at every interleaving with the interrupts
\* and through the two stores of uart_rx_flush, are a queue until it is overrun,
\* and again from the next flush on.  While the trigger code is looked for, the
\* bytes come out in the order of the line, those held back before the byte that
\* released them; what is stored while a flush is under way is kept; and a flush
\* or a mode switch leaves what is held back alone.  It does not say which bytes
\* are taken in: a byte that is refused or swallowed is a stuttering step.
Fifo == INSTANCE ByteFifo
          WITH queue <- Promised, held <- HeldBytes, lost <- overrun,
               looking <- ~NotExamined
RingIsFifo == Fifo!FifoSpec

\* A byte that uart_getc has read is still the oldest one when the read index
\* moves over it, so no byte is read twice or skipped.
ByteTakenIsOldest ==
  pc = "got" /\ ~overrun => ~RingEmpty(wr, rd) /\ ch = buf[rd]

\* The reader is overrun only when restore_serial_data puts held-back bytes
\* back: a byte that is stored by itself never is the one too many, wherever
\* the main loop stands.  (Between the two stores of uart_rx_flush the indices
\* mean nothing; there it would take as many bytes as the ring has cells.)
OverrunOnlyByRestore ==
  [][overrun' /\ ~overrun /\ pc # "flushRd" => idx > 0 /\ idx' = 0]_vars

\* Without a packing delimiter, get_serial_data never waits inside uart_getc for
\* a byte it counted before: the main loop cannot be held up in gateway mode.
GatewayNeverSpins ==
  pc = "get" /\ opmode = "gw" /\ ~overrun /\ ~Delimiter => left <= Used(wr, rd)

\* In gateway mode, as long as the gap time is not changed, a request for AT
\* mode is raised only when the last three bytes on the line are the trigger
\* code, the first after a pause of the gap time (or received while
\* init_trigger_modeswitch ran), and the gap time has passed since.
RequestIsDeserved ==
  [][sw' /\ ~sw /\ opmode = "gw" /\ PackingTime = 0 =>
        3 \in heard /\ quiet' >= gap]_vars

\* The detector answers "trigger code" (uartHandler.c: "ret: [0] data / [!0]
\* trigger code") for no byte that is not in the trigger code.
OnlyTriggerHeldBack ==
  [][\A b \in Byte : HRxByte(b) /\ (RxHold(b) \/ RxSwallow(b)) =>
       \E k \in 0 .. 2 : b = Trigger[k]]_vars
=============================================================================
