----------------------------- MODULE MCSerialRx -----------------------------
(* A ring of five cells, a line that carries the trigger byte and one other *)
(* byte (also the line feed).                                               *)
EXTENDS SerialRxHistory

CONSTANTS Plus, Data

MCByte == {Plus, Data}
MCTrigger == [k \in 0 .. 2 |-> Plus]

\* Cells that hold no byte still to be read are written before they are read
\* again: states that differ only there are one state.  Except when a restore
\* closes the circle while a byte is being read: then all cells come up again.
Cells == IF pc = "got" /\ RingEmpty(wr, rd) THEN buf ELSE PendingBytes

MCView ==
  <<Cells, wr, rd, opmode, status, isXON, idx, msTimer, msTime, gap, sw,
    pc, ret, ch, left, bySwitch, heard, quiet, overrun,
    [k \in 0 .. 2 |-> IF k < idx THEN chTmp[k] ELSE None]>>
=============================================================================
