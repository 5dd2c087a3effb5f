-------------------------- MODULE SerialRx_proofs --------------------------
(***************************************************************************)
(* Proofs about SerialRx for every size of the ring, every trigger code    *)
(* and every gap and packing time: the type invariant, and that the bytes  *)
(* held back are the beginning of the trigger code.                        *)
(***************************************************************************)
EXTENDS SerialRx, TLAPS

Cell == Byte \cup {None}

-----------------------------------------------------------------------------
(* The ring's arithmetic                                                   *)

\* The remainder by Size is an index of the ring.
LEMMA ModIndex == \A n \in Int : n % Size \in Index
  BY SizeAssumption, SMTT(30) DEF SizeAssumption, Index

\* The two indices stay inside the ring, and so does the number of bytes
\* between them.
LEMMA RingTypes ==
  ASSUME NEW w \in Index, NEW r \in Index
  PROVE  /\ Used(w, r) \in Index
         /\ \A n \in Nat : Moved(w, n) \in Index
<1>1. Size + w - r \in Int /\ \A n \in Nat : w + n \in Int
  BY SizeAssumption DEF SizeAssumption, Index
<1>2. QED
  BY <1>1, ModIndex DEF Used, Moved

\* Storing bytes changes cells only.
LEMMA StoredType ==
  ASSUME NEW f \in [Index -> Cell], NEW w, NEW s \in [0 .. 2 -> Cell],
         NEW n \in 0 .. 3
  PROVE  Stored(f, w, s, n) \in [Index -> Cell]
<1>1. ASSUME NEW i \in Index
      PROVE  (IF \E k \in 0 .. n - 1 : i = Moved(w, k)
              THEN s[CHOOSE k \in 0 .. n - 1 : i = Moved(w, k)]
              ELSE f[i]) \in Cell
  <2>1. CASE \E k \in 0 .. n - 1 : i = Moved(w, k)
    <3> DEFINE c == CHOOSE k \in 0 .. n - 1 : i = Moved(w, k)
    <3>1. c \in 0 .. n - 1
      BY <2>1
    <3>2. c \in 0 .. 2
      BY <3>1
    <3>3. QED
      BY <2>1, <3>2
  <2>2. CASE ~ \E k \in 0 .. n - 1 : i = Moved(w, k)
    BY <2>2
  <2>3. QED
    BY <2>1, <2>2
<1>2. QED
  BY <1>1 DEF Stored

-----------------------------------------------------------------------------
(* The type invariant                                                      *)

\* While the main loop reads bytes for the network it has at least one to go:
\* without this left - 1 would not be a length.
LeftInv == pc \in {"get", "got"} /\ opmode = "gw" => left # 0

\* What Accept leaves in the ring has the ring's type.
LEMMA AcceptType ==
  ASSUME TypeOK, NEW b \in Byte, NEW f \in [Index -> Cell], NEW w \in Index,
         Accept(b, f, w)
  PROVE  buf' \in [Index -> Cell] /\ wr' \in Index /\ isXON' \in BOOLEAN
<1>1. CASE RingFull(w, rd) \/ ~Permitted \/ IsFlowByte(b)
  <2>1. buf' = f /\ wr' = w
    BY <1>1 DEF Accept
  <2>2. isXON' = IF ~RingFull(w, rd) /\ Permitted /\ IsFlowByte(b)
                 THEN b = Xon ELSE isXON
    BY <1>1 DEF Accept
  <2>3. (b = Xon) \in BOOLEAN /\ isXON \in BOOLEAN
    BY DEF TypeOK
  <2>4. isXON' \in BOOLEAN
    BY <2>2, <2>3
  <2>5. QED
    BY <2>1, <2>4
<1>2. CASE ~(RingFull(w, rd) \/ ~Permitted \/ IsFlowByte(b))
  <2>1. buf' = [f EXCEPT ![w] = b] /\ wr' = Moved(w, 1) /\ isXON' = isXON
    BY <1>2 DEF Accept
  <2>2. buf' \in [Index -> Cell]
    BY <2>1 DEF Cell
  <2>3. wr' \in Index
    BY <2>1, RingTypes
  <2>4. isXON' \in BOOLEAN
    BY <2>1 DEF TypeOK
  <2>5. QED
    BY <2>2, <2>3, <2>4
<1>3. QED
  BY <1>1, <1>2

\* What restore_serial_data leaves behind has the right types.
LEMMA RestoredType ==
  ASSUME TypeOK
  PROVE  /\ Restored \in [Index -> Cell]
         /\ Moved(wr, idx) \in Index
         /\ Emptied \in [0 .. 2 -> Cell]
<1>1. buf \in [Index -> Cell] /\ chTmp \in [0 .. 2 -> Cell]
      /\ idx \in 0 .. 3 /\ wr \in Index
  BY DEF TypeOK, Cell
<1>2. Restored \in [Index -> Cell]
  BY <1>1, StoredType DEF Restored
<1>3. Moved(wr, idx) \in Index
  BY <1>1, RingTypes
<1>4. Emptied \in [0 .. 2 -> Cell]
  BY <1>1 DEF Emptied, Cell
<1>5. QED
  BY <1>2, <1>3, <1>4

\* The USART interrupt keeps the types.
LEMMA RxType ==
  ASSUME TypeOK, LeftInv, NEW b \in Byte, RxByte(b)
  PROVE  TypeOK' /\ LeftInv'
<1> USE DEF main
<1>0. buf \in [Index -> Cell] /\ wr \in Index
  BY DEF TypeOK, Cell
<1>1. CASE RxNotExamined(b)
  <2>1. buf' \in [Index -> Cell] /\ wr' \in Index /\ isXON' \in BOOLEAN
    BY <1>0, <1>1, AcceptType DEF RxNotExamined
  <2>2. QED
    BY <1>1, <2>1 DEF RxNotExamined, TypeOK, LeftInv, Cell
<1>2. CASE RxHold(b)
  <2>1. idx' \in 0 .. 3
    BY <1>2 DEF RxHold, Matches, TypeOK
  <2>2. chTmp' \in [0 .. 2 -> Cell]
    BY <1>2 DEF RxHold, TypeOK, Cell
  <2>3. msTimer' \in BOOLEAN
    BY <1>2 DEF RxHold, TypeOK
  <2>4. msTime' \in Nat
    BY <1>2 DEF RxHold
  <2>5. UNCHANGED <<buf, wr, rd, opmode, status, isXON, gap, sw, pc, ret, ch,
                    left, bySwitch>>
    BY <1>2 DEF RxHold
  <2>6. QED
    BY <2>1, <2>2, <2>3, <2>4, <2>5 DEF TypeOK, LeftInv, Cell
<1>3. CASE RxData(b)
  <2>1. buf' \in [Index -> Cell] /\ wr' \in Index /\ isXON' \in BOOLEAN
    BY <1>0, <1>3, AcceptType DEF RxData
  <2>2. msTime' \in Nat
    BY <1>3 DEF RxData
  <2>3. QED
    BY <1>3, <2>1, <2>2 DEF RxData, TypeOK, LeftInv, Cell
<1>4. CASE RxMismatch(b)
  <2>1. buf' \in [Index -> Cell] /\ wr' \in Index /\ isXON' \in BOOLEAN
    BY <1>4, RestoredType, AcceptType DEF RxMismatch
  <2>2. chTmp' \in [0 .. 2 -> Cell]
    BY <1>4, RestoredType DEF RxMismatch
  <2>3. idx' \in 0 .. 3 /\ msTime' \in Nat
    BY <1>4 DEF RxMismatch
  <2>4. msTimer' \in BOOLEAN
    BY <1>4 DEF RxMismatch
  <2>5. QED
    BY <1>4, <2>1, <2>2, <2>3, <2>4 DEF RxMismatch, TypeOK, LeftInv, Cell
<1>5. CASE RxSwallow(b)
  <2>1. msTime' \in Nat
    BY <1>5 DEF RxSwallow
  <2>2. QED
    BY <1>5, <2>1 DEF RxSwallow, TypeOK, LeftInv
<1>6. QED
  BY <1>1, <1>2, <1>3, <1>4, <1>5 DEF RxByte

\* The timer interrupt keeps the types.
LEMMA TickType ==
  ASSUME TypeOK, LeftInv, seg_timer_msec
  PROVE  TypeOK' /\ LeftInv'
<1> USE DEF main
<1>1. NextTime \in Nat
  BY DEF TypeOK, NextTime
<1>2. CASE TickCount
  BY <1>1, <1>2 DEF TickCount, TypeOK, LeftInv
<1>3. CASE TickTriggered
  <2>1. idx' \in 0 .. 3 /\ msTime' \in Nat
    BY <1>1, <1>3 DEF TickTriggered
  <2>2. sw' \in BOOLEAN /\ msTimer' \in BOOLEAN
    BY <1>3 DEF TickTriggered
  <2>3. QED
    BY <1>3, <2>1, <2>2 DEF TickTriggered, TypeOK, LeftInv
<1>4. CASE TickRestore
  <2>1. buf' \in [Index -> Cell] /\ wr' \in Index /\ chTmp' \in [0 .. 2 -> Cell]
    BY <1>4, RestoredType DEF TickRestore
  <2>2. idx' \in 0 .. 3 /\ msTime' \in Nat
    BY <1>1, <1>4 DEF TickRestore
  <2>3. msTimer' \in BOOLEAN
    BY <1>4 DEF TickRestore
  <2>4. QED
    BY <1>4, <2>1, <2>2, <2>3 DEF TickRestore, TypeOK, LeftInv, Cell
<1>5. QED
  BY <1>2, <1>3, <1>4 DEF seg_timer_msec

\* Every step of the main loop keeps the types.
LEMMA MainType ==
  ASSUME TypeOK, LeftInv, Main
  PROVE  TypeOK' /\ LeftInv'
<1> USE DEF TypeOK, LeftInv, ring, mode, detector
<1>1. Used(wr, rd) \in Index /\ Moved(rd, 1) \in Index
  BY RingTypes
<1>2. CASE SegBegin \/ SegEnd
  BY <1>2 DEF SegBegin, SegEnd
<1>3. CASE GetBegin
  <2>1. left' \in 1 .. Size - 1
    BY <1>1, <1>3, SizeAssumption DEF GetBegin, SizeAssumption, Index
  <2>2. QED
    BY <1>3, <2>1 DEF GetBegin
<1>4. CASE CmdBegin
  <2>1. left' \in 0 .. Size - 1
    BY <1>4, SizeAssumption DEF CmdBegin, SizeAssumption
  <2>2. QED
    BY <1>4, <2>1 DEF CmdBegin
<1>5. CASE GetByte
  <2>1. ch' \in Byte \cup {None}
    BY <1>5 DEF GetByte
  <2>2. QED
    BY <1>5, <2>1 DEF GetByte
<1>6. CASE GetMove
  <2>1. rd' \in Index /\ ch' \in Byte \cup {None}
    BY <1>1, <1>6 DEF GetMove
  <2>2. left' \in 0 .. Size - 1
    BY <1>6, SizeAssumption DEF GetMove, SizeAssumption
  <2>3. pc' \in {"get", "loop"} /\ (pc' = "get" /\ opmode = "gw" => left' # 0)
    BY <1>6, SizeAssumption DEF GetMove, SizeAssumption
  <2>4. QED
    BY <1>6, <2>1, <2>2, <2>3 DEF GetMove
<1>7. CASE Connect
  BY <1>7 DEF Connect
<1>8. CASE Reopen
  <2>1. gap' \in Nat \ {0}
    BY <1>8, RxAssumption DEF Reopen, RxAssumption
  <2>2. QED
    BY <1>8, <2>1 DEF Reopen
<1>9. ASSUME NEW bySeg \in BOOLEAN, SwitchBegin(bySeg) PROVE TypeOK' /\ LeftInv'
  BY <1>9 DEF SwitchBegin
<1>10. CASE FlushCmd
  BY <1>10 DEF FlushCmd
<1>11. CASE FlushWr \/ FlushRd
  <2>1. 0 \in Index
    BY SizeAssumption DEF SizeAssumption, Index
  <2>2. QED
    BY <1>11, <2>1 DEF FlushWr, FlushRd
<1>12. CASE SwitchStopTimer
  <2>1. msTimer' \in BOOLEAN
    BY <1>12 DEF SwitchStopTimer
  <2>2. QED
    BY <1>12, <2>1 DEF SwitchStopTimer
<1>13. CASE SwitchClearTime
  <2>1. msTime' \in Nat
    BY <1>13 DEF SwitchClearTime
  <2>2. QED
    BY <1>13, <2>1 DEF SwitchClearTime
<1>14. CASE SwitchClearSw
  <2>1. sw' \in BOOLEAN /\ bySwitch' \in BOOLEAN
    BY <1>14 DEF SwitchClearSw
  <2>2. QED
    BY <1>14, <2>1 DEF SwitchClearSw
<1>15. QED
  BY <1>2, <1>3, <1>4, <1>5, <1>6, <1>7, <1>8, <1>9, <1>10, <1>11, <1>12,
     <1>13, <1>14 DEF Main

\* No step breaks the types.
LEMMA TypeInductive == TypeOK /\ LeftInv /\ [Next]_rxVars => TypeOK' /\ LeftInv'
<1>1. TypeOK /\ LeftInv /\ UNCHANGED rxVars => TypeOK' /\ LeftInv'
  BY DEF TypeOK, LeftInv, rxVars
<1>2. TypeOK /\ LeftInv /\ Next => TypeOK' /\ LeftInv'
  BY RxType, TickType, MainType DEF Next
<1>3. QED
  BY <1>1, <1>2

\* The initial state has the types.
LEMMA TypeInit == Init => TypeOK /\ LeftInv
<1> SUFFICES ASSUME Init PROVE TypeOK /\ LeftInv
  OBVIOUS
<1>1. 0 \in Index /\ 0 \in 0 .. Size - 1
  BY SizeAssumption DEF SizeAssumption, Index
<1>2. buf \in [Index -> Byte \cup {None}]
  BY DEF Init
<1>3. chTmp \in [0 .. 2 -> Byte \cup {None}]
  BY DEF Init
<1>4. gap \in Nat \ {0} /\ msTime \in Nat /\ idx \in 0 .. 3
  BY RxAssumption DEF Init, RxAssumption
<1>5. msTimer \in BOOLEAN /\ sw \in BOOLEAN /\ bySwitch \in BOOLEAN
      /\ isXON \in BOOLEAN
  BY DEF Init
<1>6. QED
  BY <1>1, <1>2, <1>3, <1>4, <1>5 DEF Init, TypeOK, LeftInv

\* The indices stay inside the ring and every other variable keeps its type,
\* for every size of the ring and at every interleaving with the interrupts.
THEOREM TypeCorrect == Spec => []TypeOK
  BY TypeInit, TypeInductive, PTL DEF Spec

-----------------------------------------------------------------------------
(* The bytes held back                                                     *)

\* RxHold is the only step that lengthens what is held back.
LEMMA HeldInductive ==
  TypeOK /\ HeldIsTrigger /\ [Next]_rxVars => HeldIsTrigger'
<1> USE DEF HeldIsTrigger, main
<1>1. ASSUME HeldIsTrigger, UNCHANGED <<idx, chTmp>> PROVE HeldIsTrigger'
  BY <1>1
<1>2. ASSUME idx' = 0 PROVE HeldIsTrigger'
  BY <1>2
<1>3. ASSUME TypeOK, HeldIsTrigger, NEW b \in Byte, RxByte(b)
      PROVE  HeldIsTrigger'
  <2>1. CASE RxHold(b)
    <3>1. idx \in 0 .. 2 /\ b = Trigger[idx]
      BY <1>3, <2>1 DEF RxHold, Matches, TypeOK
    <3>2. chTmp' = [chTmp EXCEPT ![idx] = b] /\ idx' = idx + 1
      BY <2>1 DEF RxHold
    <3>3. chTmp \in [0 .. 2 -> Byte \cup {None}]
      BY <1>3 DEF TypeOK
    <3>4. QED
      BY <1>3, <3>1, <3>2, <3>3
  <2>2. CASE RxNotExamined(b) \/ RxData(b) \/ RxSwallow(b)
    BY <1>1, <1>3, <2>2 DEF RxNotExamined, RxData, RxSwallow
  <2>3. CASE RxMismatch(b)
    BY <1>2, <2>3 DEF RxMismatch
  <2>4. QED
    BY <1>3, <2>1, <2>2, <2>3 DEF RxByte
<1>4. ASSUME HeldIsTrigger, seg_timer_msec PROVE HeldIsTrigger'
  BY <1>1, <1>2, <1>4 DEF seg_timer_msec, TickCount, TickTriggered, TickRestore
<1>5. ASSUME HeldIsTrigger, Main PROVE HeldIsTrigger'
  <2>1. UNCHANGED <<idx, chTmp>>
    BY <1>5 DEF Main, SegBegin, SegEnd, GetBegin, CmdBegin, GetByte, GetMove,
       Connect, Reopen, SwitchBegin, FlushCmd, FlushWr, FlushRd,
       SwitchStopTimer, SwitchClearTime, SwitchClearSw, detector
  <2>2. QED
    BY <1>1, <1>5, <2>1
<1>6. HeldIsTrigger /\ UNCHANGED rxVars => HeldIsTrigger'
  BY <1>1 DEF rxVars
<1>7. QED
  BY <1>3, <1>4, <1>5, <1>6 DEF Next

\* What the detector holds back is always the beginning of the trigger code, so
\* a failed comparison gives back exactly the bytes the line carried.
THEOREM HeldCorrect == Spec => []HeldIsTrigger
<1>1. Init => HeldIsTrigger
  BY DEF Init, HeldIsTrigger
<1>2. QED
  BY <1>1, TypeInit, TypeInductive, HeldInductive, PTL DEF Spec
=============================================================================
