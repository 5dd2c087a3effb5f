----------------------- MODULE FirmwareUpdate_proofs -----------------------
(***************************************************************************)
(* Proofs about FirmwareUpdate for every size of bank, page, buffer and    *)
(* image and any number of connections: the types, what recv is asked for, *)
(* that bank and page buffer hold what was received, that no page leaves   *)
(* the bank, that a success has written what was received, and when that   *)
(* is the image.                                                           *)
(***************************************************************************)
EXTENDS FirmwareUpdate, TLAPS, SequenceTheorems

\* What a part of a sequence that lies inside it is.
LEMMA Part ==
  ASSUME NEW s \in Seq(Byte), NEW m \in Nat \ {0}, NEW n \in 0 .. Len(s)
  PROVE  /\ SubSeq(s, m, n) \in Seq(Byte)
         /\ Len(SubSeq(s, m, n)) = IF m <= n THEN n - m + 1 ELSE 0
         /\ \A i \in 1 .. n - m + 1 : SubSeq(s, m, n)[i] = s[m + i - 1]
<1>1. Len(s) \in Nat
  BY LenProperties
<1>2. \A i \in m .. n : i \in 1 .. Len(s)
  BY <1>1
<1>3. \A i \in m .. n : s[i] \in Byte
  BY <1>2, ElementOfSeq
<1>4. m \in Int /\ n \in Int
  BY <1>1
<1>5. QED
  BY <1>3, <1>4, SubSeqProperties

-----------------------------------------------------------------------------
(* Types, and the count of what was asked for                              *)

\* A connection has never brought more bytes than the update has; while more
\* are missing there is room to ask for; and what was counted is still there
\* when recv is called, unless the socket was closed meanwhile.
CountInv ==
  /\ pc \notin {"store", "idle"} => chunk = <<>>
  /\ pc = "idle" => sr = "closed"
  /\ sr # "closed" => recvFw <= writeLen + Len(chunk)
  /\ sr \in {"listen", "synrecv"} => recvFw = 0
  /\ pc \in Loop => writeLen < size
  /\ pc = "recv" =>
       /\ sr \in {"established", "close_wait", "closed"}
       /\ want \in 1 .. BufSize /\ recvFw + want <= size
       /\ sr # "closed" => want <= Len(rx)

TypeInv == TypeOK /\ CountInv

\* What is asked for is something, and no more than there is, than the buffer
\* takes and than is missing.
LEMMA AskedSome ==
  ASSUME TypeInv, pc = "poll", sr = "established", rx # <<>>
  PROVE  Asked \in 1 .. BufSize /\ recvFw + Asked <= size /\ Asked <= Len(rx)
<1>1. Len(rx) \in Nat \ {0}
  BY EmptySeq DEF TypeInv, TypeOK
<1>2. recvFw \in Nat /\ size \in Int /\ recvFw < size
  <2>1. chunk = <<>> /\ recvFw <= writeLen + Len(chunk) /\ writeLen < size
    BY DEF TypeInv, CountInv, Loop
  <2>2. Len(<<>>) = 0
    BY EmptySeq
  <2>3. recvFw \in Nat /\ writeLen \in Nat /\ size \in Int
    BY DEF TypeInv, TypeOK
  <2>4. QED
    BY <2>1, <2>2, <2>3
<1>3. BufSize \in Nat \ {0}
  BY UpdateAssumption DEF UpdateAssumption
<1>4. QED
  BY <1>1, <1>2, <1>3 DEF Asked, Least

\* The rest of a page that was written is shorter than a page.
LEMMA StoreTypes ==
  ASSUME TypeInv, Store
  PROVE  buf' \in Seq(Byte) /\ Len(buf') < PageSize /\ flashed' \in Seq(Byte)
<1> DEFINE all == buf \o chunk
<1>1. buf \in Seq(Byte) /\ chunk \in Seq(Byte) /\ flashed \in Seq(Byte)
      /\ Len(buf) < PageSize /\ Len(chunk) <= BufSize
  BY DEF TypeInv, TypeOK
<1>2. Len(buf) \in Nat /\ Len(chunk) \in Nat
  BY <1>1, LenProperties
<1>3. all \in Seq(Byte) /\ Len(all) = Len(buf) + Len(chunk)
  BY <1>1, ConcatProperties
<1>4. PageSize \in Nat \ {0} /\ BufSize \in Nat /\ BufSize < PageSize
  BY UpdateAssumption DEF UpdateAssumption
<1>5. CASE Fits(all)
  BY <1>1, <1>3, <1>5 DEF Store, Fits
<1>6. CASE ~Fits(all)
  <2>1. flashed' = flashed \o SubSeq(all, 1, PageSize) /\ buf' = Remainder(all)
    BY <1>6 DEF Store
  <2>2. PageSize \in 0 .. Len(all) /\ Len(all) \in 0 .. Len(all)
        /\ PageSize + 1 \in Nat \ {0}
    BY <1>2, <1>3, <1>4, <1>6 DEF Fits
  <2>3. SubSeq(all, 1, PageSize) \in Seq(Byte)
    BY <1>3, <2>2, Part
  <2>4. flashed' \in Seq(Byte)
    BY <1>1, <2>1, <2>3, ConcatProperties
  <2>5. buf' \in Seq(Byte)
    BY <1>3, <2>1, <2>2, Part DEF Remainder
  <2>6. Len(buf') = IF PageSize + 1 <= Len(all) THEN Len(all) - PageSize ELSE 0
    BY <1>3, <1>4, <2>1, <2>2, Part DEF Remainder
  <2>7. Len(buf') < PageSize
    BY <1>1, <1>2, <1>3, <1>4, <2>6
  <2>8. QED
    BY <2>4, <2>5, <2>7
<1>7. QED
  BY <1>5, <1>6

\* The last page is a page of bytes.
LEMMA LastPageType ==
  ASSUME TypeOK
  PROVE  /\ LastPage \in Seq(Byte)
         /\ buf = <<>> => LastPage = <<>>
         /\ buf # <<>> => /\ Len(LastPage) = PageSize
                          /\ \A i \in 1 .. Len(buf) : LastPage[i] = buf[i]
<1>1. buf \in Seq(Byte) /\ Len(buf) < PageSize /\ Len(buf) \in Nat
  BY LenProperties DEF TypeOK
<1>2. CASE buf = <<>>
  BY <1>2, EmptySeq DEF LastPage
<1>3. CASE buf # <<>>
  <2> DEFINE p == [i \in 1 .. PageSize |-> IF i <= Len(buf) THEN buf[i] ELSE Padding]
  <2>1. PageSize \in Nat
    BY UpdateAssumption DEF UpdateAssumption
  <2>2. \A i \in 1 .. PageSize :
          (IF i <= Len(buf) THEN buf[i] ELSE Padding) \in Byte
    <3>1. Padding \in Byte
      BY DEF Padding, Byte
    <3>2. \A i \in 1 .. PageSize : i <= Len(buf) => buf[i] \in Byte
      BY <1>1, <2>1, ElementOfSeq
    <3>3. QED
      BY <3>1, <3>2
  <2>3. p \in [1 .. PageSize -> Byte]
    BY <2>2
  <2>4. p \in Seq(Byte)
    BY <2>1, <2>3, SeqDef
  <2>5. Len(p) = PageSize
    <3>1. DOMAIN p = 1 .. Len(p) /\ Len(p) \in Nat
      BY <2>4, LenProperties
    <3>2. DOMAIN p = 1 .. PageSize
      OBVIOUS
    <3>3. QED
      BY <2>1, <3>1, <3>2
  <2>6. \A i \in 1 .. Len(buf) : p[i] = buf[i]
    BY <1>1, <2>1
  <2>7. LastPage = p
    BY <1>3 DEF LastPage
  <2>8. QED
    BY <1>3, <2>4, <2>5, <2>6, <2>7
<1>4. QED
  BY <1>2, <1>3

\* recv hands over what was asked for, from the front of what there is.
LEMMA RecvTakes ==
  ASSUME TypeInv, Recv
  PROVE  /\ chunk' \in Seq(Byte) /\ Len(chunk') = want /\ want \in 1 .. BufSize
         /\ \A i \in 1 .. want : chunk'[i] = rx[i]
         /\ SubSeq(rx, want + 1, Len(rx)) \in Seq(Byte)
         /\ Len(SubSeq(rx, want + 1, Len(rx))) = Len(rx) - want
         /\ \A i \in 1 .. Len(rx) - want :
              SubSeq(rx, want + 1, Len(rx))[i] = rx[want + i]
<1>1. want \in 1 .. BufSize /\ want <= Len(rx) /\ rx \in Seq(Byte)
  BY DEF TypeInv, TypeOK, CountInv, Recv
<1>2. Len(rx) \in Nat /\ BufSize \in Nat
  BY <1>1, LenProperties, UpdateAssumption DEF UpdateAssumption
<1>3. chunk' = SubSeq(rx, 1, want)
  BY DEF Recv
<1>4. want \in 0 .. Len(rx) /\ 1 \in Nat \ {0} /\ want + 1 \in Nat \ {0}
      /\ Len(rx) \in 0 .. Len(rx)
  BY <1>1, <1>2
<1>5. /\ chunk' \in Seq(Byte)
      /\ Len(chunk') = IF 1 <= want THEN want - 1 + 1 ELSE 0
      /\ \A i \in 1 .. want - 1 + 1 : chunk'[i] = rx[1 + i - 1]
  BY <1>1, <1>3, <1>4, Part
<1>6. /\ SubSeq(rx, want + 1, Len(rx)) \in Seq(Byte)
      /\ Len(SubSeq(rx, want + 1, Len(rx)))
           = IF want + 1 <= Len(rx) THEN Len(rx) - (want + 1) + 1 ELSE 0
      /\ \A i \in 1 .. Len(rx) - (want + 1) + 1 :
           SubSeq(rx, want + 1, Len(rx))[i] = rx[(want + 1) + i - 1]
  BY <1>1, <1>4, Part
<1>7. QED
  BY <1>1, <1>2, <1>4, <1>5, <1>6

\* A sequence that nothing follows, or a closed socket, holds nothing of a type
\* that could be wrong.
LEMMA NoBytes == <<>> \in Seq(Byte) /\ Len(<<>>) = 0
  BY EmptySeq

\* The device's steps keep the types and the count.
LEMMA TypeDevice == TypeInv /\ (Device \/ FlashFails) => TypeInv'
<1> SUFFICES ASSUME TypeInv, Device \/ FlashFails PROVE TypeInv'
  OBVIOUS
<1> USE NoBytes DEF TypeInv, SocketState
<1>0. /\ PageSize \in Nat \ {0} /\ BufSize \in Nat \ {0}
      /\ \A s \in Sizes : s \in 1 .. BankSize
      /\ BankSize \in Int
  BY UpdateAssumption DEF UpdateAssumption, BankSize
<1>1. CASE Begin
  BY <1>0, <1>1 DEF Begin, TypeOK, CountInv, Loop
<1>2. CASE PollData
  <2>1. Asked \in 1 .. BufSize /\ recvFw + Asked <= size /\ Asked <= Len(rx)
    BY <1>2, AskedSome DEF PollData
  <2>2. QED
    BY <1>0, <1>2, <2>1 DEF PollData, TypeOK, CountInv, Loop
<1>3. CASE PollCloseWait
  BY <1>3 DEF PollCloseWait, SocketClosed, device, TypeOK, CountInv, Loop
<1>4. CASE PollClosed
  BY <1>4 DEF PollClosed, TypeOK, CountInv, Loop
<1>5. CASE PollOther
  BY <1>5 DEF PollOther, SocketClosed, device, TypeOK, CountInv, Loop
<1>6. CASE Recv
  <2>1. /\ chunk' \in Seq(Byte) /\ Len(chunk') = want /\ want \in 1 .. BufSize
        /\ SubSeq(rx, want + 1, Len(rx)) \in Seq(Byte)
    BY <1>6, RecvTakes
  <2>2. taken' \in Seq(Byte)
    BY <1>6, <2>1, ConcatProperties DEF Recv, TypeOK
  <2>3. rx' \in Seq(Byte) /\ sr' \in {sr, "closed"}
    BY <1>6, <2>1 DEF Recv, SocketClosed
  <2>4. TypeOK'
    BY <1>0, <1>6, <2>1, <2>2, <2>3 DEF Recv, TypeOK
  <2>5. CountInv'
    BY <1>0, <1>6, <2>1, <2>3 DEF Recv, CountInv, Loop, TypeOK
  <2>6. QED
    BY <2>4, <2>5
<1>7. CASE RecvFails
  BY <1>7 DEF RecvFails, TypeOK, CountInv, Loop
<1>8. CASE Store
  <2>1. buf' \in Seq(Byte) /\ Len(buf') < PageSize /\ flashed' \in Seq(Byte)
    BY <1>8, StoreTypes
  <2>2. Len(chunk) \in Nat
    BY LenProperties DEF TypeOK
  <2>3. TypeOK'
    BY <1>0, <1>8, <2>1, <2>2 DEF Store, TypeOK
  <2>4. CountInv'
    BY <1>8, <2>2 DEF Store, Missing, TypeOK, CountInv, Loop
  <2>5. QED
    BY <2>3, <2>4
<1>9. CASE Finish
  <2>1. flashed' \in Seq(Byte)
    BY <1>9, LastPageType, ConcatProperties DEF Finish, TypeOK
  <2>2. QED
    BY <1>9, <2>1 DEF Finish, TypeOK, CountInv, Loop
<1>10. CASE FinishTooLong
  BY <1>10 DEF FinishTooLong, Failed, SocketClosed, TypeOK, CountInv, Loop
<1>11. CASE FlashFails
  BY <1>11 DEF FlashFails, Failed, SocketClosed, TypeOK, CountInv, Loop
<1>12. QED
  BY <1>1, <1>2, <1>3, <1>4, <1>5, <1>6, <1>7, <1>8, <1>9, <1>10, <1>11
     DEF Device, Poll

\* What the tool, the network and a restart do keeps the types and the count.
LEMMA TypeOutside == TypeInv /\ (Tool \/ Restart \/ UNCHANGED vars) => TypeInv'
<1> SUFFICES ASSUME TypeInv, Tool \/ Restart \/ UNCHANGED vars PROVE TypeInv'
  OBVIOUS
<1> USE NoBytes DEF TypeInv, SocketState, device
<1>1. CASE Syn
  BY <1>1 DEF Syn, TypeOK, CountInv, Loop
<1>2. CASE Established
  BY <1>2 DEF Established, TypeOK, CountInv, Loop
<1>3. CASE SendByte
  <2>1. sent + 1 \in Byte
    BY DEF TypeOK, Byte
  <2>2. rx' \in Seq(Byte) /\ Len(rx') = Len(rx) + 1 /\ Len(rx) \in Nat
    BY <1>3, <2>1, AppendProperties, LenProperties DEF SendByte, TypeOK
  <2>3. QED
    BY <1>3, <2>2 DEF SendByte, TypeOK, CountInv, Loop
<1>4. CASE Fin
  BY <1>4 DEF Fin, TypeOK, CountInv, Loop
<1>5. CASE Abort
  BY <1>5 DEF Abort, SocketClosed, TypeOK, CountInv, Loop
<1>6. CASE Restart
  <2>1. Len(<<>>) < PageSize /\ Len(<<>>) <= BufSize
    BY UpdateAssumption DEF UpdateAssumption
  <2>2. QED
    BY <1>6, <2>1 DEF Restart, TypeOK, CountInv, Loop
<1>7. CASE UNCHANGED vars
  BY <1>7 DEF vars, TypeOK, CountInv, Loop
<1>8. QED
  BY <1>1, <1>2, <1>3, <1>4, <1>5, <1>6, <1>7 DEF Tool

\* A blank start has the types.
LEMMA TypeInit == Init => TypeInv
<1>1. Len(<<>>) < PageSize /\ Len(<<>>) <= BufSize
  BY NoBytes, UpdateAssumption DEF UpdateAssumption
<1>2. \A s \in Sizes : s \in 1 .. BankSize
  BY UpdateAssumption DEF UpdateAssumption, BankSize
<1>3. QED
  BY <1>1, <1>2, NoBytes
     DEF Init, Blank, TypeInv, TypeOK, CountInv, SocketState, Loop

\* The types and the count, in every reachable state.
LEMMA TypeAlways == Spec => []TypeInv
<1>1. TypeInv /\ [Next]_vars => TypeInv'
  BY TypeDevice, TypeOutside DEF Next
<1>2. QED
  BY TypeInit, <1>1, PTL DEF Spec

\* Every variable of the update keeps to its C type and its role.
THEOREM TypeCorrect == Spec => []TypeOK
<1>1. TypeInv => TypeOK
  BY DEF TypeInv
<1>2. QED
  BY <1>1, TypeAlways, PTL

\* recv is never asked for nothing, nor for more than is missing: fwup_size -
\* recv_fwsize does not wrap, although a new connection starts recv_fwsize again
\* while write_fw_len goes on.
THEOREM AskCorrect == Spec => []AsksForSome
<1>1. TypeInv => AsksForSome
  BY DEF TypeInv, CountInv, AsksForSome
<1>2. QED
  BY <1>1, TypeAlways, PTL

-----------------------------------------------------------------------------
(* Nothing is lost between recv and the flash                              *)

\* One round of the loop moves bytes from the chunk to the buffer and the bank,
\* and changes none of them.
LEMMA StoreKeeps ==
  ASSUME TypeInv, Store
  PROVE  /\ flashed' \o buf' = (flashed \o buf) \o chunk
         /\ \/ flashed' = flashed /\ Len(buf') = Len(buf) + Len(chunk)
            \/ /\ Len(flashed') = Len(flashed) + PageSize
               /\ Len(buf') + PageSize = Len(buf) + Len(chunk)
<1> DEFINE all == buf \o chunk
<1>1. buf \in Seq(Byte) /\ chunk \in Seq(Byte) /\ flashed \in Seq(Byte)
  BY DEF TypeInv, TypeOK
<1>2. Len(buf) \in Nat /\ Len(chunk) \in Nat /\ PageSize \in Nat \ {0}
  BY <1>1, LenProperties, UpdateAssumption DEF UpdateAssumption
<1>3. all \in Seq(Byte) /\ Len(all) = Len(buf) + Len(chunk) /\ Len(all) \in Nat
  BY <1>1, <1>2, ConcatProperties
<1>4. flashed \o all = (flashed \o buf) \o chunk
  BY <1>1, ConcatAssociative
<1>5. CASE Fits(all)
  BY <1>3, <1>4, <1>5 DEF Store
<1>6. CASE ~Fits(all)
  <2> DEFINE page == SubSeq(all, 1, PageSize)
             rest == SubSeq(all, PageSize + 1, Len(all))
  <2>1. flashed' = flashed \o page /\ buf' = rest
    BY <1>6 DEF Store, Remainder
  <2>2. PageSize \in 0 .. Len(all) /\ Len(all) \in PageSize .. Len(all)
        /\ 1 \in 1 .. Len(all) + 1 /\ PageSize \in 1 - 1 .. Len(all)
    BY <1>2, <1>3, <1>6 DEF Fits
  <2>3. page \in Seq(Byte) /\ Len(page) = PageSize
    BY <1>2, <1>3, <2>2, Part
  <2>4. rest \in Seq(Byte)
        /\ Len(rest) = IF PageSize + 1 <= Len(all)
                         THEN Len(all) - (PageSize + 1) + 1 ELSE 0
    <3>1. PageSize + 1 \in Nat \ {0} /\ Len(all) \in 0 .. Len(all)
      BY <1>2, <1>3
    <3>2. QED
      BY <1>3, <3>1, Part
  <2>5. page \o rest = SubSeq(all, 1, Len(all))
    BY <1>3, <2>2, ConcatAdjacentSubSeq
  <2>6. page \o rest = all
    BY <1>3, <2>5, SubSeqFull
  <2> HIDE DEF page, rest, all
  <2>7. flashed' \o buf' = flashed \o all
    <3>1. flashed \in Seq(Byte) /\ page \in Seq(Byte) /\ rest \in Seq(Byte)
      BY <1>1, <2>3, <2>4
    <3>2. (flashed \o page) \o rest = flashed \o (page \o rest)
      BY <3>1, ConcatAssociative
    <3>3. QED
      BY <2>1, <2>6, <3>2
  <2>8. Len(flashed') = Len(flashed) + PageSize
    BY <1>1, <2>1, <2>3, ConcatProperties
  <2>9. Len(buf') + PageSize = Len(buf) + Len(chunk)
    <3>1. Len(buf') = Len(rest)
      BY <2>1
    <3>2. PageSize <= Len(all)
      BY <1>3, <2>2
    <3>3. QED
      BY <1>2, <1>3, <2>4, <3>1, <3>2
  <2>10. QED
    BY <1>4, <2>7, <2>8, <2>9
<1>7. QED
  BY <1>5, <1>6

\* Bank and buffer hold every byte received, in order and once.
LEMMA TakenInductive ==
  TypeInv /\ TakenIsWritten /\ [Next]_vars => TakenIsWritten'
<1> SUFFICES ASSUME TypeInv, TakenIsWritten, [Next]_vars PROVE TakenIsWritten'
  OBVIOUS
<1> USE DEF TakenIsWritten, Loop
<1>0. buf \in Seq(Byte) /\ chunk \in Seq(Byte) /\ flashed \in Seq(Byte)
      /\ <<>> \in Seq(Byte) /\ flashed \o buf \in Seq(Byte)
  BY NoBytes, ConcatProperties DEF TypeInv, TypeOK
<1>1. CASE Begin
  BY <1>0, <1>1, ConcatEmptySeq DEF Begin
<1>2. CASE Poll
  BY <1>2 DEF Poll, PollData, PollCloseWait, PollClosed, PollOther, device
<1>3. CASE Recv
  <2>1. chunk = <<>>
    BY <1>3 DEF Recv, TypeInv, CountInv
  <2>2. taken = flashed \o buf
    BY <1>0, <1>3, <2>1, ConcatEmptySeq DEF Recv
  <2>3. QED
    BY <1>3, <2>2 DEF Recv
<1>4. CASE RecvFails \/ FinishTooLong \/ Restart \/ FlashFails
  BY <1>4 DEF RecvFails, FinishTooLong, Restart, FlashFails, Failed
<1>5. CASE Store
  <2>1. flashed' \o buf' = taken /\ taken' = taken /\ chunk' = <<>>
    BY <1>5, StoreKeeps DEF Store
  <2>2. flashed' \o buf' \in Seq(Byte)
    BY <1>5, StoreTypes, ConcatProperties
  <2>3. QED
    BY <2>1, <2>2, ConcatEmptySeq
<1>6. CASE Finish
  BY <1>6 DEF Finish
<1>7. CASE Tool \/ UNCHANGED vars
  BY <1>7 DEF Tool, Syn, Established, SendByte, Fin, Abort, device, vars
<1>8. QED
  BY <1>1, <1>2, <1>3, <1>4, <1>5, <1>6, <1>7 DEF Next, Device

\* Bank and page buffer together hold every byte recv has returned, in order and
\* once, wherever a page boundary falls.
THEOREM TakenCorrect == Spec => []TakenIsWritten
<1>1. Init => TakenIsWritten
  BY DEF Init, Blank, TakenIsWritten, Loop
<1>2. QED
  BY <1>1, TakenInductive, TypeAlways, PTL DEF Spec

-----------------------------------------------------------------------------
(* Pages of the bank                                                       *)

\* A bank that is not full of whole pages has room for one more.
LEMMA RoomForPage ==
  ASSUME NEW P \in Nat \ {0}, NEW B \in Nat, NEW k \in Nat, k * P < B * P
  PROVE  k * P + P = (k + 1) * P /\ k * P + P <= B * P
<1>1. k * P + P = (k + 1) * P
  BY SMTT(30)
<1>2. k < B
  <2> SUFFICES ASSUME B <= k PROVE FALSE
    OBVIOUS
  <2>1. B * P <= k * P
    BY SMTT(30)
  <2>2. B * P \in Int /\ k * P \in Int
    OBVIOUS
  <2>3. QED
    BY <2>1, <2>2
<1>3. (k + 1) * P <= B * P
  <2>1. k + 1 <= B
    BY <1>2
  <2>2. QED
    BY <2>1, SMTT(30)
<1>4. QED
  BY <1>1, <1>3

\* The bank is written in whole pages, and until the last page bank and buffer
\* count what write_fw_len counts.
PageInv ==
  /\ \E k \in Nat : Len(flashed) = k * PageSize
  /\ pc \in Loop \cup {"finish"} => Len(flashed) + Len(buf) = writeLen
  /\ StaysInBank

LEMMA PageInductive == TypeInv /\ PageInv /\ [Next]_vars => PageInv'
<1> SUFFICES ASSUME TypeInv, PageInv, [Next]_vars PROVE PageInv'
  OBVIOUS
<1> USE DEF PageInv, StaysInBank, Loop
<1>0. /\ Len(<<>>) = 0 /\ 0 = 0 * PageSize /\ 0 <= BankSize
      /\ PageSize \in Nat \ {0} /\ BankPages \in Nat /\ BankSize \in Nat
      /\ Len(flashed) \in Nat /\ Len(buf) \in Nat /\ Len(chunk) \in Nat
      /\ size <= BankSize
      /\ writeLen \in Nat /\ size \in Nat
  <2>1. PageSize \in Nat \ {0} /\ BankPages \in Nat /\ BankSize \in Nat
        /\ 0 = 0 * PageSize
    BY UpdateAssumption DEF UpdateAssumption, BankSize
  <2>2. QED
    BY <2>1, NoBytes, LenProperties DEF TypeInv, TypeOK
\* one page more, where a whole page was missing
<1>a. ASSUME Len(flashed') = Len(flashed) + PageSize, Len(flashed) < BankSize
      PROVE  /\ \E k \in Nat : Len(flashed') = k * PageSize
             /\ Len(flashed') <= BankSize
  <2>1. PICK k \in Nat : Len(flashed) = k * PageSize
    OBVIOUS
  <2>2. k * PageSize < BankPages * PageSize
    BY <1>a, <2>1 DEF BankSize
  <2>3. /\ k * PageSize + PageSize = (k + 1) * PageSize
        /\ k * PageSize + PageSize <= BankPages * PageSize
    BY <1>0, <2>2, RoomForPage
  <2>4. k + 1 \in Nat /\ Len(flashed') = (k + 1) * PageSize
    BY <1>a, <2>1, <2>3
  <2>5. QED
    BY <1>a, <2>1, <2>3, <2>4 DEF BankSize
<1>1. CASE Begin
  BY <1>0, <1>1 DEF Begin
<1>2. CASE Poll \/ Recv
  BY <1>2 DEF Poll, PollData, PollCloseWait, PollClosed, PollOther, device, Recv
<1>3. CASE RecvFails \/ FinishTooLong \/ FlashFails
  BY <1>3 DEF RecvFails, FinishTooLong, FlashFails, Failed
<1>4. CASE Store
  <2>1. \/ flashed' = flashed /\ Len(buf') = Len(buf) + Len(chunk)
        \/ /\ Len(flashed') = Len(flashed) + PageSize
           /\ Len(buf') + PageSize = Len(buf) + Len(chunk)
    BY <1>4, StoreKeeps
  <2>2. /\ writeLen' = writeLen + Len(chunk) /\ Len(flashed) + Len(buf) = writeLen
        /\ writeLen < size
    BY <1>4 DEF Store, TypeInv, CountInv
  <2>3. buf' \in Seq(Byte) /\ flashed' \in Seq(Byte)
    BY <1>4, StoreTypes
  <2>4. Len(buf') \in Nat /\ Len(flashed') \in Nat
    BY <2>3, LenProperties
  <2>5. Len(flashed') + Len(buf') = writeLen'
    BY <1>0, <2>1, <2>2, <2>4
  <2>6. Len(flashed) < BankSize
    BY <1>0, <2>2
  <2>7. CASE flashed' = flashed
    BY <2>5, <2>7
  <2>8. CASE Len(flashed') = Len(flashed) + PageSize
    BY <1>a, <2>5, <2>6, <2>8
  <2>9. QED
    BY <2>1, <2>7, <2>8
<1>5. CASE Finish
  <2>1. writeLen = size /\ Len(flashed) + Len(buf) = writeLen
        /\ flashed' = flashed \o LastPage /\ pc' = "success"
    BY <1>5 DEF Finish, AllIn
  <2>2. CASE buf = <<>>
    <3>1. flashed' = flashed
      BY <2>1, <2>2, LastPageType, ConcatEmptySeq DEF TypeInv, TypeOK
    <3>2. QED
      BY <2>1, <3>1
  <2>3. CASE buf # <<>>
    <3>1. Len(flashed') = Len(flashed) + PageSize
      <4>1. LastPage \in Seq(Byte) /\ Len(LastPage) = PageSize
        BY <2>3, LastPageType DEF TypeInv
      <4>2. flashed \in Seq(Byte)
        BY DEF TypeInv, TypeOK
      <4>3. QED
        BY <2>1, <4>1, <4>2, ConcatProperties
    <3>2. Len(buf) > 0
      BY <2>3, EmptySeq DEF TypeInv, TypeOK
    <3>3. Len(flashed) < BankSize
      BY <1>0, <2>1, <3>2
    <3>4. QED
      BY <1>a, <2>1, <3>1, <3>3
  <2>4. QED
    BY <2>2, <2>3
<1>6. CASE Restart
  BY <1>0, <1>6 DEF Restart
<1>7. CASE Tool \/ UNCHANGED vars
  BY <1>7 DEF Tool, Syn, Established, SendByte, Fin, Abort, device, vars
<1>8. QED
  BY <1>1, <1>2, <1>3, <1>4, <1>5, <1>6, <1>7 DEF Next, Device

LEMMA PageAlways == Spec => []PageInv
<1>1. Init => PageInv
  <2>1. 0 = 0 * PageSize /\ 0 <= BankSize
    BY UpdateAssumption DEF UpdateAssumption, BankSize
  <2>2. QED
    BY <2>1, NoBytes DEF Init, Blank, PageInv, StaysInBank, Loop
<1>2. QED
  BY <1>1, PageInductive, TypeAlways, PTL DEF Spec

\* No page is written behind the end of the bank, however many bytes the tool
\* sends and however often it comes back.
THEOREM BankCorrect == Spec => []StaysInBank
<1>1. PageInv => StaysInBank
  BY DEF PageInv
<1>2. QED
  BY <1>1, PageAlways, PTL

-----------------------------------------------------------------------------
(* A success has written what came                                         *)

\* With all of fwup_size in, the bank with its last page begins with what came.
LEMMA FinishWrites ==
  ASSUME TypeInv, TakenIsWritten, PageInv, Finish
  PROVE  /\ Len(taken) = size /\ Len(flashed') >= size
         /\ \A i \in 1 .. size : flashed'[i] = taken[i]
<1>1. /\ flashed \in Seq(Byte) /\ buf \in Seq(Byte) /\ LastPage \in Seq(Byte)
      /\ flashed \o buf \in Seq(Byte) /\ size \in Nat \ {0}
      /\ Len(flashed) \in Nat /\ Len(buf) \in Nat /\ Len(LastPage) \in Nat
  <2>1. flashed \in Seq(Byte) /\ buf \in Seq(Byte) /\ LastPage \in Seq(Byte)
    BY LastPageType DEF TypeInv, TypeOK
  <2>2. size \in Nat \ {0}
    BY DEF TypeInv, TypeOK
  <2>3. QED
    BY <2>1, <2>2, ConcatProperties, LenProperties
<1>2. taken = flashed \o buf
  <2>1. chunk = <<>>
    BY DEF Finish, TypeInv, CountInv
  <2>2. (flashed \o buf) \o <<>> = taken
    BY <2>1 DEF TakenIsWritten, Finish
  <2>3. QED
    BY <1>1, <2>2, ConcatEmptySeq
<1>3. Len(flashed) + Len(buf) = size
  BY DEF PageInv, Finish, AllIn
<1>4. Len(taken) = size
      /\ \A i \in 1 .. size : taken[i] = IF i <= Len(flashed) THEN flashed[i]
                                         ELSE buf[i - Len(flashed)]
  BY <1>1, <1>2, <1>3, ConcatProperties
<1>5. /\ Len(flashed') = Len(flashed) + Len(LastPage)
      /\ \A i \in 1 .. Len(flashed) + Len(LastPage) :
           flashed'[i] = IF i <= Len(flashed) THEN flashed[i]
                         ELSE LastPage[i - Len(flashed)]
  BY <1>1, ConcatProperties DEF Finish
<1>6. Len(buf) <= Len(LastPage)
      /\ \A i \in 1 .. Len(buf) : LastPage[i] = buf[i]
  <2>1. CASE buf = <<>>
    BY <1>1, <2>1, NoBytes
  <2>2. CASE buf # <<>>
    <3>1. Len(buf) < PageSize
      BY DEF TypeInv, TypeOK
    <3>2. PageSize \in Nat
      BY UpdateAssumption DEF UpdateAssumption
    <3>3. Len(LastPage) = PageSize /\ \A i \in 1 .. Len(buf) : LastPage[i] = buf[i]
      BY <2>2, LastPageType DEF TypeInv
    <3>4. QED
      BY <1>1, <3>1, <3>2, <3>3
  <2>3. QED
    BY <2>1, <2>2
<1>7. \A i \in 1 .. size : flashed'[i] = taken[i]
  <2> SUFFICES ASSUME NEW i \in 1 .. size PROVE flashed'[i] = taken[i]
    OBVIOUS
  <2>1. i \in 1 .. Len(flashed) + Len(LastPage)
    BY <1>1, <1>3, <1>6
  <2>2. CASE i <= Len(flashed)
    BY <1>4, <1>5, <2>1, <2>2
  <2>3. CASE ~(i <= Len(flashed))
    <3>1. i - Len(flashed) \in 1 .. Len(buf)
      BY <1>1, <1>3, <2>3
    <3>2. QED
      BY <1>4, <1>5, <1>6, <2>1, <2>3, <3>1
  <2>4. QED
    BY <2>2, <2>3
<1>8. Len(flashed') >= size
  BY <1>1, <1>3, <1>5, <1>6
<1>9. QED
  BY <1>4, <1>7, <1>8

\* An update that reports success has written fwup_size bytes to the start of
\* the bank, each as recv returned it, over any number of connections, lost
\* connections and page boundaries.
SuccessIsTaken ==
  pc = "success" =>
    /\ Len(taken) = size /\ Len(flashed) >= size
    /\ \A i \in 1 .. size : flashed[i] = taken[i]

LEMMA WrittenInductive ==
  TypeInv /\ TakenIsWritten /\ PageInv /\ SuccessIsTaken /\ [Next]_vars
    => SuccessIsTaken'
<1> SUFFICES ASSUME TypeInv, TakenIsWritten, PageInv, SuccessIsTaken, [Next]_vars
             PROVE  SuccessIsTaken'
  OBVIOUS
<1>1. CASE Finish
  <2>1. taken' = taken /\ size' = size
    BY <1>1 DEF Finish
  <2>2. QED
    BY <1>1, <2>1, FinishWrites DEF SuccessIsTaken
<1>2. CASE Begin \/ Poll \/ Recv \/ RecvFails \/ Store
  <2>1. pc' # "success"
    BY <1>2 DEF Begin, Poll, PollData, PollCloseWait, PollClosed, PollOther, device,
                Recv, RecvFails, Store
  <2>2. QED
    BY <2>1 DEF SuccessIsTaken
<1>3. CASE FinishTooLong \/ FlashFails \/ Restart
  BY <1>3 DEF FinishTooLong, FlashFails, Failed, Restart, SuccessIsTaken
<1>4. CASE Tool \/ UNCHANGED vars
  <2>1. UNCHANGED <<pc, taken, size, flashed>>
    BY <1>4 DEF Tool, Syn, Established, SendByte, Fin, Abort, device, vars
  <2>2. QED
    BY <2>1 DEF SuccessIsTaken
<1>5. QED
  BY <1>1, <1>2, <1>3, <1>4 DEF Next, Device

THEOREM WrittenCorrect == Spec => []SuccessIsTaken
<1>1. Init => SuccessIsTaken
  BY DEF Init, Blank, SuccessIsTaken
<1>2. QED
  BY <1>1, WrittenInductive, TakenCorrect, TypeAlways, PageAlways, PTL DEF Spec

-----------------------------------------------------------------------------
(* When that is the image                                                  *)

Connected == sr \in {"established", "close_wait"}

\* The bytes of a connection come in order from the first, and the last recvFw
\* bytes taken are those of the last connection; they are all there is while the
\* first connection lasts, and when its last byte has been taken.
InOrder ==
  pc # "idle" =>
    /\ Connected =>
         /\ conns # 0
         /\ sent = recvFw + Len(rx)
         /\ \A i \in 1 .. Len(rx) : rx[i] = recvFw + i
    /\ conns = 0 => taken = <<>>
    /\ conns # 0 =>
         /\ recvFw <= Len(taken)
         /\ \A i \in 1 .. recvFw : taken[(Len(taken) - recvFw) + i] = i
    /\ pc \in {"store", "finish", "success"} => conns # 0 /\ recvFw > 0
    /\ conns = 1 /\ (Connected \/ pc \in {"store", "finish", "success"}) =>
         Len(taken) = recvFw

\* What recv returns carries on where it ended before on this connection.
LEMMA OrderRecv == TypeInv /\ InOrder /\ Recv => InOrder'
<1> SUFFICES ASSUME TypeInv, InOrder, Recv PROVE InOrder'
  OBVIOUS
<1>1. /\ chunk' \in Seq(Byte) /\ Len(chunk') = want /\ want \in Nat /\ want > 0
      /\ \A i \in 1 .. want : chunk'[i] = rx[i]
      /\ SubSeq(rx, want + 1, Len(rx)) \in Seq(Byte)
      /\ Len(SubSeq(rx, want + 1, Len(rx))) = Len(rx) - want
      /\ \A i \in 1 .. Len(rx) - want :
           SubSeq(rx, want + 1, Len(rx))[i] = rx[want + i]
  BY RecvTakes DEF TypeInv, TypeOK
<1>2. /\ taken \in Seq(Byte) /\ Len(taken) \in Nat /\ rx \in Seq(Byte)
      /\ Len(rx) \in Nat /\ recvFw \in Nat /\ sent \in Nat /\ want <= Len(rx)
  BY LenProperties DEF TypeInv, TypeOK, CountInv, Recv
<1>3. /\ Len(taken') = Len(taken) + want
      /\ \A i \in 1 .. Len(taken) + want :
           taken'[i] = IF i <= Len(taken) THEN taken[i] ELSE chunk'[i - Len(taken)]
  <2>1. taken' = taken \o chunk'
    BY DEF Recv
  <2>2. taken \in Seq(Byte) /\ chunk' \in Seq(Byte) /\ Len(chunk') = want
    BY <1>1, <1>2
  <2>3. QED
    BY <2>1, <2>2, ConcatProperties
<1>4. /\ pc = "recv" /\ pc' = "store" /\ conns' = conns
      /\ recvFw' = recvFw + want /\ sent' = sent /\ Connected
      /\ \/ sr' = "closed"
         \/ sr' = sr /\ rx' = SubSeq(rx, want + 1, Len(rx))
  BY DEF Recv, SocketClosed, Connected
<1>5. /\ conns # 0 /\ sent = recvFw + Len(rx)
      /\ \A i \in 1 .. Len(rx) : rx[i] = recvFw + i
      /\ recvFw <= Len(taken)
      /\ \A i \in 1 .. recvFw : taken[(Len(taken) - recvFw) + i] = i
      /\ conns = 1 => Len(taken) = recvFw
  BY <1>4 DEF InOrder
<1>6. ASSUME NEW i \in 1 .. recvFw' PROVE taken'[(Len(taken') - recvFw') + i] = i
  <2> DEFINE p == (Len(taken) - recvFw) + i
  <2>1. Len(taken') - recvFw' = Len(taken) - recvFw /\ i \in 1 .. recvFw + want
    BY <1>1, <1>2, <1>3, <1>4
  <2>2. p \in 1 .. Len(taken) + want
    BY <1>1, <1>2, <1>5, <2>1
  <2>3. CASE i <= recvFw
    <3>1. p <= Len(taken) /\ i \in 1 .. recvFw
      BY <1>2, <1>5, <2>1, <2>3
    <3>2. taken'[p] = taken[p]
      BY <1>3, <2>2, <3>1
    <3>3. taken[p] = i
      BY <1>5, <3>1
    <3>4. QED
      BY <2>1, <3>2, <3>3
  <2>4. CASE ~(i <= recvFw)
    <3>1. ~(p <= Len(taken)) /\ p - Len(taken) = i - recvFw
          /\ i - recvFw \in 1 .. want /\ i - recvFw \in 1 .. Len(rx)
      BY <1>1, <1>2, <1>5, <2>1, <2>4
    <3>2. taken'[p] = chunk'[i - recvFw]
      BY <1>3, <2>2, <3>1
    <3>3. chunk'[i - recvFw] = rx[i - recvFw]
      BY <1>1, <3>1
    <3>4. rx[i - recvFw] = recvFw + (i - recvFw)
      BY <1>5, <3>1
    <3>5. recvFw + (i - recvFw) = i
      BY <1>2, <2>1
    <3>6. QED
      BY <2>1, <3>2, <3>3, <3>4, <3>5
  <2>5. QED
    BY <2>3, <2>4
<1>7. ASSUME sr' # "closed"
      PROVE  /\ sent' = recvFw' + Len(rx')
             /\ \A i \in 1 .. Len(rx') : rx'[i] = recvFw' + i
  <2>1. rx' = SubSeq(rx, want + 1, Len(rx))
    BY <1>4, <1>7
  <2>2. Len(rx') = Len(rx) - want
    BY <1>1, <2>1
  <2>3. sent' = recvFw' + Len(rx')
    BY <1>1, <1>2, <1>4, <1>5, <2>2
  <2>4. ASSUME NEW i \in 1 .. Len(rx') PROVE rx'[i] = recvFw' + i
    <3>1. i \in 1 .. Len(rx) - want /\ want + i \in 1 .. Len(rx)
      BY <1>1, <1>2, <2>2
    <3>2. rx'[i] = rx[want + i]
      BY <1>1, <2>1, <3>1
    <3>3. rx[want + i] = recvFw + (want + i)
      BY <1>5, <3>1
    <3>4. QED
      BY <1>1, <1>2, <1>4, <3>1, <3>2, <3>3
  <2>5. QED
    BY <2>3, <2>4
<1>8. recvFw' <= Len(taken') /\ recvFw' > 0 /\ (conns = 1 => Len(taken') = recvFw')
  <2>1. recvFw' = recvFw + want /\ Len(taken') = Len(taken) + want
    BY <1>3, <1>4
  <2>2. recvFw + want <= Len(taken) + want /\ recvFw + want > 0
    BY <1>1, <1>2, <1>5
  <2>3. conns = 1 => Len(taken) + want = recvFw + want
    BY <1>5
  <2>4. QED
    BY <2>1, <2>2, <2>3
<1>9. Connected' => sr' # "closed"
  BY DEF Connected
<1>10. QED
  BY <1>4, <1>5, <1>6, <1>7, <1>8, <1>9 DEF InOrder

\* What comes in on a connection carries on where the tool was.
LEMMA OrderSend == TypeInv /\ InOrder /\ SendByte => InOrder'
<1> SUFFICES ASSUME TypeInv, InOrder, SendByte PROVE InOrder'
  OBVIOUS
<1>1. rx \in Seq(Byte) /\ Len(rx) \in Nat /\ sent \in Nat /\ recvFw \in Nat
      /\ sent + 1 \in Byte
  BY LenProperties DEF TypeInv, TypeOK, Byte
<1>2. /\ Len(rx') = Len(rx) + 1 /\ sent' = sent + 1
      /\ \A i \in 1 .. Len(rx) : rx'[i] = rx[i]
      /\ rx'[Len(rx) + 1] = sent + 1
  BY <1>1, AppendProperties DEF SendByte
<1>3. ASSUME pc # "idle"
      PROVE  /\ sent' = recvFw + Len(rx')
             /\ \A i \in 1 .. Len(rx') : rx'[i] = recvFw + i
  <2>1. /\ sent = recvFw + Len(rx)
        /\ \A i \in 1 .. Len(rx) : rx[i] = recvFw + i
    BY <1>3 DEF InOrder, Connected, SendByte
  <2>2. sent' = recvFw + Len(rx')
    BY <1>1, <1>2, <2>1
  <2>3. ASSUME NEW i \in 1 .. Len(rx') PROVE rx'[i] = recvFw + i
    <3>1. CASE i \in 1 .. Len(rx)
      BY <1>2, <2>1, <3>1
    <3>2. CASE i = Len(rx) + 1
      BY <1>1, <1>2, <2>1, <3>2
    <3>3. QED
      BY <1>1, <1>2, <3>1, <3>2
  <2>4. QED
    BY <2>2, <2>3
<1>4. UNCHANGED <<sr, conns, pc, recvFw, taken>>
  BY DEF SendByte, device
<1>5. QED
  BY <1>3, <1>4 DEF InOrder, Connected

\* A new connection starts with nothing received and nothing counted.
LEMMA OrderEstablished == TypeInv /\ InOrder /\ Established => InOrder'
<1> SUFFICES ASSUME TypeInv, InOrder, Established PROVE InOrder'
  OBVIOUS
<1>1. /\ conns' = conns + 1 /\ sr = "synrecv" /\ sr' = "established" /\ rx' = <<>>
      /\ sent' = 0 /\ UNCHANGED <<pc, recvFw, taken>>
  BY DEF Established, device
<1>2. recvFw = 0 /\ conns \in Nat /\ Len(taken) \in Nat
  BY <1>1, LenProperties DEF TypeInv, TypeOK, CountInv
<1>3. conns' # 0 /\ (conns' = 1 => conns = 0)
  BY <1>1, <1>2
<1>4. ASSUME pc # "idle" PROVE /\ conns = 0 => taken = <<>>
                               /\ pc \notin {"store", "finish", "success"}
  BY <1>2, <1>4 DEF InOrder
<1>5. taken = <<>> => Len(taken) = 0
  BY NoBytes
<1>6. Len(rx') = 0
  BY <1>1, NoBytes
<1>7. QED
  BY <1>1, <1>2, <1>3, <1>4, <1>5, <1>6 DEF InOrder

\* Every other step of the device, and those of the tool and the network, leave
\* the order alone.
LEMMA OrderInductive == TypeInv /\ InOrder /\ [Next]_vars => InOrder'
<1> SUFFICES ASSUME TypeInv, InOrder, [Next]_vars PROVE InOrder'
  OBVIOUS
<1>0. Len(taken) \in Nat /\ recvFw \in Nat
  BY LenProperties DEF TypeInv, TypeOK
<1>1. CASE Begin
  <2>1. sr' = "closed" /\ conns' = 0 /\ taken' = <<>> /\ pc' = "poll"
    BY <1>1 DEF Begin, TypeInv, CountInv
  <2>2. QED
    BY <2>1 DEF InOrder, Connected
<1>2. CASE PollData
  BY <1>2 DEF PollData, InOrder, Connected
<1>3. CASE PollCloseWait \/ PollOther
  BY <1>3 DEF PollCloseWait, PollOther, device, SocketClosed, InOrder, Connected
<1>4. CASE PollClosed
  <2>1. /\ pc = "poll" /\ sr' = "listen" /\ recvFw' = 0
        /\ UNCHANGED <<pc, conns, taken>>
    BY <1>4 DEF PollClosed
  <2>2. QED
    BY <1>0, <2>1 DEF InOrder, Connected
<1>5. CASE Recv
  BY <1>5, OrderRecv
<1>6. CASE RecvFails
  BY <1>6 DEF RecvFails, InOrder, Connected
<1>7. CASE FinishTooLong \/ FlashFails \/ Restart
  BY <1>7 DEF FinishTooLong, FlashFails, Failed, Restart, InOrder
<1>8. CASE Store \/ Finish
  <2>1. /\ pc \in {"store", "finish"} /\ pc' \in {"poll", "finish", "success"}
        /\ UNCHANGED <<sr, rx, sent, conns, recvFw, taken>>
    BY <1>8 DEF Store, Finish
  <2>2. QED
    BY <2>1 DEF InOrder, Connected
<1>9. CASE Syn \/ Fin \/ Abort \/ UNCHANGED vars
  <2>1. CASE Syn
    BY <2>1 DEF Syn, device, InOrder, Connected
  <2>2. CASE Fin
    BY <2>2 DEF Fin, device, InOrder, Connected
  <2>3. CASE Abort
    BY <2>3 DEF Abort, SocketClosed, device, InOrder, Connected
  <2>4. CASE UNCHANGED vars
    BY <2>4 DEF vars, InOrder, Connected
  <2>5. QED
    BY <1>9, <2>1, <2>2, <2>3, <2>4
<1>10. CASE Established
  BY <1>10, OrderEstablished
<1>11. CASE SendByte
  BY <1>11, OrderSend
<1>12. QED
  BY <1>1, <1>2, <1>3, <1>4, <1>5, <1>6, <1>7, <1>8, <1>9, <1>10, <1>11
     DEF Next, Device, Tool, Poll

LEMMA OrderAlways == Spec => []InOrder
<1>1. Init => InOrder
  BY DEF Init, Blank, InOrder
<1>2. QED
  BY <1>1, OrderInductive, TypeAlways, PTL DEF Spec

\* An update that reports success on the tool's only connection has written the
\* image, byte for byte, whatever came behind it.
THEOREM ImageCorrect == Spec => []SuccessIsImage
<1>1. TypeInv /\ InOrder /\ SuccessIsTaken => SuccessIsImage
  <2> SUFFICES ASSUME TypeInv, InOrder, SuccessIsTaken, pc = "success", conns = 1
               PROVE  Len(flashed) >= size /\ \A i \in 1 .. size : flashed[i] = i
    BY DEF SuccessIsImage
  <2>1. /\ Len(taken) = size /\ Len(flashed) >= size /\ size \in Nat
        /\ \A i \in 1 .. size : flashed[i] = taken[i]
    BY DEF SuccessIsTaken, TypeInv, TypeOK
  <2>2. Len(taken) = recvFw /\ \A i \in 1 .. recvFw : taken[(Len(taken) - recvFw) + i] = i
    BY DEF InOrder
  <2>3. ASSUME NEW i \in 1 .. size PROVE taken[i] = i
    <3>1. (Len(taken) - recvFw) + i = i
      BY <2>1, <2>2
    <3>2. QED
      BY <2>1, <2>2, <3>1
  <2>4. QED
    BY <2>1, <2>3
<1>2. QED
  BY <1>1, OrderAlways, WrittenCorrect, TypeAlways, PTL

\* A reported success is the image if and only if recv_fwsize has come to
\* fwup_size, that is, the last connection brought all of it: a tool that comes
\* back begins again, and what it sent before stays in front.
ImageIsOneConnection ==
  pc = "success" => ((\A i \in 1 .. size : flashed[i] = i) <=> recvFw = size)

THEOREM OneConnection == Spec => []ImageIsOneConnection
<1>1. TypeInv /\ InOrder /\ SuccessIsTaken => ImageIsOneConnection
  <2> SUFFICES ASSUME TypeInv, InOrder, SuccessIsTaken, pc = "success"
               PROVE  (\A i \in 1 .. size : flashed[i] = i) <=> recvFw = size
    BY DEF ImageIsOneConnection
  <2>1. /\ Len(taken) = size /\ size \in Nat /\ size > 0 /\ recvFw \in Nat
        /\ \A i \in 1 .. size : flashed[i] = taken[i]
    BY DEF SuccessIsTaken, TypeInv, TypeOK
  <2>2. /\ recvFw > 0 /\ recvFw <= Len(taken)
        /\ \A i \in 1 .. recvFw : taken[(Len(taken) - recvFw) + i] = i
    BY DEF InOrder
  <2>3. ASSUME recvFw = size, NEW i \in 1 .. size PROVE flashed[i] = i
    <3>1. (Len(taken) - recvFw) + i = i /\ i \in 1 .. recvFw
      BY <2>1, <2>3
    <3>2. taken[i] = i
      BY <2>2, <3>1
    <3>3. QED
      BY <2>1, <3>2
  <2>4. ASSUME \A i \in 1 .. size : flashed[i] = i PROVE recvFw = size
    <3>1. size \in 1 .. size /\ recvFw \in 1 .. recvFw
          /\ (Len(taken) - recvFw) + recvFw = size
      BY <2>1, <2>2
    <3>2. taken[size] = recvFw
      BY <2>2, <3>1
    <3>3. taken[size] = size
      BY <2>1, <2>4, <3>1
    <3>4. QED
      BY <3>2, <3>3
  <2>5. QED
    BY <2>3, <2>4
<1>2. QED
  BY <1>1, OrderAlways, WrittenCorrect, TypeAlways, PTL
=============================================================================
