------------------------- MODULE NetToSerial_proofs -------------------------
(***************************************************************************)
(* Proofs about NetToSerial for every buffer size and every set of items:  *)
(* the types, that what was received and not yet put on the line is        *)
(* g_recv_buf followed by the chip's buffer, that a server with a          *)
(* connection password puts nothing on the line before it was given, how   *)
(* far the result of a failed recv gets, and that each round of            *)
(* ether_to_uart takes what the chip holds.                                *)
(***************************************************************************)
EXTENDS NetToSerial, TLAPS, SequenceTheorems

-----------------------------------------------------------------------------
(* Parts of sequences                                                      *)

\* A sequence up to its n-th element, and from there on.
LEMMA Front ==
  ASSUME NEW s \in Seq(Item), NEW n \in 0 .. Len(s)
  PROVE  /\ SubSeq(s, 1, n) \in Seq(Item) /\ Len(SubSeq(s, 1, n)) = n
         /\ \A i \in 1 .. n : SubSeq(s, 1, n)[i] = s[i]
         /\ SubSeq(s, n + 1, Len(s)) \in Seq(Item)
         /\ Len(SubSeq(s, n + 1, Len(s))) = Len(s) - n
<1>1. Len(s) \in Nat /\ n \in Nat /\ n <= Len(s)
  BY LenProperties
<1>2. \A i \in 1 .. Len(s) : s[i] \in Item
  BY ElementOfSeq
<1>3. (\A i \in 1 .. n : s[i] \in Item) /\ (\A i \in n + 1 .. Len(s) : s[i] \in Item)
  BY <1>1, <1>2
<1>4. 1 \in Int /\ n \in Int /\ n + 1 \in Int /\ Len(s) \in Int
  BY <1>1
<1>5. /\ SubSeq(s, 1, n) \in Seq(Item)
      /\ Len(SubSeq(s, 1, n)) = IF 1 <= n THEN n - 1 + 1 ELSE 0
      /\ \A i \in 1 .. n - 1 + 1 : SubSeq(s, 1, n)[i] = s[1 + i - 1]
  BY <1>3, <1>4, SubSeqProperties
<1>6. /\ SubSeq(s, n + 1, Len(s)) \in Seq(Item)
      /\ Len(SubSeq(s, n + 1, Len(s)))
           = IF n + 1 <= Len(s) THEN Len(s) - (n + 1) + 1 ELSE 0
  BY <1>3, <1>4, SubSeqProperties
<1>7. QED
  BY <1>1, <1>5, <1>6

\* Any part of a sequence that ends where the sequence does, or before it.
LEMMA AnyPart ==
  ASSUME NEW s \in Seq(Item), NEW m \in Nat \ {0}, NEW n \in Int, n <= Len(s)
  PROVE  SubSeq(s, m, n) \in Seq(Item)
<1>1. Len(s) \in Nat
  BY LenProperties
<1>2. \A i \in m .. n : i \in 1 .. Len(s)
  BY <1>1
<1>3. \A i \in m .. n : s[i] \in Item
  BY <1>2, ElementOfSeq
<1>4. m \in Int
  OBVIOUS
<1>5. QED
  BY <1>3, <1>4, SubSeqProperties

\* What a joined sequence has behind its first part, and in front of its second.
LEMMA Joined ==
  ASSUME NEW s \in Seq(Item), NEW t \in Seq(Item)
  PROVE  /\ SubSeq(s \o t, Len(s) + 1, Len(s \o t)) = t
         /\ SubSeq(s \o t, 1, Len(s \o t) - Len(t)) = s
<1> DEFINE st == s \o t
           r  == SubSeq(st, Len(s) + 1, Len(st))
           f  == SubSeq(st, 1, Len(s))
<1>1. /\ Len(s) \in Nat /\ Len(t) \in Nat /\ st \in Seq(Item)
      /\ Len(st) = Len(s) + Len(t)
      /\ \A i \in 1 .. Len(s) + Len(t) :
           st[i] = IF i <= Len(s) THEN s[i] ELSE t[i - Len(s)]
  BY LenProperties, ConcatProperties
<1> HIDE DEF st
<1>2. \A i \in 1 .. Len(st) : st[i] \in Item
  BY <1>1, ElementOfSeq
<1>3. (\A i \in Len(s) + 1 .. Len(st) : st[i] \in Item)
      /\ (\A i \in 1 .. Len(s) : st[i] \in Item)
  BY <1>1, <1>2
<1>4. Len(s) + 1 \in Int /\ Len(st) \in Int /\ 1 \in Int /\ Len(s) \in Int
  BY <1>1
<1>5. /\ r \in Seq(Item)
      /\ Len(r) = IF Len(s) + 1 <= Len(st) THEN Len(st) - (Len(s) + 1) + 1 ELSE 0
      /\ \A i \in 1 .. Len(st) - (Len(s) + 1) + 1 : r[i] = st[Len(s) + 1 + i - 1]
  BY <1>3, <1>4, SubSeqProperties
<1>6. /\ f \in Seq(Item)
      /\ Len(f) = IF 1 <= Len(s) THEN Len(s) - 1 + 1 ELSE 0
      /\ \A i \in 1 .. Len(s) - 1 + 1 : f[i] = st[1 + i - 1]
  BY <1>3, <1>4, SubSeqProperties
<1> HIDE DEF r, f
<1>7. Len(r) = Len(t) /\ Len(f) = Len(s)
  BY <1>1, <1>5, <1>6
<1>8. \A i \in 1 .. Len(r) : r[i] = t[i]
  <2> SUFFICES ASSUME NEW i \in 1 .. Len(r) PROVE r[i] = t[i]
    OBVIOUS
  <2>1. i \in 1 .. Len(st) - (Len(s) + 1) + 1 /\ i \in Int /\ i > 0
    BY <1>1, <1>5, <1>7
  <2>2. r[i] = st[Len(s) + 1 + i - 1]
    BY <1>5, <2>1
  <2>3. Len(s) + 1 + i - 1 = Len(s) + i /\ Len(s) + i \in 1 .. Len(s) + Len(t)
    BY <1>1, <1>7, <2>1
  <2>4. st[Len(s) + i] = t[Len(s) + i - Len(s)]
    BY <1>1, <2>1, <2>3
  <2>5. Len(s) + i - Len(s) = i
    BY <1>1, <2>1
  <2>6. QED
    BY <2>2, <2>3, <2>4, <2>5
<1>9. \A i \in 1 .. Len(f) : f[i] = s[i]
  BY <1>1, <1>6, <1>7
<1>10. r = t
  BY <1>5, <1>7, <1>8, SeqEqual
<1>11. f = s
  BY <1>6, <1>7, <1>9, SeqEqual
<1>12. Len(st) - Len(t) = Len(s)
  BY <1>1
<1>13. QED
  BY <1>10, <1>11, <1>12 DEF r, f, st

-----------------------------------------------------------------------------
(* The invariant                                                           *)

InOrder == e2u <= BufSize => due = SubSeq(recvBuf, 1, e2u) \o rx

\* Where ether_to_uart stands: what it counted is still there while the socket
\* is open; a failed recv leaves the socket closed; what is held is in
\* g_recv_buf; and without flow control nothing is held when it is called.
PlaceInv ==
  /\ sr = "listen" => pc = "poll"
  /\ pc \in {"switch", "recv"} /\ sr # "closed" => len <= Len(rx)
  /\ e2u = ErrSize => sr = "closed"
  /\ e2u <= BufSize => e2u <= Len(recvBuf)
  /\ ~opt.xonxoff /\ ~opt.dsr =>
       /\ ~lost
       /\ e2u # 0 => pc \in {"auth", "out"}

Inv == TypeOK /\ InOrder /\ PlaceInv

LEMMA Basics ==
  ASSUME Inv
  PROVE  /\ BufSize \in Nat \ {0} /\ ErrSize \in Nat /\ ErrSize > BufSize
         /\ << >> \in Seq(Item) /\ Len(<< >>) = 0
         /\ rx \in Seq(Item) /\ recvBuf \in Seq(Item) /\ due \in Seq(Item)
         /\ Len(rx) \in Nat /\ Len(recvBuf) \in Nat /\ Len(due) \in Nat
         /\ len \in Nat /\ e2u \in Nat /\ (e2u <= BufSize \/ e2u = ErrSize)
         /\ SubSeq(recvBuf, 1, 0) = << >>
<1>1. BufSize \in Nat \ {0} /\ ErrSize \in Nat /\ ErrSize > BufSize
  BY ToSerialAssumption DEF ToSerialAssumption
<1>2. rx \in Seq(Item) /\ recvBuf \in Seq(Item) /\ due \in Seq(Item)
      /\ len \in 0 .. BufSize /\ e2u \in (0 .. BufSize) \cup {ErrSize}
  BY DEF Inv, TypeOK
<1>3. SubSeq(recvBuf, 1, 0) = << >>
  BY SubSeqEmpty
<1>4. QED
  BY <1>1, <1>2, <1>3, EmptySeq, LenProperties

\* What is on its way without what g_recv_buf holds is what the chip holds, and
\* the other way round.
LEMMA OnTheWay ==
  ASSUME Inv, e2u <= BufSize
  PROVE  /\ SubSeq(due, e2u + 1, Len(due)) = rx
         /\ SubSeq(due, 1, Len(due) - Len(rx)) = SubSeq(recvBuf, 1, e2u)
         /\ SubSeq(recvBuf, 1, e2u) \in Seq(Item)
<1> DEFINE h == SubSeq(recvBuf, 1, e2u)
<1>1. due = h \o rx /\ e2u <= Len(recvBuf)
  BY DEF Inv, InOrder, PlaceInv
<1>2. h \in Seq(Item) /\ Len(h) = e2u
  <2>1. e2u \in 0 .. Len(recvBuf) /\ recvBuf \in Seq(Item)
    BY <1>1, Basics
  <2>2. QED
    BY <2>1, Front
<1> HIDE DEF h
<1>3. rx \in Seq(Item)
  BY Basics
<1>4. /\ SubSeq(h \o rx, Len(h) + 1, Len(h \o rx)) = rx
      /\ SubSeq(h \o rx, 1, Len(h \o rx) - Len(rx)) = h
  BY <1>2, <1>3, Joined
<1>5. SubSeq(due, e2u + 1, Len(due)) = rx /\ SubSeq(due, 1, Len(due) - Len(rx)) = h
  BY <1>1, <1>2, <1>4
<1>6. QED
  BY <1>2, <1>5 DEF h

\* With nothing held, what is on its way is what the chip holds.
LEMMA NothingHeld ==
  ASSUME Inv
  PROVE  rx = SubSeq(recvBuf, 1, 0) \o rx
  BY Basics, ConcatEmptySeq

\* The peer, the chip and the serial side.
LEMMA InvOutside == Inv /\ (Peer \/ Line \/ UNCHANGED vars) => Inv'
<1> SUFFICES ASSUME Inv, Peer \/ Line \/ UNCHANGED vars PROVE Inv'
  OBVIOUS
<1> USE DEF seg, flow, chip
<1>1. CASE PeerConnect
  BY <1>1 DEF PeerConnect, Inv, TypeOK, InOrder, PlaceInv
<1>2. ASSUME NEW x \in Item, PeerSend(x) PROVE Inv'
  <2>1. /\ rx' = Append(rx, x) /\ due' = Append(due, x) /\ Len(rx) < BufSize
        /\ UNCHANGED <<opt, sr, irCon, lost, granted>> /\ UNCHANGED seg
        /\ UNCHANGED flow
    BY <1>2 DEF PeerSend
  <2>2. /\ rx' \in Seq(Item) /\ Len(rx') = Len(rx) + 1 /\ due' \in Seq(Item)
        /\ Len(rx) \in Nat /\ BufSize \in Nat /\ len \in Nat
    BY <2>1, Basics, AppendProperties
  <2>3. Len(rx') <= BufSize
    BY <2>1, <2>2
  <2>4. TypeOK'
    BY <2>1, <2>2, <2>3 DEF Inv, TypeOK
  <2>5. InOrder'
    <3>1. SUFFICES ASSUME e2u <= BufSize
                   PROVE  due' = SubSeq(recvBuf, 1, e2u) \o rx'
      BY <2>1 DEF InOrder
    <3> DEFINE h == SubSeq(recvBuf, 1, e2u)
    <3>2. h \in Seq(Item) /\ due = h \o rx
      BY <3>1, OnTheWay DEF Inv, InOrder
    <3> HIDE DEF h
    <3>3. rx \in Seq(Item) /\ due \in Seq(Item) /\ <<x>> \in Seq(Item)
      BY Basics
    <3>4. (h \o rx) \o <<x>> = h \o (rx \o <<x>>)
      BY <3>2, <3>3, ConcatAssociative
    <3>5. due' = due \o <<x>> /\ rx' = rx \o <<x>>
      BY <2>1, <3>3, AppendIsConcat
    <3>6. due' = h \o rx'
      BY <3>2, <3>4, <3>5
    <3>7. QED
      BY <3>6 DEF h
  <2>6. PlaceInv'
    BY <2>1, <2>2 DEF Inv, PlaceInv
  <2>7. QED
    BY <2>4, <2>5, <2>6 DEF Inv
<1>3. CASE PeerClose
  BY <1>3 DEF PeerClose, Inv, TypeOK, InOrder, PlaceInv
<1>4. CASE PeerReset
  <2>1. /\ sr \in {"established", "closewait"} /\ sr' = "closed" /\ rx' \in {rx, << >>}
        /\ due' = SubSeq(due, 1, Len(due) - Len(rx)) \o rx'
        /\ UNCHANGED <<opt, irCon, lost, granted>> /\ UNCHANGED seg /\ UNCHANGED flow
    BY <1>4 DEF PeerReset
  <2>2. rx' \in Seq(Item) /\ Len(rx') <= BufSize
    <3>1. BufSize \in Nat /\ << >> \in Seq(Item) /\ Len(<< >>) = 0
      BY Basics
    <3>2. rx \in Seq(Item) /\ Len(rx) <= BufSize
      BY DEF Inv, TypeOK
    <3>3. QED
      <4>1. CASE rx' = rx
        BY <3>2, <4>1
      <4>2. CASE rx' = << >>
        BY <3>1, <4>2
      <4>3. QED
        BY <2>1, <4>1, <4>2
  <2>3. SubSeq(due, 1, Len(due) - Len(rx)) \in Seq(Item)
    <3>1. 1 \in Nat \ {0} /\ Len(due) - Len(rx) \in Int
          /\ Len(due) - Len(rx) <= Len(due) /\ due \in Seq(Item)
      BY Basics
    <3>2. QED
      BY <3>1, AnyPart
  <2>4. due' \in Seq(Item)
    BY <2>1, <2>2, <2>3, ConcatProperties
  <2>5. TypeOK'
    BY <2>1, <2>2, <2>4 DEF Inv, TypeOK
  <2>6. InOrder'
    BY <2>1, OnTheWay DEF InOrder
  <2>7. PlaceInv'
    BY <2>1 DEF Inv, PlaceInv
  <2>8. QED
    BY <2>5, <2>6, <2>7 DEF Inv
<1>5. CASE Line
  BY <1>5 DEF Line, FlowByte, DsrPin, Inv, TypeOK, InOrder, PlaceInv
<1>6. CASE UNCHANGED vars
  <2>1. TypeOK'
    BY <1>6 DEF vars, Inv, TypeOK
  <2>2. InOrder' /\ PlaceInv'
    BY <1>6 DEF vars, Inv, InOrder, PlaceInv
  <2>3. QED
    BY <2>1, <2>2 DEF Inv
<1>7. QED
  BY <1>1, <1>2, <1>3, <1>4, <1>5, <1>6 DEF Peer

\* The main loop outside of recv.
LEMMA InvMain == Inv /\ Main /\ ~Recv /\ ~RecvError => Inv'
<1> SUFFICES ASSUME Inv, Main, ~Recv, ~RecvError PROVE Inv'
  OBVIOUS
<1> USE DEF seg, flow, chip
<1>0. /\ BufSize \in Nat \ {0} /\ ErrSize \in Nat /\ ErrSize > BufSize
      /\ << >> \in Seq(Item) /\ Len(<< >>) = 0 /\ Len(rx) \in Nat
      /\ Len(recvBuf) \in Nat /\ len \in Nat /\ e2u \in Nat
      /\ rx = SubSeq(recvBuf, 1, 0) \o rx
      /\ << >> = SubSeq(recvBuf, 1, 0) \o << >>
  BY Basics, NothingHeld, ConcatEmptySeq
\* nothing is held afterwards, and the chip's buffer is all there is
<1>a. ASSUME e2u' = 0, due' = rx', recvBuf' = recvBuf,
             rx' = SubSeq(recvBuf, 1, 0) \o rx'
      PROVE  InOrder'
  BY <1>a DEF InOrder
<1>1. CASE Reopen
  <2>1. InOrder'
    BY <1>0, <1>1, <1>a DEF Reopen
  <2>2. TypeOK'
    <3>1. Len(rx') <= BufSize /\ e2u' \in 0 .. BufSize
      BY <1>0, <1>1 DEF Reopen
    <3>2. rx' \in Seq(Item) /\ due' \in Seq(Item)
      BY <1>0, <1>1 DEF Reopen
    <3>3. QED
      BY <1>1, <3>1, <3>2 DEF Reopen, Inv, TypeOK
  <2>3. PlaceInv'
    <3>1. e2u' = 0 /\ ~(0 = ErrSize) /\ 0 <= Len(recvBuf')
      BY <1>0, <1>1 DEF Reopen
    <3>2. QED
      BY <1>1, <3>1 DEF Reopen, PlaceInv
  <2>4. QED
    BY <2>1, <2>2, <2>3 DEF Inv
<1>2. CASE Accept
  <2>1. auth' \in BOOLEAN
    BY <1>2 DEF Accept, Inv, TypeOK
  <2>2. QED
    BY <1>2, <2>1 DEF Accept, Inv, TypeOK, InOrder, PlaceInv
<1>3. CASE Call
  BY <1>3 DEF Call, Inv, TypeOK, InOrder, PlaceInv
<1>4. CASE Terminate
  BY <1>4 DEF Terminate, Inv, TypeOK, InOrder, PlaceInv
<1>5. CASE ReadLen
  <2>1. len' = Len(rx) /\ rx' = rx /\ Len(rx) <= BufSize
    BY <1>5 DEF ReadLen, Inv, TypeOK
  <2>2. len' \in 0 .. BufSize /\ len' <= Len(rx')
    BY <1>0, <2>1
  <2>3. QED
    BY <1>5, <2>2 DEF ReadLen, Inv, TypeOK, InOrder, PlaceInv
<1>6. CASE Switch
  BY <1>6 DEF Switch, Inv, TypeOK, InOrder, PlaceInv
<1>7. CASE AuthSkip
  BY <1>7 DEF AuthSkip, Inv, TypeOK, InOrder, PlaceInv
<1>8. CASE AuthGranted
  <2>1. InOrder'
    BY <1>0, <1>8, <1>a DEF AuthGranted
  <2>2. TypeOK' /\ PlaceInv'
    BY <1>0, <1>8 DEF AuthGranted, Inv, TypeOK, PlaceInv
  <2>3. QED
    BY <2>1, <2>2 DEF Inv
<1>9. CASE AuthDenied
  <2>1. InOrder'
    BY <1>0, <1>9, <1>a DEF AuthDenied
  <2>2. TypeOK' /\ PlaceInv'
    BY <1>0, <1>9 DEF AuthDenied, Inv, TypeOK, PlaceInv
  <2>3. QED
    BY <2>1, <2>2 DEF Inv
<1>10. CASE Hold
  <2>1. opt' = opt /\ e2u' = e2u /\ lost' = lost
    BY <1>10 DEF Hold
  <2>2. ~opt.xonxoff /\ ~opt.dsr => e2u = 0
    BY <1>10 DEF Hold, HeldBack
  <2>3. PlaceInv'
    BY <1>10, <2>1, <2>2 DEF Hold, Inv, TypeOK, PlaceInv
  <2>4. QED
    BY <1>10, <2>3 DEF Hold, Inv, TypeOK, InOrder
<1>11. CASE PutOut
  <2>1. e2u <= BufSize => SubSeq(due, e2u + 1, Len(due)) = rx
    BY OnTheWay
  <2>2. e2u' = 0 /\ due' = rx /\ rx' = rx /\ recvBuf' = recvBuf
    BY <1>11, <2>1 DEF PutOut, AfterOut
  <2>3. InOrder'
    BY <1>0, <1>a, <2>2
  <2>4. TypeOK' /\ PlaceInv'
    BY <1>0, <1>11, <2>2 DEF PutOut, AfterOut, Inv, TypeOK, PlaceInv
  <2>5. QED
    BY <2>3, <2>4 DEF Inv
<1>12. QED
  BY <1>1, <1>2, <1>3, <1>4, <1>5, <1>6, <1>7, <1>8, <1>9, <1>10, <1>11 DEF Main

\* recv moves bytes from the chip to g_recv_buf, or finds the socket closed.
LEMMA InvRecv == Inv /\ (Recv \/ RecvError) => Inv'
<1> SUFFICES ASSUME Inv, Recv \/ RecvError PROVE Inv'
  OBVIOUS
<1> USE DEF seg, flow, chip
<1>0. /\ BufSize \in Nat \ {0} /\ ErrSize \in Nat /\ ErrSize > BufSize
      /\ rx \in Seq(Item) /\ recvBuf \in Seq(Item) /\ due \in Seq(Item)
      /\ Len(rx) \in Nat /\ Len(due) \in Nat /\ len \in Nat /\ e2u \in Nat
      /\ (e2u <= BufSize \/ e2u = ErrSize)
  BY Basics
<1>1. SubSeq(due, e2u + 1, Len(due)) \in Seq(Item)
  <2>1. e2u + 1 \in Nat \ {0} /\ Len(due) \in Int /\ Len(due) <= Len(due)
    BY <1>0
  <2>2. QED
    BY <1>0, <2>1, AnyPart
<1>2. ~opt.xonxoff /\ ~opt.dsr /\ pc = "recv" => ~(lost \/ e2u # 0)
  BY DEF Inv, PlaceInv
<1>3. (lost \/ e2u # 0) \in BOOLEAN
  OBVIOUS
<1>4. CASE Recv
  <2>1. /\ pc = "recv" /\ sr \in {"established", "closewait"}
        /\ recvBuf' = SubSeq(rx, 1, len) /\ rx' = SubSeq(rx, len + 1, Len(rx))
        /\ e2u' = len /\ lost' = (lost \/ e2u # 0)
        /\ due' = SubSeq(due, e2u + 1, Len(due))
        /\ granted' = (granted \/ SubSeq(rx, 1, len) = <<Password>>) /\ pc' = "auth"
        /\ UNCHANGED <<opt, sr, irCon, status, auth, back, len>> /\ UNCHANGED flow
    BY <1>4 DEF Recv, Rest, RecvSize, Overwrite
  <2>2. len \in 0 .. Len(rx) /\ len <= BufSize
    BY <1>0, <2>1 DEF Inv, PlaceInv, TypeOK
  <2>3. /\ recvBuf' \in Seq(Item) /\ Len(recvBuf') = len
        /\ rx' \in Seq(Item) /\ Len(rx') = Len(rx) - len
    BY <1>0, <2>1, <2>2, Front
  <2>4. Len(rx') <= BufSize /\ Len(recvBuf') <= BufSize /\ e2u' \in 0 .. BufSize
    BY <1>0, <2>1, <2>2, <2>3 DEF Inv, TypeOK
  <2>5. due' \in Seq(Item)
    BY <1>1, <2>1
  <2>6. granted' \in BOOLEAN /\ lost' \in BOOLEAN
    BY <1>3, <2>1
  <2>7. TypeOK'
    BY <2>1, <2>3, <2>4, <2>5, <2>6 DEF Inv, TypeOK
  <2>8. due' = rx
    <3>1. e2u <= BufSize
      BY <1>0, <2>1 DEF Inv, PlaceInv
    <3>2. QED
      BY <2>1, <3>1, OnTheWay
  <2>9. SubSeq(recvBuf', 1, e2u') \o rx' = rx
    <3>1. SubSeq(recvBuf', 1, e2u') = recvBuf'
      BY <2>1, <2>3, SubSeqFull
    <3>2. 1 \in 1 .. Len(rx) + 1 /\ len \in 1 - 1 .. Len(rx)
          /\ Len(rx) \in len .. Len(rx)
      BY <1>0, <2>2
    <3>3. SubSeq(rx, 1, len) \o SubSeq(rx, len + 1, Len(rx)) = SubSeq(rx, 1, Len(rx))
      BY <1>0, <3>2, ConcatAdjacentSubSeq
    <3>4. SubSeq(rx, 1, Len(rx)) = rx
      BY <1>0, SubSeqFull
    <3>5. QED
      BY <2>1, <3>1, <3>3, <3>4
  <2>10. InOrder'
    BY <2>8, <2>9 DEF InOrder
  <2>11. e2u' # ErrSize /\ e2u' <= Len(recvBuf')
    BY <1>0, <2>1, <2>2, <2>3
  <2>12. PlaceInv'
    BY <1>2, <2>1, <2>11 DEF Inv, PlaceInv
  <2>13. QED
    BY <2>7, <2>10, <2>12 DEF Inv
<1>5. CASE RecvError
  <2>1. /\ pc = "recv" /\ sr = "closed" /\ irCon' = FALSE /\ e2u' = ErrSize
        /\ lost' = (lost \/ e2u # 0) /\ due' = SubSeq(due, e2u + 1, Len(due))
        /\ pc' = "auth"
        /\ UNCHANGED <<opt, sr, rx, status, auth, recvBuf, back, len, granted>>
        /\ UNCHANGED flow
    BY <1>5 DEF RecvError, Overwrite
  <2>2. due' \in Seq(Item) /\ lost' \in BOOLEAN
    BY <1>1, <1>3, <2>1
  <2>3. TypeOK'
    BY <2>1, <2>2 DEF Inv, TypeOK
  <2>4. ~(e2u' <= BufSize)
    BY <1>0, <2>1
  <2>5. InOrder' /\ PlaceInv'
    BY <1>2, <2>1, <2>4 DEF Inv, InOrder, PlaceInv
  <2>6. QED
    BY <2>3, <2>5 DEF Inv
<1>6. QED
  BY <1>4, <1>5

LEMMA InvAlways == Spec => []Inv
<1>1. Init => Inv
  <2> SUFFICES ASSUME Init PROVE Inv
    OBVIOUS
  <2>1. BufSize \in Nat \ {0} /\ ErrSize \in Nat /\ ErrSize > BufSize
    BY ToSerialAssumption DEF ToSerialAssumption
  <2>2. << >> \in Seq(Item) /\ Len(<< >>) = 0
        /\ SubSeq(<< >>, 1, 0) = << >> /\ << >> \o << >> = << >>
    BY EmptySeq, SubSeqEmpty, ConcatEmptySeq
  <2>3. dsrHigh \in BOOLEAN
    BY DEF Init
  <2>4. TypeOK
    <3>1. Len(<< >>) <= BufSize /\ 0 \in 0 .. BufSize
      BY <2>1, <2>2
    <3>2. QED
      BY <2>2, <2>3, <3>1 DEF Init, TypeOK
  <2>5. InOrder
    BY <2>2 DEF Init, InOrder
  <2>6. PlaceInv
    BY <2>1, <2>2 DEF Init, PlaceInv
  <2>7. QED
    BY <2>4, <2>5, <2>6 DEF Inv
<1>2. Inv /\ [Next]_vars => Inv'
  BY InvOutside, InvMain, InvRecv DEF Next
<1>3. QED
  BY <1>1, <1>2, PTL DEF Spec

\* Every variable keeps to its C type and its role.
THEOREM TypeCorrect == Spec => []TypeOK
<1>1. Inv => TypeOK
  BY DEF Inv
<1>2. QED
  BY <1>1, InvAlways, PTL

\* What was received and not yet put on the line is g_recv_buf followed by the
\* chip's buffer, up to a recv that failed; and without flow control nothing
\* held back is overwritten.
THEOREM StreamCorrect == Spec => []StreamKept
<1>1. Inv => StreamKept
  BY DEF Inv, InOrder, PlaceInv, StreamKept
<1>2. QED
  BY <1>1, InvAlways, PTL

-----------------------------------------------------------------------------
(* The connection password                                                 *)

\* A server that asks for the password has it from this connection when it is
\* authenticated, unless the socket is closed and there is nothing to put out:
\* g_recv_buf still holds the password of an earlier connection when recv was
\* not called.
AuthInv ==
  /\ sr = "listen" => ~auth
  /\ opt.server /\ opt.pw /\ auth =>
       granted \/ (sr = "closed" /\ e2u = 0 /\ pc # "recv")
  /\ pc = "auth" /\ sr # "closed" /\ Matches => granted
  /\ opt.server /\ opt.pw /\ pc = "out" /\ e2u # 0 => granted

LEMMA AuthInductive == Inv /\ AuthInv /\ [Next]_vars => AuthInv'
<1> SUFFICES ASSUME Inv, AuthInv, [Next]_vars PROVE AuthInv'
  OBVIOUS
<1> USE DEF seg, flow, chip, AuthInv, Matches
<1>0. sr = "listen" => pc = "poll"
  BY DEF Inv, PlaceInv
<1>1. CASE Peer \/ Line \/ UNCHANGED vars
  BY <1>0, <1>1 DEF Peer, PeerConnect, PeerSend, PeerClose, PeerReset, Line,
                    FlowByte, DsrPin, vars
<1>2. CASE Reopen
  BY <1>2 DEF Reopen
<1>3. CASE Accept
  BY <1>3 DEF Accept
<1>4. CASE Call \/ Terminate
  BY <1>4 DEF Call, Terminate
<1>5. CASE ReadLen
  <2>1. pc' = "auth" => len' = 0
    BY <1>5, EmptySeq DEF ReadLen
  <2>2. QED
    BY <1>0, <1>5, <2>1 DEF ReadLen
<1>6. CASE Switch
  <2>1. sr \in {"closed", "listen", "established", "closewait"}
    BY DEF Inv, TypeOK
  <2>2. sr # "listen"
    BY <1>0, <1>6 DEF Switch
  <2>3. \/ sr = "closed" /\ pc' = "auth"
        \/ sr # "closed" /\ pc' = "recv"
    BY <1>6, <2>1, <2>2 DEF Switch
  <2>4. UNCHANGED <<opt, sr, auth, e2u, granted>>
    BY <1>6 DEF Switch
  <2>5. sr' = "listen" => ~auth'
    BY <2>4
  <2>6. ~(pc' = "auth" /\ sr' # "closed") /\ pc' # "out"
    BY <2>3, <2>4
  <2>7. opt'.server /\ opt'.pw /\ auth' =>
          granted' \/ (sr' = "closed" /\ e2u' = 0 /\ pc' # "recv")
    <3>1. CASE sr = "closed"
      BY <2>3, <2>4, <3>1
    <3>2. CASE sr # "closed"
      <4>1. opt.server /\ opt.pw /\ auth => granted
        BY <3>2
      <4>2. opt' = opt /\ auth' = auth /\ granted' = granted
        BY <2>4
      <4>3. QED
        BY <4>1, <4>2
    <3>3. QED
      BY <3>1, <3>2
  <2>8. QED
    BY <2>5, <2>6, <2>7
<1>7. CASE Recv
  <2>1. /\ pc = "recv" /\ sr \in {"established", "closewait"} /\ sr' = sr
        /\ recvBuf' = SubSeq(rx, 1, len) /\ len' = len /\ pc' = "auth"
        /\ granted' = (granted \/ SubSeq(rx, 1, len) = <<Password>>)
        /\ UNCHANGED <<opt, auth>>
    BY <1>7 DEF Recv
  <2>2. ASSUME Matches' PROVE granted'
    <3>1. len = 1 /\ len \in 0 .. Len(rx) /\ rx \in Seq(Item)
      BY <2>1, <2>2, Basics DEF Inv, PlaceInv
    <3>2. recvBuf' \in Seq(Item) /\ Len(recvBuf') = 1
      BY <2>1, <3>1, Front
    <3>3. recvBuf'[1] = Password
      BY <2>2
    <3>4. recvBuf' = <<Password>>
      BY <3>2, <3>3
    <3>5. QED
      BY <2>1, <3>4
  <2>3. auth' /\ opt'.server /\ opt'.pw => granted'
    BY <2>1
  <2>4. QED
    BY <2>1, <2>2, <2>3
<1>8. CASE RecvError
  BY <1>8 DEF RecvError
<1>9. CASE AuthSkip
  <2>1. opt.pw => auth
    BY <1>9 DEF AuthSkip, PasswordAsked, Inv, TypeOK
  <2>2. QED
    BY <1>0, <1>9, <2>1 DEF AuthSkip
<1>10. CASE AuthGranted
  BY <1>0, <1>10 DEF AuthGranted
<1>11. CASE AuthDenied
  <2>1. sr' = "closed" /\ e2u' = 0 /\ pc' = back
    BY <1>11 DEF AuthDenied
  <2>2. back \in {"poll", "drain"}
    BY DEF Inv, TypeOK
  <2>3. QED
    BY <2>1, <2>2
<1>12. CASE Hold \/ PutOut
  <2>1. pc' = back /\ back \in {"poll", "drain"}
    BY <1>12 DEF Hold, PutOut, Inv, TypeOK
  <2>2. UNCHANGED <<opt, sr, auth, granted>> /\ (e2u' = e2u \/ e2u' = 0)
    BY <1>12 DEF Hold, PutOut, AfterOut
  <2>3. QED
    BY <2>1, <2>2
<1>13. QED
  BY <1>1, <1>2, <1>3, <1>4, <1>5, <1>6, <1>7, <1>8, <1>9, <1>10, <1>11, <1>12
     DEF Next, Main

\* With a connection password, a server puts nothing on the serial line before
\* the client of this connection has sent the password.
THEOREM PasswordCorrect == Spec => PasswordFirst
<1>1. Init => AuthInv
  BY DEF Init, AuthInv, Matches
<1>2. AuthInv /\ [Next]_vars =>
        [opt.server /\ opt.pw /\ PutOut => granted]_vars
  BY DEF AuthInv, PutOut
<1>3. QED
  BY <1>1, <1>2, AuthInductive, InvAlways, PTL DEF Spec, PasswordFirst

-----------------------------------------------------------------------------
(* A failed recv                                                           *)

\* While a connection is open, or one is waited for, e2u_size is within
\* g_recv_buf: the result of a failed recv() taken for a length ends with the
\* connection it failed on, at the latest when the socket is opened again.
THEOREM ErrorCorrect == Spec => [](sr # "closed" => NeverBeyondBuffer)
<1>1. Inv => (sr # "closed" => NeverBeyondBuffer)
  <2> SUFFICES ASSUME Inv, sr # "closed" PROVE e2u <= BufSize
    BY DEF NeverBeyondBuffer
  <2>1. e2u # ErrSize
    BY DEF Inv, PlaceInv
  <2>2. QED
    BY <2>1, Basics
<1>2. QED
  BY <1>1, InvAlways, PTL

-----------------------------------------------------------------------------
(* The rounds of ether_to_uart                                             *)

\* Between the length and recv() there is something to receive.
LenInv == pc \in {"switch", "recv"} => len > 0

LEMMA LenInductive == Inv /\ LenInv /\ [Next]_vars => LenInv'
<1> SUFFICES ASSUME Inv, LenInv, [Next]_vars PROVE LenInv'
  OBVIOUS
<1> USE DEF seg, flow, chip, LenInv
<1>1. CASE Peer \/ Line \/ UNCHANGED vars
  BY <1>1 DEF Peer, PeerConnect, PeerSend, PeerClose, PeerReset, Line, FlowByte,
              DsrPin, vars
<1>2. CASE ReadLen
  <2>1. rx \in Seq(Item) /\ Len(rx) \in Nat /\ len' = Len(rx)
    BY <1>2, Basics DEF ReadLen
  <2>2. rx # << >> => len' > 0
    BY <2>1, EmptySeq
  <2>3. rx = << >> => pc' = "auth"
    BY <1>2 DEF ReadLen
  <2>4. QED
    BY <2>2, <2>3
<1>3. CASE Switch
  BY <1>3 DEF Switch
<1>4. CASE Reopen \/ Accept \/ Call \/ Terminate
  BY <1>4 DEF Reopen, Accept, Call, Terminate
<1>5. CASE Recv \/ RecvError \/ AuthSkip \/ AuthGranted
  BY <1>5 DEF Recv, RecvError, AuthSkip, AuthGranted
<1>6. CASE AuthDenied \/ Hold \/ PutOut
  <2>1. pc' \in {"poll", "drain"}
    BY <1>6 DEF AuthDenied, Hold, PutOut, Inv, TypeOK
  <2>2. QED
    BY <2>1
<1>7. QED
  BY <1>1, <1>2, <1>3, <1>4, <1>5, <1>6 DEF Next, Main

\* Every recv() leaves fewer bytes in the chip, and without flow control
\* ether_to_uart is never called with nothing to receive: the loop that empties
\* a connection the peer has closed goes round once for each byte at the most.
RoundsCount ==
  [][/\ Recv => Len(rx') < Len(rx)
     /\ Call /\ ~opt.xonxoff /\ ~opt.dsr => e2u = 0 /\ rx # << >>]_vars

THEOREM RoundsCorrect == Spec => RoundsCount
<1>1. Init => LenInv
  BY DEF Init, LenInv
<1>2. Inv /\ LenInv /\ [Next]_vars =>
        [/\ Recv => Len(rx') < Len(rx)
         /\ Call /\ ~opt.xonxoff /\ ~opt.dsr => e2u = 0 /\ rx # << >>]_vars
  <2>1. ASSUME Inv, LenInv, Recv PROVE Len(rx') < Len(rx)
    <3>1. len \in 0 .. Len(rx) /\ len > 0 /\ Len(rx) \in Nat /\ rx \in Seq(Item)
          /\ rx' = SubSeq(rx, len + 1, Len(rx))
      BY <2>1, Basics DEF Recv, Rest, LenInv, Inv, PlaceInv
    <3>2. Len(rx') = Len(rx) - len
      BY <3>1, Front
    <3>3. QED
      BY <3>1, <3>2
  <2>2. ASSUME Inv, Call, ~opt.xonxoff, ~opt.dsr PROVE e2u = 0 /\ rx # << >>
    <3>1. pc \in {"poll", "drain"} /\ (rx # << >> \/ e2u # 0)
      BY <2>2 DEF Call, Work
    <3>2. e2u = 0
      BY <2>2, <3>1 DEF Inv, PlaceInv
    <3>3. QED
      BY <3>1, <3>2
  <2>3. QED
    BY <2>1, <2>2
<1>3. QED
  BY <1>1, <1>2, LenInductive, InvAlways, PTL DEF Spec, RoundsCount
=============================================================================
