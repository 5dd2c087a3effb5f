------------------------- MODULE SerialToNet_proofs -------------------------
(***************************************************************************)
(* Proofs about SerialToNet for every ring, packet buffer and packing      *)
(* option: the types, that nothing accepted from the line is lost, doubled *)
(* or reordered on its way to the socket, for which byte the loop of        *)
(* get_serial_data may wait, where packets are cut, when the packet buffer overflows,   *)
(* and that the ring is used as the queue SerialRx proves it to be.        *)
(***************************************************************************)
EXTENDS SerialToNet, TLAPS, SequenceTheorems

-----------------------------------------------------------------------------
(* A byte moves from the front of one sequence to the end of the other     *)

\* What is left of a joined sequence behind its first part is the second part.
LEMMA Behind ==
  ASSUME NEW s \in Seq(Byte), NEW t \in Seq(Byte)
  PROVE  SubSeq(s \o t, Len(s) + 1, Len(s \o t)) = t
<1> DEFINE st == s \o t
           r  == SubSeq(st, Len(s) + 1, Len(st))
<1>1. /\ Len(s) \in Nat /\ Len(t) \in Nat /\ st \in Seq(Byte)
      /\ Len(st) = Len(s) + Len(t)
      /\ \A i \in 1 .. Len(s) + Len(t) :
           st[i] = IF i <= Len(s) THEN s[i] ELSE t[i - Len(s)]
  BY LenProperties, ConcatProperties
<1> HIDE DEF st
<1>2. \A i \in Len(s) + 1 .. Len(st) : st[i] \in Byte
  <2>1. \A i \in Len(s) + 1 .. Len(st) : i \in 1 .. Len(st)
    BY <1>1
  <2>2. QED
    BY <1>1, <2>1, ElementOfSeq
<1>3. Len(s) + 1 \in Int /\ Len(st) \in Int
  BY <1>1
<1>4. /\ r \in Seq(Byte)
      /\ Len(r) = IF Len(s) + 1 <= Len(st) THEN Len(st) - (Len(s) + 1) + 1 ELSE 0
      /\ \A i \in 1 .. Len(st) - (Len(s) + 1) + 1 : r[i] = st[Len(s) + 1 + i - 1]
  BY <1>2, <1>3, SubSeqProperties
<1> HIDE DEF r
<1>5. Len(r) = Len(t)
  BY <1>1, <1>4
<1>6. \A i \in 1 .. Len(r) : r[i] = t[i]
  <2> SUFFICES ASSUME NEW i \in 1 .. Len(r) PROVE r[i] = t[i]
    OBVIOUS
  <2>1. i \in 1 .. Len(st) - (Len(s) + 1) + 1 /\ i \in Int /\ i > 0
    BY <1>1, <1>4, <1>5
  <2>2. r[i] = st[Len(s) + 1 + i - 1]
    BY <1>4, <2>1
  <2>3. Len(s) + 1 + i - 1 = Len(s) + i /\ Len(s) + i \in 1 .. Len(s) + Len(t)
    BY <1>1, <1>5, <2>1
  <2>4. st[Len(s) + i] = t[Len(s) + i - Len(s)]
    BY <1>1, <2>1, <2>3
  <2>5. Len(s) + i - Len(s) = i
    BY <1>1, <2>1
  <2>6. QED
    BY <2>2, <2>3, <2>4, <2>5
<1>7. r = t
  BY <1>4, <1>5, <1>6, SeqEqual
<1>8. QED
  BY <1>7 DEF r, st

\* The head of the second part moves behind the first, or is taken out.
LEMMA HeadMoves ==
  ASSUME NEW s \in Seq(Byte), NEW t \in Seq(Byte), t # <<>>
  PROVE  /\ t = <<Head(t)>> \o Tail(t)
         /\ Append(s, Head(t)) \o Tail(t) = s \o t
         /\ SubSeq(s \o t, 1, Len(s)) \o SubSeq(s \o t, Len(s) + 2, Len(s \o t))
              = s \o Tail(t)
<1> DEFINE h == Head(t)
           u == Tail(t)
           o == <<h>>
<1>1. /\ h \in Byte /\ u \in Seq(Byte) /\ o \in Seq(Byte) /\ Len(o) = 1
      /\ Len(t) \in Nat \ {0}
  BY HeadTailProperties, EmptySeq
<1>2. t = o \o u
  <2>1. SubSeq(t, 1, Len(t)) = <<t[1]>> \o SubSeq(t, 1 + 1, Len(t))
    <3>1. 1 \in 1 .. Len(t) /\ Len(t) \in 1 .. Len(t)
      BY <1>1
    <3>2. QED
      BY <3>1, SubSeqRecursiveFirst
  <2>2. SubSeq(t, 1, Len(t)) = t /\ SubSeq(t, 2, Len(t)) = u /\ t[1] = h
    BY SubSeqFull, TailIsSubSeq
  <2>3. QED
    BY <2>1, <2>2
<1>3. Append(s, h) = s \o o
  BY <1>1, AppendIsConcat
<1> HIDE DEF h, u, o
<1>4. s \o o \in Seq(Byte) /\ Len(s \o o) = Len(s) + 1 /\ Len(s) \in Nat
  BY <1>1, ConcatProperties, LenProperties
<1>5. (s \o o) \o u = s \o (o \o u)
  BY <1>1, ConcatAssociative
<1>6. (s \o o) \o u = s \o t
  BY <1>2, <1>5
<1>7. SubSeq((s \o o) \o u, Len(s \o o) + 1, Len((s \o o) \o u)) = u
  BY <1>1, <1>4, Behind
<1>8. Len(s \o o) + 1 = Len(s) + 2
  BY <1>4
<1>9. SubSeq(s \o t, Len(s) + 2, Len(s \o t)) = u
  BY <1>6, <1>7, <1>8
<1>10. SubSeq(s \o t, 1, Len(s)) = s
  <2> DEFINE st == s \o t
             r  == SubSeq(st, 1, Len(s))
  <2>1. /\ st \in Seq(Byte) /\ Len(st) = Len(s) + Len(t) /\ Len(t) \in Nat
        /\ \A i \in 1 .. Len(s) + Len(t) :
             st[i] = IF i <= Len(s) THEN s[i] ELSE t[i - Len(s)]
    BY LenProperties, ConcatProperties
  <2> HIDE DEF st
  <2>2. \A i \in 1 .. Len(s) : st[i] = s[i] /\ s[i] \in Byte
    BY <1>4, <2>1, ElementOfSeq
  <2>3. /\ r \in Seq(Byte)
        /\ Len(r) = IF 1 <= Len(s) THEN Len(s) - 1 + 1 ELSE 0
        /\ \A i \in 1 .. Len(s) - 1 + 1 : r[i] = st[1 + i - 1]
    BY <1>4, <2>2, SubSeqProperties
  <2> HIDE DEF r
  <2>4. Len(r) = Len(s) /\ \A i \in 1 .. Len(r) : r[i] = s[i]
    BY <1>4, <2>2, <2>3
  <2>5. r = s
    BY <2>3, <2>4, SeqEqual
  <2>6. QED
    BY <2>5 DEF r, st
<1>11. QED
  BY <1>2, <1>3, <1>6, <1>9, <1>10 DEF h, u, o

-----------------------------------------------------------------------------
(* Types and the stream, which need each other                             *)

\* Where the main loop stands: nothing is collected without a connection, and
\* the byte that is looked at first is there.
PlaceInv ==
  /\ status = "open" => packet = << >> /\ pc = "poll"
  /\ pc = "peek" => queue # << >>

Inv == TypeOK /\ StreamKept /\ PlaceInv

LEMMA OptionTypes ==
  ASSUME TypeOK
  PROVE  /\ opt.time \in Nat /\ opt.size \in Nat
         /\ RingSize \in Nat \ {0} /\ BufSize \in Nat /\ BufSize > 1
         /\ << >> \in Seq(Byte) /\ Len(<< >>) = 0
         /\ Len(queue) \in Nat /\ Len(packet) \in Nat /\ Len(due) \in Nat
  BY ToNetAssumption, EmptySeq, LenProperties DEF ToNetAssumption, TypeOK

LEMMA InvInterrupts ==
  Inv /\ ((\E b \in Byte : RxByte(b)) \/ Tick \/ LinkLost) => Inv'
<1> SUFFICES ASSUME Inv, (\E b \in Byte : RxByte(b)) \/ Tick \/ LinkLost
             PROVE  Inv'
  OBVIOUS
<1> USE DEF Inv, seg, notes, line
<1>0. /\ opt.time \in Nat /\ RingSize \in Nat \ {0}
      /\ Len(queue) \in Nat /\ Len(packet) \in Nat
  BY OptionTypes
<1>1. ASSUME NEW b \in Byte, RxByte(b) PROVE Inv'
  <2>1. /\ timer' = (timer \/ opt.time # 0)
        /\ time' = IF opt.time # 0 THEN 0 ELSE time
        /\ UNCHANGED <<opt, elapsed, link, notes>> /\ UNCHANGED seg
    BY <1>1 DEF RxByte
  <2>2. timer' \in BOOLEAN /\ time' \in 0 .. opt.time
    BY <1>0, <2>1 DEF TypeOK
  <2>3. CASE UNCHANGED <<queue, due>>
    BY <2>1, <2>2, <2>3 DEF TypeOK, StreamKept, PlaceInv
  <2>4. CASE /\ Len(queue) < RingSize - 1
             /\ queue' = Append(queue, b) /\ due' = Append(due, b)
    <3>1. queue \in Seq(Byte) /\ packet \in Seq(Byte) /\ due \in Seq(Byte)
          /\ due = packet \o queue
      BY DEF TypeOK, StreamKept
    <3>2. queue' \in Seq(Byte) /\ Len(queue') = Len(queue) + 1 /\ queue' # << >>
      BY <2>4, <3>1, AppendProperties
    <3>3. due' \in Seq(Byte)
      BY <2>4, <3>1, AppendProperties
    <3>4. due' = packet' \o queue'
      <4>1. <<b>> \in Seq(Byte)
        OBVIOUS
      <4>2. queue' = queue \o <<b>> /\ due' = (packet \o queue) \o <<b>>
        BY <2>4, <3>1, AppendIsConcat
      <4>3. (packet \o queue) \o <<b>> = packet \o (queue \o <<b>>)
        BY <3>1, <4>1, ConcatAssociative
      <4>4. packet' = packet
        BY <2>1
      <4>5. QED
        BY <4>2, <4>3, <4>4
    <3>5. Len(queue') < RingSize
      BY <1>0, <2>4, <3>2
    <3>6. TypeOK'
      BY <2>1, <2>2, <3>2, <3>3, <3>5 DEF TypeOK
    <3>7. QED
      BY <2>1, <3>2, <3>4, <3>6 DEF StreamKept, PlaceInv
  <2>5. QED
    BY <1>1, <2>3, <2>4 DEF RxByte
<1>2. CASE Tick
  <2>1. time' \in 0 .. opt.time
    <3>1. time \in 0 .. opt.time
      BY DEF TypeOK
    <3>2. (time < opt.time /\ time' = time + 1) \/ time' = 0
      BY <1>2 DEF Tick
    <3>3. QED
      BY <1>0, <3>1, <3>2
  <2>2. UNCHANGED <<opt, queue, link, due, notes>> /\ UNCHANGED seg
    BY <1>2 DEF Tick
  <2>3. timer' \in BOOLEAN /\ elapsed' \in BOOLEAN
    BY <1>2 DEF Tick, TypeOK
  <2>4. QED
    BY <2>1, <2>2, <2>3 DEF TypeOK, StreamKept, PlaceInv
<1>3. CASE LinkLost
  BY <1>3 DEF LinkLost, TypeOK, StreamKept, PlaceInv
<1>4. QED
  BY <1>1, <1>2, <1>3

LEMMA InvMain == Inv /\ Main => Inv'
<1> SUFFICES ASSUME Inv, Main PROVE Inv'
  OBVIOUS
<1> USE DEF Inv, notes, line
<1>0. /\ opt.time \in Nat /\ RingSize \in Nat \ {0} /\ BufSize \in Nat
      /\ << >> \in Seq(Byte) /\ Len(<< >>) = 0
      /\ Len(queue) \in Nat /\ Len(packet) \in Nat
      /\ queue \in Seq(Byte) /\ packet \in Seq(Byte) /\ due \in Seq(Byte)
      /\ due = packet \o queue
      /\ want \in Nat /\ want <= BufSize - Len(packet) /\ Len(packet) <= BufSize
  BY OptionTypes DEF TypeOK, StreamKept
<1>1. CASE Reopen
  <2>1. due' = packet' \o queue'
    BY <1>0, <1>1, ConcatEmptySeq DEF Reopen
  <2>2. QED
    <3>1. want' \in 0 .. BufSize - Len(packet') /\ Len(packet') <= BufSize
      BY <1>0, <1>1 DEF Reopen
    <3>2. packet' \in Seq(Byte) /\ queue' \in Seq(Byte) /\ due' \in Seq(Byte)
          /\ Len(queue') < RingSize
      BY <1>0, <1>1 DEF Reopen, TypeOK
    <3>3. time' \in 0 .. opt'.time /\ opt' \in Option
      BY <1>0, <1>1 DEF Reopen, TypeOK
    <3>4. TypeOK'
      BY <1>1, <3>1, <3>2, <3>3 DEF Reopen, TypeOK
    <3>5. PlaceInv'
      BY <1>1 DEF Reopen, PlaceInv
    <3>6. QED
      BY <2>1, <3>4, <3>5 DEF StreamKept
<1>2. CASE Connect
  <2>1. packet = << >>
    BY <1>2 DEF Connect, PlaceInv
  <2>2. due' = packet' \o queue'
    BY <1>0, <1>2, <2>1, ConcatEmptySeq DEF Connect
  <2>3. QED
    BY <1>0, <1>2, <2>1, <2>2 DEF Connect, TypeOK, StreamKept, PlaceInv
<1>3. CASE GetBegin
  <2>1. CountedOn \in 0 .. BufSize - Len(packet)
    BY <1>0 DEF CountedOn, Room, u2e_size
  <2>2. \/ pc' = "peek" /\ want' = want /\ Len(queue) = 1
        \/ pc' = "read" /\ want' = CountedOn
    BY <1>3 DEF GetBegin
  <2>3. pc' = "peek" => queue # << >>
    <3>1. Len(queue) = 1 => queue # << >>
      BY EmptySeq
    <3>2. QED
      BY <2>2, <3>1
  <2>4. QED
    BY <1>3, <2>1, <2>2, <2>3 DEF GetBegin, TypeOK, StreamKept, PlaceInv
<1>4. CASE Peek
  <2>1. queue # << >>
    BY <1>4 DEF Peek, PlaceInv
  <2>2. queue' \in Seq(Byte) /\ Len(queue') = Len(queue) - 1
    BY <1>0, <1>4, <2>1, HeadTailProperties DEF Peek
  <2>3. due' = packet \o Tail(queue)
    <3>1. due' = SubSeq(packet \o queue, 1, Len(packet))
                   \o SubSeq(packet \o queue, Len(packet) + 2, Len(packet \o queue))
      BY <1>0, <1>4 DEF Peek, u2e_size
    <3>2. QED
      BY <1>0, <2>1, <3>1, HeadMoves
  <2>4. due' = packet' \o queue' /\ due' \in Seq(Byte)
    <3>1. packet' = packet /\ queue' = Tail(queue)
      BY <1>4 DEF Peek
    <3>2. due' = packet' \o queue'
      BY <2>3, <3>1
    <3>3. packet' \in Seq(Byte)
      BY <1>0, <3>1
    <3>4. QED
      BY <2>2, <3>2, <3>3, ConcatProperties
  <2>5. \/ pc' = "send" /\ want' = want
        \/ pc' = "read" /\ want' = BufSize - Len(packet)
    BY <1>4 DEF Peek, Room, u2e_size
  <2>6. want' \in 0 .. BufSize - Len(packet) /\ pc' \in {"send", "read"}
    BY <1>0, <2>5
  <2>7. beyond' \in BOOLEAN /\ spilled' \in BOOLEAN
    BY <1>4 DEF Peek, TypeOK
  <2>8. Len(queue') < RingSize
    BY <1>0, <2>2 DEF TypeOK
  <2>9. TypeOK'
    BY <1>4, <2>2, <2>4, <2>6, <2>7, <2>8 DEF Peek, TypeOK
  <2>10. QED
    BY <1>4, <2>4, <2>6, <2>9 DEF Peek, StreamKept, PlaceInv
<1>5. CASE ReadByte
  <2>1. queue # << >> /\ packet' = Append(packet, Head(queue))
        /\ queue' = Tail(queue) /\ want > 0 /\ want' = want - 1
    BY <1>5 DEF ReadByte
  <2>2. Head(queue) \in Byte /\ queue' \in Seq(Byte) /\ Len(queue') = Len(queue) - 1
    BY <1>0, <2>1, HeadTailProperties
  <2>3. packet' \in Seq(Byte) /\ Len(packet') = Len(packet) + 1
    BY <1>0, <2>1, <2>2, AppendProperties
  <2>4. due' = packet' \o queue'
    <3>1. due' = packet \o queue
      BY <1>0, <1>5 DEF ReadByte
    <3>2. Append(packet, Head(queue)) \o Tail(queue) = packet \o queue
      BY <1>0, <2>1, HeadMoves
    <3>3. QED
      BY <2>1, <3>1, <3>2
  <2>5. /\ Len(queue') < RingSize /\ Len(packet') <= BufSize
        /\ want' \in 0 .. BufSize - Len(packet')
    BY <1>0, <2>1, <2>2, <2>3 DEF TypeOK
  <2>6. pc' \in {"send", "read"}
    BY <1>5 DEF ReadByte
  <2>7. TypeOK'
    BY <1>5, <2>2, <2>3, <2>5, <2>6 DEF ReadByte, TypeOK
  <2>8. status = "connect" /\ status' = status
    BY <1>5 DEF ReadByte, TypeOK, PlaceInv
  <2>9. QED
    BY <2>4, <2>6, <2>7, <2>8 DEF StreamKept, PlaceInv
<1>6. CASE ReadDone
  <2>1. pc' \in {"poll", "send", "clear"} /\ pc = "read"
    BY <1>6 DEF ReadDone
  <2>2. QED
    BY <1>6, <2>1 DEF ReadDone, TypeOK, StreamKept, PlaceInv
<1>7. CASE ClearElapsed
  BY <1>7 DEF ClearElapsed, TypeOK, StreamKept, PlaceInv
<1>8. CASE SendOk
  <2>1. due' = SubSeq(packet \o queue, Len(packet) + 1, Len(packet \o queue))
    BY <1>0, <1>8 DEF SendOk, u2e_size
  <2>2. due' = queue
    BY <1>0, <2>1, Behind
  <2>3. due' = packet' \o queue'
    BY <1>0, <1>8, <2>2, ConcatEmptySeq DEF SendOk
  <2>4. want \in 0 .. BufSize
    BY <1>0
  <2>5. QED
    <3>1. want' \in 0 .. BufSize - Len(packet') /\ Len(packet') <= BufSize
      BY <1>0, <1>8, <2>4 DEF SendOk
    <3>2. packet' \in Seq(Byte) /\ due' \in Seq(Byte)
      BY <1>0, <1>8, <2>2 DEF SendOk
    <3>3. TypeOK'
      BY <1>8, <3>1, <3>2 DEF SendOk, TypeOK
    <3>4. PlaceInv'
      BY <1>8 DEF SendOk, PlaceInv
    <3>5. QED
      BY <2>3, <3>3, <3>4 DEF StreamKept
<1>9. CASE SendNot
  BY <1>9 DEF SendNot, AfterRefusal, TypeOK, StreamKept, PlaceInv
<1>10. QED
  BY <1>1, <1>2, <1>3, <1>4, <1>5, <1>6, <1>7, <1>8, <1>9 DEF Main

LEMMA InvInit == Init => Inv
<1>1. << >> \in Seq(Byte) /\ Len(<< >>) = 0 /\ << >> \o << >> = << >>
  BY EmptySeq, ConcatEmptySeq
<1>2. RingSize \in Nat \ {0} /\ BufSize \in Nat
      /\ \A p \in Option : p.time \in Nat
  BY ToNetAssumption DEF ToNetAssumption
<1>3. QED
  <2> SUFFICES ASSUME Init PROVE Inv
    OBVIOUS
  <2>1. opt \in Option /\ time = 0 /\ opt.time \in Nat
    BY <1>2 DEF Init
  <2>2. time \in 0 .. opt.time /\ want \in 0 .. BufSize - Len(packet)
        /\ Len(packet) <= BufSize /\ Len(queue) < RingSize
    BY <1>1, <1>2, <2>1 DEF Init
  <2>3. TypeOK
    BY <1>1, <2>1, <2>2 DEF Init, TypeOK
  <2>4. StreamKept /\ PlaceInv
    BY <1>1 DEF Init, StreamKept, PlaceInv
  <2>5. QED
    BY <2>3, <2>4 DEF Inv

LEMMA InvAlways == Spec => []Inv
<1>1. Inv /\ UNCHANGED vars => Inv'
  BY DEF Inv, vars, TypeOK, StreamKept, PlaceInv
<1>2. Inv /\ [Next]_vars => Inv'
  BY <1>1, InvInterrupts, InvMain DEF Next
<1>3. QED
  BY <1>2, InvInit, PTL DEF Spec

\* Every variable keeps to its C type, and g_send_buf never counts more bytes
\* than it has.
THEOREM TypeCorrect == Spec => []TypeOK
<1>1. Inv => TypeOK
  BY DEF Inv
<1>2. QED
  BY <1>1, InvAlways, PTL

-----------------------------------------------------------------------------
(* The loop of get_serial_data                                             *)

\* A pass that has looked at no byte first counted on bytes that are there.
LoopInv == pc = "read" /\ ~spilled => want <= Len(queue)

LEMMA LoopInductive == Inv /\ LoopInv /\ [Next]_vars => LoopInv'
<1> SUFFICES ASSUME Inv, LoopInv, [Next]_vars PROVE LoopInv'
  OBVIOUS
<1> USE DEF LoopInv, notes, seg, line
<1>0. /\ Len(queue) \in Nat /\ Len(packet) \in Nat /\ want \in Nat
      /\ queue \in Seq(Byte) /\ BufSize \in Nat
  BY OptionTypes DEF Inv, TypeOK
<1>1. ASSUME NEW b \in Byte, RxByte(b) PROVE LoopInv'
  <2>1. Len(queue') >= Len(queue)
    <3>1. CASE queue' = queue
      BY <1>0, <3>1
    <3>2. CASE queue' = Append(queue, b)
      <4>1. Len(queue') = Len(queue) + 1
        BY <1>0, <3>2, AppendProperties
      <4>2. QED
        BY <1>0, <4>1
    <3>3. QED
      BY <1>1, <3>1, <3>2 DEF RxByte
  <2>2. Len(queue') \in Nat
    BY <1>0, <2>1, InvInterrupts, <1>1, OptionTypes, LenProperties DEF Inv, TypeOK
  <2>3. UNCHANGED <<pc, spilled, want>>
    BY <1>1 DEF RxByte
  <2>4. QED
    BY <1>0, <2>1, <2>2, <2>3
<1>2. CASE GetBegin
  <2>1. CountedOn <= Len(queue)
    BY <1>0 DEF CountedOn, Room, u2e_size
  <2>2. \/ pc' = "peek"
        \/ want' = CountedOn
    BY <1>2 DEF GetBegin
  <2>3. queue' = queue
    BY <1>2 DEF GetBegin
  <2>4. QED
    BY <2>1, <2>2, <2>3
<1>3. CASE ReadByte
  <2>1. Len(queue') = Len(queue) - 1 /\ want' = want - 1
    BY <1>0, <1>3, HeadTailProperties DEF ReadByte
  <2>2. pc = "read" /\ spilled' = spilled
    BY <1>3 DEF ReadByte
  <2>3. QED
    BY <1>0, <2>1, <2>2
<1>4. CASE Peek
  BY <1>4 DEF Peek
<1>5. CASE Tick \/ LinkLost
  BY <1>5 DEF Tick, LinkLost
<1>6. CASE Reopen \/ Connect \/ ReadDone \/ ClearElapsed \/ SendOk \/ SendNot
  BY <1>6 DEF Reopen, Connect, ReadDone, ClearElapsed, SendOk, SendNot
<1>7. CASE UNCHANGED vars
  BY <1>7 DEF vars
<1>8. QED
  BY <1>1, <1>2, <1>3, <1>4, <1>5, <1>6, <1>7 DEF Next, Main

-----------------------------------------------------------------------------
(* Where packets are cut                                                   *)

\* A packet that no send has refused holds no delimiter, except as the last
\* byte of one about to be sent, and is shorter than the size until then; and
\* what is about to be sent was ended by an option.
CutInv ==
  ~refused =>
    /\ \A k \in 1 .. Len(packet) - 1 : packet[k] # opt.delim
    /\ opt.size # 0 => Len(packet) <= opt.size
    /\ pc # "send" /\ packet # << >> => packet[Len(packet)] # opt.delim
    /\ pc # "send" /\ opt.size # 0 => Len(packet) < opt.size
    /\ pc = "clear" => opt.time # 0
    /\ pc = "send" /\ ~spilled /\ opt # NoPacking =>
         \/ packet[Len(packet)] = opt.delim
         \/ Len(packet) = opt.size
         \/ opt.time # 0

LEMMA CutInductive == Inv /\ CutInv /\ [Next]_vars => CutInv'
<1> SUFFICES ASSUME Inv, CutInv, [Next]_vars PROVE CutInv'
  OBVIOUS
<1> USE DEF notes, seg, line
<1>0. /\ Len(packet) \in Nat /\ packet \in Seq(Byte) /\ opt.size \in Nat
      /\ << >> \in Seq(Byte) /\ Len(<< >>) = 0
  BY OptionTypes DEF Inv, TypeOK
\* an empty packet before it is filled
<1>a. ASSUME packet' = << >>, pc' = "poll", opt' = opt PROVE CutInv'
  BY <1>0, <1>a DEF CutInv
<1>1. CASE (\E b \in Byte : RxByte(b)) \/ Tick \/ LinkLost
  <2>1. UNCHANGED <<opt, packet, pc, refused, spilled>>
    BY <1>1 DEF RxByte, Tick, LinkLost
  <2>2. QED
    BY <2>1 DEF CutInv
<1>2. CASE Reopen
  BY <1>a, <1>2 DEF Reopen
<1>3. CASE Connect
  BY <1>3 DEF Connect, CutInv
<1>4. CASE GetBegin
  <2>1. pc = "poll" /\ pc' \in {"peek", "read"} /\ UNCHANGED <<opt, packet, refused>>
    BY <1>4 DEF GetBegin
  <2>2. QED
    BY <2>1 DEF CutInv
<1>5. CASE Peek
  <2>1. pc = "peek" /\ pc' \in {"send", "read"} /\ UNCHANGED <<opt, packet, refused>>
        /\ spilled' = TRUE
    BY <1>5 DEF Peek
  <2>2. QED
    BY <2>1 DEF CutInv
<1>6. CASE ReadByte
  <2> DEFINE b == Head(queue)
  <2>1. /\ queue # << >> /\ packet' = Append(packet, b) /\ pc = "read"
        /\ pc' = IF Ends(b) THEN "send" ELSE "read"
        /\ UNCHANGED <<opt, refused, spilled>>
    BY <1>6 DEF ReadByte
  <2>2. b \in Byte
    BY <2>1, HeadTailProperties DEF Inv, TypeOK
  <2>3. /\ Len(packet') = Len(packet) + 1
        /\ \A k \in 1 .. Len(packet) : packet'[k] = packet[k]
        /\ packet'[Len(packet) + 1] = b
    BY <1>0, <2>1, <2>2, AppendProperties
  <2> HIDE DEF b
  <2> SUFFICES ASSUME ~refused PROVE CutInv'
    BY <2>1 DEF CutInv
  <2>4. /\ \A k \in 1 .. Len(packet) - 1 : packet[k] # opt.delim
        /\ packet # << >> => packet[Len(packet)] # opt.delim
        /\ opt.size # 0 => Len(packet) < opt.size
    BY <2>1 DEF CutInv
  <2>5. \A k \in 1 .. Len(packet) : packet[k] # opt.delim
    <3> SUFFICES ASSUME NEW k \in 1 .. Len(packet) PROVE packet[k] # opt.delim
      OBVIOUS
    <3>1. packet # << >>
      BY <1>0
    <3>2. k \in 1 .. Len(packet) - 1 \/ k = Len(packet)
      BY <1>0
    <3>3. QED
      BY <2>4, <3>1, <3>2
  <2>6. \A k \in 1 .. Len(packet') - 1 : packet'[k] # opt'.delim
    BY <1>0, <2>1, <2>3, <2>5
  <2>7. opt'.size # 0 => Len(packet') <= opt'.size
    BY <1>0, <2>1, <2>3, <2>4
  <2>8. Ends(b) <=> b = opt.delim \/ Len(packet) + 1 = opt.size
    BY DEF Ends, u2e_size
  <2>9. pc' # "send" => /\ packet'[Len(packet')] # opt'.delim
                        /\ opt'.size # 0 => Len(packet') < opt'.size
    <3>1. pc' # "send" => b # opt.delim /\ Len(packet) + 1 # opt.size
      BY <2>1, <2>8
    <3>2. QED
      BY <1>0, <2>1, <2>3, <2>4, <3>1
  <2>10. pc' = "send" => \/ packet'[Len(packet')] = opt'.delim
                         \/ Len(packet') = opt'.size
    BY <2>1, <2>3, <2>8
  <2>11. pc' # "clear"
    BY <2>1
  <2>12. QED
    BY <2>6, <2>7, <2>9, <2>10, <2>11 DEF CutInv
<1>7. CASE ReadDone
  <2>1. /\ pc = "read" /\ UNCHANGED <<opt, packet, refused, spilled>>
        /\ \/ pc' = "poll"
           \/ pc' = "send" /\ opt = NoPacking
           \/ pc' \in {"clear", "send"} /\ opt.time # 0
    BY <1>7 DEF ReadDone
  <2>2. QED
    BY <2>1 DEF CutInv
<1>8. CASE ClearElapsed
  <2>1. /\ pc = "clear" /\ pc' = "send" /\ UNCHANGED <<opt, packet, refused, spilled>>
    BY <1>8 DEF ClearElapsed
  <2>2. QED
    BY <2>1 DEF CutInv
<1>9. CASE SendOk
  BY <1>a, <1>9 DEF SendOk
<1>10. CASE SendNot
  BY <1>10 DEF SendNot, CutInv
<1>11. CASE UNCHANGED vars
  BY <1>11 DEF vars, CutInv
<1>12. QED
  BY <1>1, <1>2, <1>3, <1>4, <1>5, <1>6, <1>7, <1>8, <1>9, <1>10, <1>11
     DEF Next, Main

LEMMA CutInit == Init => CutInv
<1> SUFFICES ASSUME Init PROVE CutInv
  OBVIOUS
<1>1. packet = << >> /\ pc = "poll" /\ Len(packet) = 0
  BY EmptySeq DEF Init
<1>2. opt.size \in Nat
  BY InvInit, OptionTypes DEF Inv
<1>3. QED
  BY <1>1, <1>2 DEF CutInv

\* A packet that send takes at its first try was cut by the packing options:
\* no delimiter inside, no longer than the size, ended by one of them.
THEOREM CutCorrect == Spec => PacketCut
<1>1. CutInv /\ [Next]_vars =>
        [SendOk /\ ~refused /\ ~spilled /\ opt # NoPacking =>
           /\ \A k \in 1 .. u2e_size - 1 : packet[k] # opt.delim
           /\ opt.size # 0 => u2e_size <= opt.size
           /\ \/ packet[u2e_size] = opt.delim
              \/ u2e_size = opt.size
              \/ opt.time # 0]_vars
  BY DEF CutInv, SendOk, u2e_size
<1>2. QED
  BY <1>1, CutInit, CutInductive, InvAlways, PTL DEF Spec, PacketCut

-----------------------------------------------------------------------------
(* When a byte is dropped or put behind the packet buffer                  *)

\* The byte that is looked at first is looked at only with a delimiter, when at
\* most one cell is free; a size within the buffer leaves none only after a
\* refusal.  The rest of the pass takes no more than that cell.
PeekInv ==
  /\ opt.delim = NoDelim => pc # "peek" /\ ~spilled /\ ~beyond
  /\ pc = "peek" => Room <= 1 /\ (Room = 0 /\ opt.size \in 1 .. BufSize => refused)
  /\ pc = "read" /\ spilled => want <= 1

LEMMA PeekInductive ==
  Inv /\ CutInv /\ PeekInv /\ [Next]_vars => PeekInv'
<1> SUFFICES ASSUME Inv, CutInv, PeekInv, [Next]_vars PROVE PeekInv'
  OBVIOUS
<1> USE DEF notes, seg, line
<1>1. CASE GetBegin
  <2>1. /\ pc = "poll" /\ UNCHANGED <<opt, packet, beyond, refused>>
        /\ spilled' = FALSE
        /\ \/ pc' = "peek" /\ opt.delim # NoDelim /\ Room <= 1
           \/ pc' = "read"
    BY <1>1 DEF GetBegin
  <2>2. Room' = Room
    BY <2>1 DEF Room, u2e_size
  <2>3. Room = 0 /\ opt.size \in 1 .. BufSize => refused
    <3>1. opt.size \in Nat /\ BufSize \in Nat /\ Len(packet) \in Nat
      BY OptionTypes DEF Inv
    <3>2. ~refused /\ opt.size # 0 => Len(packet) < opt.size
      BY <2>1 DEF CutInv
    <3>3. Room = BufSize - Len(packet)
      BY DEF Room, u2e_size
    <3>4. QED
      BY <3>1, <3>2, <3>3
  <2>4. QED
    BY <2>1, <2>2, <2>3 DEF PeekInv
<1>2. CASE Peek
  <2>1. /\ pc = "peek" /\ opt' = opt
        /\ pc' = "send" \/ (pc' = "read" /\ want' = Room)
    BY <1>2 DEF Peek
  <2>2. opt'.delim # NoDelim /\ Room <= 1
    BY <2>1 DEF PeekInv
  <2>3. QED
    BY <2>1, <2>2 DEF PeekInv
<1>3. CASE (\E b \in Byte : RxByte(b)) \/ Tick \/ LinkLost
  <2>1. UNCHANGED <<opt, packet, pc, want, spilled, beyond, refused>>
    BY <1>3 DEF RxByte, Tick, LinkLost
  <2>2. QED
    BY <2>1 DEF PeekInv, Room, u2e_size
<1>4. CASE Reopen \/ Connect \/ ReadDone \/ ClearElapsed \/ SendOk \/ SendNot
  <2>1. pc' \notin {"peek", "read"} /\ UNCHANGED <<opt, spilled, beyond>>
    BY <1>4 DEF Reopen, Connect, ReadDone, ClearElapsed, SendOk, SendNot
  <2>2. QED
    BY <2>1 DEF PeekInv
<1>5. CASE ReadByte
  <2>1. /\ pc = "read" /\ pc' # "peek" /\ want' = want - 1
        /\ UNCHANGED <<opt, spilled, beyond>>
    BY <1>5 DEF ReadByte
  <2>2. want \in Nat
    BY OptionTypes DEF Inv, TypeOK
  <2>3. spilled => want' <= 1
    BY <2>1, <2>2 DEF PeekInv
  <2>4. QED
    BY <2>1, <2>3 DEF PeekInv
<1>6. CASE UNCHANGED vars
  BY <1>6 DEF vars, PeekInv, Room, u2e_size
<1>7. QED
  BY <1>1, <1>2, <1>3, <1>4, <1>5, <1>6 DEF Next, Main

LEMMA PeekAlways == Spec => [](Inv /\ CutInv /\ PeekInv)
<1>1. Init => PeekInv
  BY DEF Init, PeekInv
<1>2. QED
  BY <1>1, CutInit, CutInductive, PeekInductive, InvAlways, PTL DEF Spec

LEMMA LoopAlways == Spec => []LoopInv
<1>1. Init => LoopInv
  BY DEF Init, LoopInv
<1>2. QED
  BY <1>1, LoopInductive, InvAlways, PTL DEF Spec

\* What was accepted from the line in this connection and not yet sent is the
\* packet followed by the ring; a byte is left out only by Peek, which needs a
\* packing delimiter: without one nothing accepted is dropped.
THEOREM StreamCorrect ==
  Spec => [](StreamKept /\ (opt.delim = NoDelim => ~spilled))
<1>1. Inv /\ PeekInv => StreamKept /\ (opt.delim = NoDelim => ~spilled)
  BY DEF Inv, PeekInv
<1>2. QED
  BY <1>1, PeekAlways, PTL

\* The loop of get_serial_data has the bytes it counted on, or waits for one byte
\* in a pass that looked at a byte first.
THEOREM LoopCorrect == Spec => []CountedIsThere
<1>1. Inv /\ PeekInv /\ LoopInv => CountedIsThere
  <2> SUFFICES ASSUME Inv, PeekInv, LoopInv, pc = "read", ~(want <= Len(queue))
               PROVE  spilled /\ want = 1 /\ opt.delim # NoDelim
    BY DEF CountedIsThere
  <2>1. want \in Nat /\ Len(queue) \in Nat
    BY OptionTypes DEF Inv, TypeOK
  <2>2. spilled
    BY DEF LoopInv
  <2>3. want <= 1 /\ opt.delim # NoDelim
    BY <2>2 DEF PeekInv
  <2>4. QED
    BY <2>1, <2>2, <2>3
<1>2. QED
  BY <1>1, PeekAlways, LoopAlways, PTL

\* Without a packing delimiter no byte is looked at first: get_serial_data
\* drops none, puts none behind g_send_buf and waits for none.
THEOREM PlainCorrect ==
  Spec => [](opt.delim = NoDelim =>
               /\ NoOverflow /\ ~spilled
               /\ pc = "read" => want <= Len(queue))
<1>1. PeekInv /\ LoopInv =>
        (opt.delim = NoDelim => /\ NoOverflow /\ ~spilled
                                /\ pc = "read" => want <= Len(queue))
  BY DEF PeekInv, LoopInv, NoOverflow
<1>2. QED
  BY <1>1, PeekAlways, LoopAlways, PTL

\* A byte is put behind the end of g_send_buf only with a delimiter set and the
\* buffer full, and with a packing size within the buffer as well only after a
\* refused send: a packet of that size leaves at once.
OverflowCause ==
  [][beyond' /\ ~beyond => /\ opt.delim # NoDelim
                           /\ u2e_size = BufSize
                           /\ opt.size \in 1 .. BufSize => refused]_vars

THEOREM OverflowCorrect == Spec => OverflowCause
<1>1. Inv /\ PeekInv /\ [Next]_vars =>
        [beyond' /\ ~beyond => /\ opt.delim # NoDelim
                               /\ u2e_size = BufSize
                               /\ opt.size \in 1 .. BufSize => refused]_vars
  <2> SUFFICES ASSUME Inv, PeekInv, Next, beyond', ~beyond
               PROVE  /\ opt.delim # NoDelim
                      /\ u2e_size = BufSize
                      /\ opt.size \in 1 .. BufSize => refused
    OBVIOUS
  <2>1. Peek
    BY DEF Next, Main, RxByte, Tick, LinkLost, Reopen, Connect, GetBegin, ReadByte,
           ReadDone, ClearElapsed, SendOk, SendNot, notes
  <2>2. pc = "peek" /\ Room = 0
    BY <2>1 DEF Peek
  <2>3. u2e_size = BufSize
    BY <2>2, OptionTypes DEF Inv, Room, u2e_size
  <2>4. QED
    BY <2>2, <2>3 DEF PeekInv
<1>2. QED
  BY <1>1, PeekAlways, PTL DEF Spec, OverflowCause

-----------------------------------------------------------------------------
(* Without packing options                                                 *)

\* The pass that get_serial_data has begun has something to send.
PassInv ==
  opt = NoPacking =>
    /\ pc # "clear"
    /\ pc = "read" => packet # << >> \/ want > 0
    /\ pc = "send" => packet # << >>

LEMMA OptionFixed == Next => opt' = opt
<1>1. (\E b \in Byte : RxByte(b)) \/ Tick \/ LinkLost => opt' = opt
  BY DEF RxByte, Tick, LinkLost
<1>2. Reopen \/ Connect \/ GetBegin \/ Peek \/ ReadByte => opt' = opt
  BY DEF Reopen, Connect, GetBegin, Peek, ReadByte
<1>3. ReadDone \/ ClearElapsed \/ SendOk \/ SendNot => opt' = opt
  BY DEF ReadDone, ClearElapsed, SendOk, SendNot
<1>4. QED
  BY <1>1, <1>2, <1>3 DEF Next, Main

LEMMA PassInductive ==
  Inv /\ PeekInv /\ PassInv /\ [Next]_vars => PassInv'
<1> SUFFICES ASSUME Inv, PeekInv, PassInv, [Next]_vars, opt = NoPacking
             PROVE  PassInv'
  <2>1. CASE Next
    BY <2>1, OptionFixed DEF PassInv
  <2>2. CASE UNCHANGED vars
    BY <2>2 DEF vars, PassInv
  <2>3. QED
    BY <2>1, <2>2
<1> USE DEF notes, seg, line
<1>0. /\ Len(queue) \in Nat /\ Len(packet) \in Nat /\ BufSize \in Nat /\ BufSize > 1
      /\ packet \in Seq(Byte) /\ queue \in Seq(Byte) /\ opt.delim = NoDelim
  BY OptionTypes DEF Inv, TypeOK, NoPacking
<1>1. CASE GetBegin
  <2>1. pc' = "read" /\ want' = CountedOn /\ packet' = packet /\ Work
    BY <1>0, <1>1 DEF GetBegin
  <2>2. packet = << >> => CountedOn > 0
    <3> SUFFICES ASSUME packet = << >> PROVE CountedOn > 0
      OBVIOUS
    <3>1. Len(packet) = 0 /\ Len(queue) # 0
      BY <1>0, <2>1, EmptySeq DEF Work
    <3>2. QED
      BY <1>0, <3>1 DEF CountedOn, Room, u2e_size
  <2>3. QED
    BY <2>1, <2>2 DEF PassInv
<1>2. CASE Peek
  BY <1>0, <1>2 DEF Peek, PeekInv
<1>3. CASE ReadByte
  <2>1. packet' = Append(packet, Head(queue)) /\ queue # << >>
        /\ pc' \in {"send", "read"}
    BY <1>3 DEF ReadByte
  <2>2. Head(queue) \in Byte
    BY <1>0, <2>1, HeadTailProperties
  <2>3. Len(packet') = Len(packet) + 1 /\ packet' \in Seq(Byte)
    BY <1>0, <2>1, <2>2, AppendProperties
  <2>4. packet' # << >>
    BY <1>0, <2>3, EmptySeq
  <2>5. QED
    BY <2>1, <2>4 DEF PassInv
<1>4. CASE ReadDone
  <2>1. pc = "read" /\ want = 0 /\ pc' = "send" /\ packet' = packet
    BY <1>4 DEF ReadDone, PassInv
  <2>2. QED
    BY <2>1 DEF PassInv
<1>5. CASE ClearElapsed
  BY <1>5 DEF ClearElapsed, PassInv
<1>6. CASE Reopen \/ Connect \/ SendOk \/ SendNot
  <2>1. pc' = "poll"
    BY <1>6 DEF Reopen, Connect, SendOk, SendNot
  <2>2. QED
    BY <2>1 DEF PassInv
<1>7. CASE (\E b \in Byte : RxByte(b)) \/ Tick \/ LinkLost \/ UNCHANGED vars
  <2>1. UNCHANGED <<opt, packet, pc, want>>
    BY <1>7 DEF RxByte, Tick, LinkLost, vars
  <2>2. QED
    BY <2>1 DEF PassInv
<1>8. QED
  BY <1>1, <1>2, <1>3, <1>4, <1>5, <1>6, <1>7 DEF Next, Main

\* Without packing options every pass of get_serial_data that has begun ends in
\* send() with a packet that is not empty, whatever comes in meanwhile: what
\* Delivery needs besides the socket.
EveryPassSends ==
  [][opt = NoPacking /\ pc = "read" /\ pc' # "read" =>
       pc' = "send" /\ packet' # << >>]_vars

THEOREM PassCorrect == Spec => EveryPassSends
<1>1. Init => PassInv
  BY DEF Init, PassInv
<1>2. Inv /\ PassInv /\ PassInv' /\ [Next]_vars =>
        [opt = NoPacking /\ pc = "read" /\ pc' # "read" =>
           pc' = "send" /\ packet' # << >>]_vars
  <2> SUFFICES ASSUME PassInv, PassInv', Next, opt = NoPacking, pc = "read", pc' # "read"
               PROVE  pc' = "send" /\ packet' # << >>
    OBVIOUS
  <2>1. ReadByte \/ ReadDone
    BY DEF Next, Main, RxByte, Tick, LinkLost, Reopen, Connect, GetBegin, Peek,
           ClearElapsed, SendOk, SendNot, seg
  <2>2. opt' = opt
    BY <2>1 DEF ReadByte, ReadDone
  <2>3. pc' = "send"
    <3>1. CASE ReadByte
      BY <3>1 DEF ReadByte
    <3>2. CASE ReadDone
      BY <3>2 DEF ReadDone, PassInv
    <3>3. QED
      BY <2>1, <3>1, <3>2
  <2>4. QED
    BY <2>2, <2>3 DEF PassInv
<1>3. QED
  BY <1>1, <1>2, PassInductive, PeekAlways, PTL DEF Spec, EveryPassSends

-----------------------------------------------------------------------------
(* The ring                                                                *)

Ring == INSTANCE ByteFifo
          WITH Size <- RingSize, held <- << >>, lost <- FALSE, looking <- FALSE

\* The bytes this module reads come out of the very queue that SerialRx is
\* proved to implement, used within its limits: a byte is stored only where one
\* fits, read only when there is one, and the whole is emptied at once.
THEOREM RingUsed == Spec => Ring!FifoSpec
<1> USE DEF notes, seg, line
<1>1. Init => Ring!FifoInit
  BY DEF Init, Ring!FifoInit
<1>2. Inv /\ [Next]_vars => [Ring!FifoNext]_(Ring!fifo)
  <2> SUFFICES ASSUME Inv, [Next]_vars
               PROVE  Ring!FifoNext \/ queue' = queue
    BY DEF Ring!fifo
  <2>1. ASSUME NEW b \in Byte, RxByte(b) PROVE Ring!FifoNext \/ queue' = queue
    <3>1. CASE Len(queue) < RingSize - 1 /\ queue' = Append(queue, b)
      <4>1. /\ queue \in Seq(Byte) /\ Len(queue) \in Nat /\ RingSize \in Nat
            /\ <<b>> \in Seq(Byte) /\ Len(<<b>>) = 1
        BY OptionTypes DEF Inv, TypeOK
      <4>2. queue' = queue \o <<b>>
        BY <3>1, <4>1, AppendIsConcat
      <4>3. ~(Len(queue) + Len(<<b>>) >= RingSize)
        BY <3>1, <4>1
      <4>4. Ring!Put(<<b>>)
        BY <4>2, <4>3 DEF Ring!Put
      <4>5. Ring!Store(b)
        BY <4>4 DEF Ring!Store
      <4>6. QED
        BY <4>5 DEF Ring!FifoNext
    <3>2. CASE queue' = queue
      BY <3>2
    <3>3. QED
      BY <2>1, <3>1, <3>2 DEF RxByte
  <2>2. CASE Connect
    BY <2>2 DEF Connect, Ring!FifoNext, Ring!Empty
  <2>3. CASE Peek \/ ReadByte
    <3>1. queue # << >> /\ queue' = Tail(queue)
      BY <2>3 DEF Peek, ReadByte, Inv, PlaceInv
    <3>2. Ring!Read
      BY <3>1 DEF Ring!Read
    <3>3. QED
      BY <3>2 DEF Ring!FifoNext
  <2>4. CASE \/ Tick \/ LinkLost \/ Reopen \/ GetBegin \/ ReadDone \/ ClearElapsed
             \/ SendOk \/ SendNot \/ UNCHANGED vars
    BY <2>4 DEF Tick, LinkLost, Reopen, GetBegin, ReadDone, ClearElapsed, SendOk,
                SendNot, vars
  <2>5. QED
    BY <2>1, <2>2, <2>3, <2>4 DEF Next, Main
<1>3. QED
  BY <1>1, <1>2, InvAlways, PTL DEF Spec, Ring!FifoSpec
=============================================================================
