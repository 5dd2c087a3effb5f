----------------------- MODULE SerialRxHistory_proofs -----------------------
(***************************************************************************)
(* Proofs about SerialRxHistory for every size of the ring: the byte that  *)
(* is read is the oldest one, the reader in gateway mode never waits for a *)
(* byte it counted, and only restore_serial_data overruns the reader.      *)
(***************************************************************************)
EXTENDS SerialRxHistory, SerialRx_proofs, SequenceTheorems

-----------------------------------------------------------------------------
(* The ring's arithmetic without the remainder                             *)

\* The bounds of an index.
LEMMA IndexIs ==
  \A i \in Index : i \in Int /\ Size \in Int /\ 0 <= i /\ i < Size /\ 4 < Size
  BY SizeAssumption DEF SizeAssumption, Index

\* The remainder of what is less than twice around the ring.
LEMMA ModOnce ==
  ASSUME NEW n \in Int
  PROVE  /\ 0 <= n /\ n < Size => n % Size = n
         /\ Size <= n /\ n < Size + Size => n % Size = n - Size
  BY SizeAssumption, SMTT(60) DEF SizeAssumption

\* The number of unread bytes, and an index moved by less than a round, each
\* with the wrap as a case.
LEMMA UsedIs ==
  ASSUME NEW w \in Index, NEW r \in Index
  PROVE  Used(w, r) = IF r <= w THEN w - r ELSE Size + w - r
<1>1. /\ Size \in Int /\ w \in Int /\ r \in Int
      /\ 0 <= w /\ w < Size /\ 0 <= r /\ r < Size
  BY IndexIs
<1>2. Size + w - r \in Int
  BY <1>1
<1>3. CASE r <= w
  <2>1. Size <= Size + w - r /\ Size + w - r < Size + Size
    BY <1>1, <1>3
  <2>2. (Size + w - r) % Size = Size + w - r - Size
    BY <1>1, <1>2, <2>1, ModOnce
  <2>3. QED
    BY <1>1, <1>3, <2>2 DEF Used
<1>4. CASE ~(r <= w)
  <2>1. 0 <= Size + w - r /\ Size + w - r < Size
    BY <1>1, <1>4
  <2>2. (Size + w - r) % Size = Size + w - r
    BY <1>1, <1>2, <2>1, ModOnce
  <2>3. QED
    BY <1>1, <1>4, <2>2 DEF Used
<1>5. QED
  BY <1>3, <1>4

\* Where a move of up to a round leads, and one of up to four cells.
LEMMA MovedRound ==
  ASSUME NEW w \in Index, NEW n \in 0 .. Size
  PROVE  Moved(w, n) = IF w + n < Size THEN w + n ELSE w + n - Size
<1>1. Size \in Int /\ w \in Int /\ 0 <= w /\ w < Size
  BY IndexIs
<1>2. n \in Int /\ w + n \in Int /\ 0 <= w + n /\ w + n < Size + Size
  BY <1>1
<1>3. CASE w + n < Size
  BY <1>2, <1>3, ModOnce DEF Moved
<1>4. CASE ~(w + n < Size)
  <2>1. Size <= w + n
    BY <1>1, <1>2, <1>4
  <2>2. QED
    BY <1>1, <1>2, <1>4, <2>1, ModOnce DEF Moved
<1>5. QED
  BY <1>3, <1>4

LEMMA MovedIs ==
  ASSUME NEW w \in Index, NEW n \in 0 .. 4
  PROVE  Moved(w, n) = IF w + n < Size THEN w + n ELSE w + n - Size
<1>1. n \in 0 .. Size
  BY IndexIs
<1>2. QED
  BY <1>1, MovedRound

\* A ring that is not full holds at least one byte less than fits.
LEMMA FullIs ==
  ASSUME NEW w \in Index, NEW r \in Index, ~RingFull(w, r)
  PROVE  Used(w, r) < Size - 1
<1>1. /\ Size \in Int /\ w \in Int /\ r \in Int
      /\ 0 <= w /\ w < Size /\ 0 <= r /\ r < Size
  BY IndexIs
<1>2. Size + r - w - 1 \in Int
  BY <1>1
<1>3. (Size + r - w - 1) % Size # 0
  BY DEF RingFull, Free
<1>4. CASE r <= w
  <2>1. 0 <= Size + r - w - 1 /\ Size + r - w - 1 < Size
    BY <1>1, <1>4
  <2>2. Size + r - w - 1 # 0
    BY <1>1, <1>2, <1>3, <2>1, ModOnce
  <2>3. Used(w, r) = w - r
    BY <1>4, UsedIs
  <2>4. QED
    BY <1>1, <2>1, <2>2, <2>3
<1>5. CASE ~(r <= w)
  <2>1. Size <= Size + r - w - 1 /\ Size + r - w - 1 < Size + Size
    BY <1>1, <1>5
  <2>2. Size + r - w - 1 - Size # 0
    BY <1>1, <1>2, <1>3, <2>1, ModOnce
  <2>3. Used(w, r) = Size + w - r
    BY <1>5, UsedIs
  <2>4. QED
    BY <1>1, <2>1, <2>2, <2>3
<1>6. QED
  BY <1>4, <1>5

\* Two moves of the write index add up.
LEMMA MovedTwice ==
  ASSUME NEW w \in Index, NEW m \in 0 .. 3
  PROVE  Moved(Moved(w, m), 1) = Moved(w, m + 1)
<1>1. /\ Size \in Int /\ w \in Int /\ m \in Int
      /\ 0 <= w /\ w < Size /\ 0 <= m /\ m < 4 /\ 4 < Size
  BY IndexIs
<1>2. Moved(w, m) \in Index /\ m \in 0 .. 4 /\ m + 1 \in 0 .. 4 /\ 1 \in 0 .. 4
  BY <1>1, RingTypes
<1>3. Moved(w, m) = IF w + m < Size THEN w + m ELSE w + m - Size
  BY <1>2, MovedIs
<1>4. Moved(w, m + 1) = IF w + (m + 1) < Size THEN w + (m + 1)
                        ELSE w + (m + 1) - Size
  BY <1>2, MovedIs
<1>5. Moved(Moved(w, m), 1) = IF Moved(w, m) + 1 < Size THEN Moved(w, m) + 1
                              ELSE Moved(w, m) + 1 - Size
  BY <1>2, MovedIs
<1>6. QED
  BY <1>1, <1>3, <1>4, <1>5

\* By how much the write index moved shows from where it was and where it is.
LEMMA WrittenIs ==
  ASSUME NEW w \in Index, NEW n \in 0 .. 4
  PROVE  Used(Moved(w, n), w) = n
<1>1. Size \in Int /\ w \in Int /\ 0 <= w /\ w < Size /\ 4 < Size
  BY IndexIs
<1>2. Moved(w, n) \in Index
  BY RingTypes
<1>3. Moved(w, n) = IF w + n < Size THEN w + n ELSE w + n - Size
  BY MovedIs
<1>4. Used(Moved(w, n), w) = IF w <= Moved(w, n) THEN Moved(w, n) - w
                             ELSE Size + Moved(w, n) - w
  BY <1>2, UsedIs
<1>5. QED
  BY <1>1, <1>3, <1>4

\* As long as the reader is not overrun there are as many more unread bytes as
\* were stored, and none of the cells passed is the oldest one.
LEMMA UsedGrows ==
  ASSUME NEW w \in Index, NEW r \in Index, NEW n \in 0 .. 4,
         Used(w, r) + n < Size
  PROVE  /\ Used(Moved(w, n), r) = Used(w, r) + n
         /\ w # r => \A k \in 0 .. n - 1 : Moved(w, k) # r
<1>1. /\ Size \in Int /\ w \in Int /\ r \in Int
      /\ 0 <= w /\ w < Size /\ 0 <= r /\ r < Size /\ 4 < Size
  BY IndexIs
<1>2. Used(w, r) = IF r <= w THEN w - r ELSE Size + w - r
  BY UsedIs
<1>3. Used(Moved(w, n), r) = Used(w, r) + n
  <2>1. Moved(w, n) \in Index
    BY RingTypes
  <2>2. Moved(w, n) = IF w + n < Size THEN w + n ELSE w + n - Size
    BY MovedIs
  <2>3. Used(Moved(w, n), r) = IF r <= Moved(w, n) THEN Moved(w, n) - r
                               ELSE Size + Moved(w, n) - r
    BY <2>1, UsedIs
  <2>4. QED
    BY <1>1, <1>2, <2>2, <2>3
<1>4. ASSUME w # r, NEW k \in 0 .. n - 1 PROVE Moved(w, k) # r
  <2>1. k \in 0 .. 4
    OBVIOUS
  <2>2. Moved(w, k) = IF w + k < Size THEN w + k ELSE w + k - Size
    BY <2>1, MovedIs
  <2>3. QED
    BY <1>1, <1>2, <1>4, <2>2
<1>5. QED
  BY <1>3, <1>4

\* Moving the read index takes one byte.
LEMMA UsedShrinks ==
  ASSUME NEW w \in Index, NEW r \in Index, w # r
  PROVE  Used(w, Moved(r, 1)) = Used(w, r) - 1
<1>1. /\ Size \in Int /\ w \in Int /\ r \in Int
      /\ 0 <= w /\ w < Size /\ 0 <= r /\ r < Size /\ 4 < Size
  BY IndexIs
<1>2. Moved(r, 1) \in Index /\ 1 \in 0 .. 4
  BY RingTypes
<1>3. Moved(r, 1) = IF r + 1 < Size THEN r + 1 ELSE r + 1 - Size
  BY <1>2, MovedIs
<1>4. Used(w, r) = IF r <= w THEN w - r ELSE Size + w - r
  BY UsedIs
<1>5. Used(w, Moved(r, 1)) = IF Moved(r, 1) <= w THEN w - Moved(r, 1)
                             ELSE Size + w - Moved(r, 1)
  BY <1>2, UsedIs
<1>6. QED
  BY <1>1, <1>3, <1>4, <1>5

-----------------------------------------------------------------------------
(* What an interrupt does to the ring                                      *)

Interrupt == (\E b \in Byte : RxByte(b)) \/ seg_timer_msec

\* From f to g, the bytes of s were stored from index w on.
Added(f, g, w, s) ==
  /\ \A i \in Index : (\A k \in 0 .. Len(s) - 1 : Moved(w, k) # i) => g[i] = f[i]
  /\ \A k \in 0 .. Len(s) - 1 : g[Moved(w, k)] = s[k + 1]

Stores(s) == wr' = Moved(wr, Len(s)) /\ Added(buf, buf', wr, s)

\* What the detector may do when nothing is stored: keep what it holds back,
\* hold back a byte, or recognise the code.
Keeps ==
  \/ UNCHANGED HeldBytes
  \/ ~NotExamined /\ Len(HeldBytes) < 3
       /\ \E b \in Byte : HeldBytes' = Append(HeldBytes, b)
  \/ Len(HeldBytes) = 3 /\ HeldBytes' = << >>

\* A byte that goes by the detector, and what a restore stores.
Passes(s) ==
  /\ ~RingFull(wr, rd)
  /\ \E b \in Byte : s = <<b>>
  /\ ~NotExamined => HeldBytes = << >>
  /\ UNCHANGED HeldBytes

Releases(s) ==
  /\ idx > 0 /\ idx' = 0
  /\ HeldBytes # << >> /\ HeldBytes' = << >>
  /\ \/ s = HeldBytes
     \/ ~NotExamined /\ \E b \in Byte : s = HeldBytes \o <<b>>

StoresFor(s) == (s = << >> /\ Keeps) \/ Passes(s) \/ Releases(s)

\* Moving by nothing.
LEMMA MovedZero == \A w \in Index : Moved(w, 0) = w
<1> SUFFICES ASSUME NEW w \in Index PROVE Moved(w, 0) = w
  OBVIOUS
<1>1. w \in Int /\ w < Size /\ Size \in Int
  BY IndexIs
<1>2. 0 \in 0 .. 4
  OBVIOUS
<1>3. Moved(w, 0) = IF w + 0 < Size THEN w + 0 ELSE w + 0 - Size
  BY <1>2, MovedIs
<1>4. QED
  BY <1>1, <1>3

\* An interrupt never comes round to a cell it has stored a byte in.
LEMMA MovedApart ==
  ASSUME NEW w \in Index, NEW j \in 0 .. 4, NEW k \in 0 .. 4,
         Moved(w, j) = Moved(w, k)
  PROVE  j = k
<1>1. /\ Size \in Int /\ w \in Int /\ 0 <= w /\ w < Size /\ 4 < Size
      /\ j \in Int /\ k \in Int /\ 0 <= j /\ j <= 4 /\ 0 <= k /\ k <= 4
  BY IndexIs
<1>2. /\ Moved(w, j) = IF w + j < Size THEN w + j ELSE w + j - Size
      /\ Moved(w, k) = IF w + k < Size THEN w + k ELSE w + k - Size
  BY MovedIs
<1>3. /\ w + j < Size /\ w + k < Size => w + j = w + k
      /\ w + j < Size /\ ~(w + k < Size) => w + j = w + k - Size
      /\ ~(w + j < Size) /\ w + k < Size => w + j - Size = w + k
      /\ ~(w + j < Size) /\ ~(w + k < Size) => w + j - Size = w + k - Size
  BY <1>2
<1>4. QED
  BY <1>1, <1>3

\* What the detector holds back is a sequence of up to three bytes.
LEMMA HeldBytesAre ==
  ASSUME TypeOK, HeldIsTrigger
  PROVE  /\ HeldBytes \in Seq(Byte) /\ Len(HeldBytes) = idx /\ idx \in 0 .. 3
         /\ \A k \in 0 .. idx - 1 : HeldBytes[k + 1] = chTmp[k]
         /\ HeldBytes = << >> <=> idx = 0
<1>1. idx \in 0 .. 3
  BY DEF TypeOK
<1>2. ASSUME NEW k \in 1 .. idx PROVE chTmp[k - 1] \in Byte
  <2>1. k - 1 \in 0 .. 2 /\ k - 1 < idx
    BY <1>1
  <2>2. QED
    BY <2>1, RxAssumption DEF HeldIsTrigger, RxAssumption
<1>3. HeldBytes \in Seq(Byte) /\ Len(HeldBytes) = idx
  BY <1>1, <1>2 DEF HeldBytes
<1>4. ASSUME NEW k \in 0 .. idx - 1 PROVE HeldBytes[k + 1] = chTmp[k]
  <2>1. k + 1 \in 1 .. idx /\ (k + 1) - 1 = k
    BY <1>1
  <2>2. QED
    BY <2>1 DEF HeldBytes
<1>5. QED
  BY <1>1, <1>3, <1>4, EmptySeq

\* The length of a held-back sequence with a byte behind it, and its bytes.
LEMMA AppendedByte ==
  ASSUME NEW s \in Seq(Byte), NEW b \in Byte
  PROVE  /\ s \o <<b>> = Append(s, b) /\ s \o <<b>> \in Seq(Byte)
         /\ Len(s \o <<b>>) = Len(s) + 1 /\ Len(s) \in Nat
         /\ (s \o <<b>>)[Len(s) + 1] = b
         /\ \A k \in 1 .. Len(s) : (s \o <<b>>)[k] = s[k]
  OBVIOUS

\* Nothing stored.
LEMMA NothingStored ==
  ASSUME TypeOK, wr' = wr, buf' = buf, Keeps
  PROVE  \E s \in Seq(Byte) : Len(s) \in 0 .. 4 /\ Stores(s) /\ StoresFor(s)
<1>1. Moved(wr, 0) = wr
  BY MovedZero DEF TypeOK
<1>2. << >> \in Seq(Byte) /\ Len(<< >>) = 0 /\ 0 \in 0 .. 4
  OBVIOUS
<1>3. Stores(<< >>) /\ StoresFor(<< >>)
  BY <1>1, <1>2 DEF Stores, StoresFor, Added
<1>4. QED
  BY <1>2, <1>3

\* Accept stores the byte at w, when the ring is not full, or nothing.
LEMMA AcceptStores ==
  ASSUME TypeOK, NEW b \in Byte, NEW f \in [Index -> Cell], NEW w \in Index,
         Accept(b, f, w)
  PROVE  \/ wr' = w /\ buf' = f
         \/ /\ ~RingFull(w, rd)
            /\ wr' = Moved(w, 1)
            /\ buf'[w] = b
            /\ \A i \in Index : i # w => buf'[i] = f[i]
<1>1. CASE RingFull(w, rd) \/ ~Permitted \/ IsFlowByte(b)
  BY <1>1 DEF Accept
<1>2. CASE ~(RingFull(w, rd) \/ ~Permitted \/ IsFlowByte(b))
  <2>1. buf' = [f EXCEPT ![w] = b] /\ wr' = Moved(w, 1)
    BY <1>2 DEF Accept
  <2>2. QED
    BY <1>2, <2>1
<1>3. QED
  BY <1>1, <1>2

\* restore_serial_data puts back what was held back, in its order, and leaves
\* the other cells alone.
LEMMA RestoredIs ==
  ASSUME TypeOK, HeldIsTrigger
  PROVE  Added(buf, Restored, wr, HeldBytes)
<1>1. /\ Len(HeldBytes) = idx /\ idx \in 0 .. 3 /\ wr \in Index
      /\ \A k \in 0 .. idx - 1 : HeldBytes[k + 1] = chTmp[k]
  BY HeldBytesAre DEF TypeOK
<1>2. ASSUME NEW i \in Index, \A k \in 0 .. idx - 1 : Moved(wr, k) # i
      PROVE  Restored[i] = buf[i]
  <2>1. ~ \E k \in 0 .. idx - 1 : i = Moved(wr, k)
    BY <1>2
  <2>2. QED
    BY <2>1 DEF Restored, Stored
<1>3. ASSUME NEW j \in 0 .. idx - 1 PROVE Restored[Moved(wr, j)] = chTmp[j]
  <2> DEFINE i == Moved(wr, j)
             c == CHOOSE k \in 0 .. idx - 1 : i = Moved(wr, k)
  <2>1. j \in Nat /\ j \in 0 .. 4
    BY <1>1
  <2>2. i \in Index
    BY <1>1, <2>1, RingTypes
  <2>3. Restored[i] = chTmp[c]
    BY <2>2 DEF Restored, Stored
  <2>4. c \in 0 .. idx - 1 /\ i = Moved(wr, c)
    OBVIOUS
  <2> HIDE DEF c
  <2>5. c \in 0 .. 4
    BY <1>1, <2>4
  <2>6. c = j
    BY <1>1, <2>1, <2>4, <2>5, MovedApart
  <2>7. QED
    BY <2>3, <2>6
<1>4. QED
  BY <1>1, <1>2, <1>3 DEF Added

\* A byte stored behind what was added is added too.
LEMMA AddedOne ==
  ASSUME NEW f, NEW g, NEW h, NEW w \in Index, NEW s \in Seq(Byte),
         NEW b \in Byte, NEW n \in 0 .. 3, Len(s) = n, Added(f, g, w, s),
         h[Moved(w, n)] = b,
         \A i \in Index : i # Moved(w, n) => h[i] = g[i]
  PROVE  Added(f, h, w, s \o <<b>>)
<1>1. /\ Len(s \o <<b>>) = n + 1 /\ n \in Nat /\ n <= 3
      /\ (s \o <<b>>)[n + 1] = b
      /\ \A k \in 1 .. n : (s \o <<b>>)[k] = s[k]
  <2>1. n \in Nat /\ n <= 3
    OBVIOUS
  <2>2. /\ Len(s \o <<b>>) = Len(s) + 1
        /\ (s \o <<b>>)[Len(s) + 1] = b
        /\ \A k \in 1 .. Len(s) : (s \o <<b>>)[k] = s[k]
    BY AppendedByte
  <2>3. QED
    BY <2>1, <2>2
<1>2. ASSUME NEW i \in Index, \A k \in 0 .. n : Moved(w, k) # i
      PROVE  h[i] = f[i]
  <2>1. \A k \in 0 .. n - 1 : Moved(w, k) # i
    BY <1>1, <1>2
  <2>2. g[i] = f[i]
    BY <2>1 DEF Added
  <2>3. i # Moved(w, n)
    BY <1>1, <1>2
  <2>4. QED
    BY <2>2, <2>3
<1>3. ASSUME NEW k \in 0 .. n PROVE h[Moved(w, k)] = (s \o <<b>>)[k + 1]
  <2>1. CASE k = n
    BY <1>1, <2>1
  <2>2. CASE k # n
    <3>1. k \in 0 .. n - 1 /\ k + 1 \in 1 .. n /\ k \in 0 .. 4 /\ n \in 0 .. 4
          /\ k \in Nat
      BY <1>1, <2>2
    <3>2. Moved(w, k) # Moved(w, n)
      BY <2>2, <3>1, MovedApart
    <3>3. Moved(w, k) \in Index
      BY <3>1, RingTypes
    <3>4. h[Moved(w, k)] = g[Moved(w, k)]
      BY <3>2, <3>3
    <3>5. g[Moved(w, k)] = s[k + 1]
      BY <3>1 DEF Added
    <3>6. QED
      BY <1>1, <3>1, <3>4, <3>5
  <2>3. QED
    BY <2>1, <2>2
<1>4. (n + 1) - 1 = n
  BY <1>1
<1>5. QED
  BY <1>1, <1>2, <1>3, <1>4 DEF Added

\* Holding back a byte puts it behind those held back.
LEMMA HoldAppends ==
  ASSUME TypeOK, HeldIsTrigger, NEW b \in Byte, RxHold(b)
  PROVE  HeldBytes' = Append(HeldBytes, b)
<1>1. /\ idx < 3 /\ idx \in 0 .. 2 /\ idx' = idx + 1
      /\ chTmp' = [chTmp EXCEPT ![idx] = b]
      /\ chTmp \in [0 .. 2 -> Cell]
  BY DEF RxHold, Matches, TypeOK, Cell
<1>2. HeldBytes \in Seq(Byte) /\ Len(HeldBytes) = idx
  BY HeldBytesAre
<1>3. HeldBytes' = [k \in 1 .. idx + 1 |-> chTmp'[k - 1]]
  BY <1>1 DEF HeldBytes
<1>4. /\ Append(HeldBytes, b) \in Seq(Byte)
      /\ Len(Append(HeldBytes, b)) = idx + 1
      /\ \A k \in 1 .. idx : Append(HeldBytes, b)[k] = HeldBytes[k]
      /\ Append(HeldBytes, b)[idx + 1] = b
  BY <1>2, AppendProperties
<1>5. ASSUME NEW k \in 1 .. idx + 1
      PROVE  chTmp'[k - 1] = Append(HeldBytes, b)[k]
  <2>1. k - 1 \in 0 .. 2 /\ k \in Int
    BY <1>1
  <2>2. CASE k = idx + 1
    BY <1>1, <1>4, <2>1, <2>2
  <2>3. CASE k # idx + 1
    <3>1. k - 1 # idx /\ k \in 1 .. idx
      BY <1>1, <2>1, <2>3
    <3>2. HeldBytes[k] = chTmp[k - 1]
      BY <3>1 DEF HeldBytes
    <3>3. chTmp'[k - 1] = chTmp[k - 1]
      BY <1>1, <2>1, <3>1
    <3>4. QED
      BY <1>4, <3>1, <3>2, <3>3
  <2>4. QED
    BY <2>2, <2>3
<1>6. /\ HeldBytes' \in Seq(Byte) /\ Len(HeldBytes') = idx + 1
      /\ \A k \in 1 .. idx + 1 : HeldBytes'[k] = Append(HeldBytes, b)[k]
  <2> DEFINE t == Append(HeldBytes, b)
             c == chTmp'
  <2>1. \A k \in 1 .. idx + 1 : t[k] \in Byte /\ c[k - 1] = t[k]
    BY <1>1, <1>4, <1>5, ElementOfSeq
  <2>2. idx + 1 \in Nat
    BY <1>1
  <2>3. HeldBytes' = [k \in 1 .. idx + 1 |-> c[k - 1]]
    BY <1>3
  <2> HIDE DEF t, c
  <2>4. HeldBytes' \in [1 .. idx + 1 -> Byte]
        /\ \A k \in 1 .. idx + 1 : HeldBytes'[k] = t[k]
    BY <2>1, <2>3
  <2> DEFINE h == HeldBytes'
             m == idx + 1
  <2>5. m \in Nat /\ h \in [1 .. m -> Byte]
    BY <2>2, <2>4
  <2> HIDE DEF h, m
  <2>6. h \in Seq(Byte) /\ Len(h) = m
    BY <2>5
  <2>7. QED
    BY <2>4, <2>6 DEF t, h, m
<1>7. QED
  <2> DEFINE h == HeldBytes'
             t == Append(HeldBytes, b)
  <2>1. h \in Seq(Byte) /\ t \in Seq(Byte) /\ Len(h) = Len(t)
        /\ \A k \in 1 .. Len(h) : h[k] = t[k]
    BY <1>4, <1>6
  <2> HIDE DEF h, t
  <2>2. h = t
    BY <2>1, SeqEqual
  <2>3. QED
    BY <2>2 DEF h, t

\* Accepting a byte that was not held back stores it, or nothing.
LEMMA AcceptPasses ==
  ASSUME TypeOK, HeldIsTrigger, NEW b \in Byte, Accept(b, buf, wr),
         UNCHANGED <<idx, chTmp>>, ~NotExamined => idx = 0
  PROVE  \E s \in Seq(Byte) : Len(s) \in 0 .. 4 /\ Stores(s) /\ StoresFor(s)
<1>1. /\ buf \in [Index -> Cell] /\ wr \in Index /\ Moved(wr, 0) = wr
      /\ UNCHANGED HeldBytes
  BY MovedZero DEF TypeOK, Cell, HeldBytes
<1>2. CASE wr' = wr /\ buf' = buf
  BY <1>1, <1>2, NothingStored DEF Keeps
<1>3. CASE /\ ~RingFull(wr, rd) /\ wr' = Moved(wr, 1) /\ buf'[wr] = b
           /\ \A i \in Index : i # wr => buf'[i] = buf[i]
  <2>1. << >> \o <<b>> = <<b>> /\ Len(<<b>>) = 1 /\ <<b>> \in Seq(Byte)
        /\ << >> \in Seq(Byte) /\ Len(<< >>) = 0
    OBVIOUS
  <2>2. Added(buf, buf, wr, << >>)
    BY DEF Added
  <2> DEFINE g == buf'
  <2>3. g[Moved(wr, 0)] = b /\ \A i \in Index : i # Moved(wr, 0) => g[i] = buf[i]
    BY <1>1, <1>3
  <2> HIDE DEF g
  <2>4. 0 \in 0 .. 3
    OBVIOUS
  <2>5. Added(buf, g, wr, << >> \o <<b>>)
    BY <1>1, <2>1, <2>2, <2>3, <2>4, AddedOne
  <2>6. Stores(<<b>>)
    BY <1>3, <2>1, <2>5 DEF g, Stores
  <2>7. Passes(<<b>>)
    BY <1>1, <1>3, HeldBytesAre DEF Passes
  <2>8. <<b>> \in Seq(Byte) /\ Len(<<b>>) \in 0 .. 4
    BY <2>1
  <2>9. StoresFor(<<b>>)
    BY <2>7 DEF StoresFor
  <2>10. QED
    BY <2>6, <2>8, <2>9
<1>4. QED
  BY <1>1, <1>2, <1>3, AcceptStores

\* A byte that does not go on with the code releases what was held back.
LEMMA MismatchReleases ==
  ASSUME TypeOK, HeldIsTrigger, NEW b \in Byte, RxMismatch(b)
  PROVE  \E s \in Seq(Byte) : Len(s) \in 0 .. 4 /\ Stores(s) /\ StoresFor(s)
<1>1. /\ HeldBytes \in Seq(Byte) /\ Len(HeldBytes) = idx /\ idx \in 0 .. 3
      /\ HeldBytes = << >> <=> idx = 0
      /\ wr \in Index
  BY HeldBytesAre DEF TypeOK
<1>2. /\ Accept(b, Restored, Moved(wr, idx)) /\ idx' = 0 /\ idx > 0
      /\ ~NotExamined
  BY <1>1 DEF RxMismatch, Mismatch
<1>3. Restored \in [Index -> Cell] /\ Moved(wr, idx) \in Index
  BY RestoredType
<1>4. HeldBytes # << >> /\ HeldBytes' = << >>
  BY <1>1, <1>2 DEF HeldBytes
<1>5. Added(buf, Restored, wr, HeldBytes)
  BY RestoredIs
<1>6. CASE wr' = Moved(wr, idx) /\ buf' = Restored
  <2>1. Stores(HeldBytes)
    BY <1>1, <1>5, <1>6 DEF Stores
  <2>2. Releases(HeldBytes)
    BY <1>2, <1>4 DEF Releases
  <2>3. Len(HeldBytes) \in 0 .. 4 /\ StoresFor(HeldBytes)
    BY <1>1, <2>2 DEF StoresFor
  <2>4. QED
    BY <1>1, <2>1, <2>3
<1>7. CASE /\ wr' = Moved(Moved(wr, idx), 1) /\ buf'[Moved(wr, idx)] = b
           /\ \A i \in Index : i # Moved(wr, idx) => buf'[i] = Restored[i]
  <2> DEFINE s == HeldBytes \o <<b>>
  <2>1. s \in Seq(Byte) /\ Len(s) = idx + 1
    BY <1>1, AppendedByte
  <2>2. wr' = Moved(wr, idx + 1)
    BY <1>1, <1>7, MovedTwice
  <2> DEFINE g == buf'
  <2>3. g[Moved(wr, idx)] = b
        /\ \A i \in Index : i # Moved(wr, idx) => g[i] = Restored[i]
    BY <1>7
  <2> HIDE DEF g
  <2>4. Added(buf, g, wr, s)
    BY <1>1, <1>5, <2>3, AddedOne
  <2>5. Stores(s)
    BY <2>1, <2>2, <2>4 DEF g, Stores
  <2>6. Releases(s)
    BY <1>2, <1>4 DEF Releases
  <2>7. Len(s) \in 0 .. 4
    BY <1>1, <2>1
  <2>8. StoresFor(s)
    BY <2>6 DEF StoresFor
  <2>9. QED
    BY <2>1, <2>5, <2>7, <2>8
<1>8. QED
  BY <1>2, <1>3, <1>6, <1>7, AcceptStores

\* Every interrupt stores in this way and leaves the reader's variables alone.
LEMMA InterruptStores ==
  ASSUME TypeOK, HeldIsTrigger, Interrupt
  PROVE  /\ \E s \in Seq(Byte) : Len(s) \in 0 .. 4 /\ Stores(s) /\ StoresFor(s)
         /\ UNCHANGED <<rd, opmode, status, pc, ret, ch, left>>
<1> USE DEF main
<1> DEFINE Goal == \E s \in Seq(Byte) : Len(s) \in 0 .. 4 /\ Stores(s) /\ StoresFor(s)
<1>0. /\ HeldBytes \in Seq(Byte) /\ Len(HeldBytes) = idx /\ idx \in 0 .. 3
      /\ HeldBytes = << >> <=> idx = 0
      /\ wr \in Index
  BY HeldBytesAre DEF TypeOK
<1>1. ASSUME wr' = wr, buf' = buf, Keeps PROVE Goal
  BY <1>1, NothingStored
<1>2. ASSUME NEW b \in Byte, RxByte(b) PROVE Goal
  <2>1. CASE RxNotExamined(b)
    <3>1. Accept(b, buf, wr) /\ UNCHANGED <<idx, chTmp>> /\ NotExamined
      BY <2>1 DEF RxNotExamined
    <3>2. QED
      BY <3>1, AcceptPasses
  <2>2. CASE RxHold(b)
    <3>1. HeldBytes' = Append(HeldBytes, b)
      BY <2>2, HoldAppends
    <3>2. wr' = wr /\ buf' = buf /\ ~NotExamined /\ idx < 3
      BY <2>2 DEF RxHold, Matches
    <3>3. Keeps
      BY <1>0, <3>1, <3>2 DEF Keeps
    <3>4. QED
      BY <1>1, <3>2, <3>3
  <2>3. CASE RxData(b)
    <3>1. Accept(b, buf, wr) /\ UNCHANGED <<idx, chTmp>> /\ idx = 0
      BY <2>3 DEF RxData
    <3>2. QED
      BY <3>1, AcceptPasses
  <2>4. CASE RxMismatch(b)
    BY <2>4, MismatchReleases
  <2>5. CASE RxSwallow(b)
    <3>1. wr' = wr /\ buf' = buf /\ UNCHANGED HeldBytes
      BY <2>5 DEF RxSwallow, HeldBytes
    <3>2. QED
      BY <1>1, <3>1 DEF Keeps
  <2>6. QED
    BY <1>2, <2>1, <2>2, <2>3, <2>4, <2>5 DEF RxByte
<1>3. ASSUME seg_timer_msec PROVE Goal
  <2>1. CASE TickCount
    <3>1. wr' = wr /\ buf' = buf /\ UNCHANGED HeldBytes
      BY <2>1 DEF TickCount, HeldBytes
    <3>2. QED
      BY <1>1, <3>1 DEF Keeps
  <2>2. CASE TickTriggered
    <3>1. wr' = wr /\ buf' = buf /\ idx = 3 /\ idx' = 0
      BY <2>2 DEF TickTriggered
    <3>2. HeldBytes' = << >>
      BY <3>1 DEF HeldBytes
    <3>3. QED
      BY <1>0, <1>1, <3>1, <3>2 DEF Keeps
  <2>3. CASE TickRestore
    <3>1. buf' = Restored /\ wr' = Moved(wr, idx) /\ idx' = 0
      BY <2>3 DEF TickRestore
    <3>2. Stores(HeldBytes) /\ HeldBytes' = << >>
      BY <1>0, <3>1, RestoredIs DEF Stores, HeldBytes
    <3>3. StoresFor(HeldBytes)
      BY <1>0, <3>1, <3>2 DEF StoresFor, Keeps, Releases
    <3>4. Len(HeldBytes) \in 0 .. 4
      BY <1>0
    <3>5. QED
      BY <1>0, <3>2, <3>3, <3>4
  <2>4. QED
    BY <1>3, <2>1, <2>2, <2>3 DEF seg_timer_msec
<1>4. UNCHANGED <<rd, opmode, status, pc, ret, ch, left>>
  BY DEF Interrupt, RxByte, RxNotExamined, RxHold, RxData, RxMismatch,
     RxSwallow, seg_timer_msec, TickCount, TickTriggered, TickRestore
<1>5. QED
  BY <1>2, <1>3, <1>4 DEF Interrupt

\* As long as the reader is not overrun, an interrupt leaves the oldest unread
\* byte where it is and only adds to the unread ones.
LEMMA InterruptKeepsOldest ==
  ASSUME TypeOK, HeldIsTrigger, Interrupt, pc # "flushRd", Overrun, ~overrun'
  PROVE  /\ ~overrun
         /\ Used(wr, rd) <= Used(wr', rd)
         /\ wr # rd => wr' # rd /\ buf'[rd] = buf[rd]
<1>1. /\ wr \in Index /\ rd \in Index
      /\ Used(wr, rd) \in Int /\ Used(wr, wr) = 0 /\ Used(rd, rd) = 0
      /\ Size \in Int /\ 0 < Size
  <2>1. wr \in Index /\ rd \in Index /\ 0 \in 0 .. 4
    BY DEF TypeOK
  <2>2. Used(wr, wr) = 0 /\ Used(rd, rd) = 0
    BY <2>1, WrittenIs, MovedZero
  <2>3. Used(wr, rd) \in Index
    BY <2>1, RingTypes
  <2>4. QED
    BY <2>1, <2>2, <2>3, IndexIs
<1>2. PICK s \in Seq(Byte) : Len(s) \in 0 .. 4 /\ Stores(s)
  BY InterruptStores
<1> DEFINE n == Len(s)
<1>3. Written(wr') = n
  <2>1. Written(wr') = Used(Moved(wr, n), wr)
    BY <1>2 DEF Written, Used, Stores
  <2>2. QED
    BY <1>1, <1>2, <2>1, WrittenIs
<1>4. ~overrun /\ ~(Used(wr, rd) + n >= Size)
  BY <1>3 DEF Overrun, Pending
<1>5. Used(wr, rd) + n < Size
  BY <1>1, <1>4
<1>6. /\ Used(wr', rd) = Used(wr, rd) + n
      /\ wr # rd => \A k \in 0 .. n - 1 : Moved(wr, k) # rd
  BY <1>1, <1>2, <1>5, UsedGrows DEF Stores
<1>7. ASSUME wr # rd PROVE wr' # rd /\ buf'[rd] = buf[rd]
  <2>1. buf'[rd] = buf[rd]
    BY <1>1, <1>2, <1>6, <1>7 DEF Stores, Added
  <2>2. Used(wr, rd) # 0
    BY <1>1, <1>7, UsedIs, IndexIs
  <2>3. 0 <= Used(wr, rd)
    BY <1>1, RingTypes, IndexIs
  <2>4. Used(wr', rd) # 0
    BY <1>1, <1>6, <2>2, <2>3
  <2>5. QED
    BY <1>1, <2>1, <2>4
<1>8. QED
  BY <1>1, <1>4, <1>6, <1>7

-----------------------------------------------------------------------------
(* The reader                                                              *)

\* GatewayNeverSpins also holds between the two halves of uart_getc; without
\* that the second half would not preserve it.
ReaderInv ==
  /\ overrun \in BOOLEAN
  /\ ByteTakenIsOldest
  /\ pc \in {"get", "got"} /\ opmode = "gw" /\ ~overrun /\ ~Delimiter
       => left <= Used(wr, rd)

\* An interrupt does not take a byte away from the reader.
LEMMA InterruptReader ==
  ASSUME TypeOK, HeldIsTrigger, ReaderInv, Interrupt, Overrun
  PROVE  ReaderInv'
<1>1. UNCHANGED <<rd, opmode, status, pc, ret, ch, left>>
  BY InterruptStores
<1>2. overrun' \in BOOLEAN
  BY DEF Overrun
<1>3. ASSUME pc \in {"get", "got"}, ~overrun'
      PROVE  /\ ~overrun
             /\ Used(wr, rd) <= Used(wr', rd)
             /\ wr # rd => wr' # rd /\ buf'[rd] = buf[rd]
  BY <1>3, InterruptKeepsOldest
<1>4. ByteTakenIsOldest'
  BY <1>1, <1>3 DEF ReaderInv, ByteTakenIsOldest, RingEmpty
<1>5. ASSUME pc' \in {"get", "got"}, opmode' = "gw", ~overrun', ~Delimiter
      PROVE  left' <= Used(wr', rd')
  <2>1. left <= Used(wr, rd) /\ Used(wr, rd) <= Used(wr', rd)
    BY <1>1, <1>3, <1>5 DEF ReaderInv
  <2>2. wr' \in Index
    <3>1. PICK s \in Seq(Byte) : Len(s) \in 0 .. 4 /\ Stores(s)
      BY InterruptStores
    <3>2. Len(s) \in Nat
      BY <3>1
    <3>3. QED
      BY <3>1, <3>2, RingTypes DEF Stores, TypeOK
  <2>3. left \in Int /\ Used(wr, rd) \in Int /\ Used(wr', rd) \in Int
    BY <2>2, RingTypes, IndexIs, SizeAssumption DEF TypeOK, SizeAssumption
  <2>4. QED
    BY <1>1, <2>1, <2>3
<1>6. QED
  BY <1>2, <1>4, <1>5 DEF ReaderInv

\* The main loop reads no more bytes than it counted.
LEMMA MainReader ==
  ASSUME TypeOK, LeftInv, ReaderInv, HMain
  PROVE  ReaderInv'
<1> USE DEF ReaderInv, ByteTakenIsOldest, RingEmpty, ring, mode, detector
<1>1. overrun' \in BOOLEAN /\ (FlushWr => overrun' = FALSE)
      /\ (~FlushWr => overrun' = overrun) /\ Main
  BY DEF HMain
<1>2. ASSUME pc' \notin {"get", "got"} PROVE ReaderInv'
  BY <1>1, <1>2
<1>3. CASE GetBegin
  <2>1. pc' = "get" /\ UNCHANGED <<wr, rd, opmode>>
    BY <1>3 DEF GetBegin
  <2>2. Used(wr, rd) \in Int
    BY RingTypes, IndexIs DEF TypeOK
  <2>3. ~Delimiter => left' <= Used(wr, rd)
    BY <1>3, <2>2 DEF GetBegin
  <2>4. QED
    BY <1>1, <2>1, <2>3
<1>4. CASE CmdBegin
  <2>1. pc' = "get" /\ opmode' = "at"
    BY <1>4 DEF CmdBegin
  <2>2. QED
    BY <1>1, <2>1
<1>5. CASE GetByte
  <2>1. /\ pc = "get" /\ pc' = "got" /\ rd # wr /\ ch' = buf[rd]
        /\ UNCHANGED <<buf, wr, rd, opmode, left>>
    BY <1>5 DEF GetByte
  <2>2. ~FlushWr
    BY <2>1 DEF FlushWr
  <2>3. QED
    BY <1>1, <2>1, <2>2
<1>6. CASE GetMove
  <2>1. pc = "got" /\ rd' = Moved(rd, 1) /\ UNCHANGED <<wr, opmode>>
        /\ pc' \in {"get", "loop"}
        /\ (opmode = "gw" => left' = left - 1)
    BY <1>6 DEF GetMove
  <2>2. ~FlushWr
    BY <2>1 DEF FlushWr
  <2>3. ASSUME pc' \in {"get", "got"}, opmode' = "gw", ~overrun', ~Delimiter
        PROVE  left' <= Used(wr', rd')
    <3>1. wr # rd /\ left <= Used(wr, rd)
      BY <1>1, <2>1, <2>2, <2>3
    <3>2. Used(wr', rd') = Used(wr, rd) - 1
      BY <2>1, <3>1, UsedShrinks DEF TypeOK
    <3>3. left \in Int /\ Used(wr, rd) \in Int
      BY RingTypes, IndexIs, SizeAssumption DEF TypeOK, SizeAssumption
    <3>4. QED
      BY <2>1, <2>3, <3>1, <3>2, <3>3
  <2>4. QED
    BY <1>1, <2>1, <2>3
<1>7. CASE SegBegin \/ SegEnd \/ Connect \/ Reopen \/ FlushCmd \/ FlushWr
           \/ SwitchStopTimer \/ SwitchClearSw
  BY <1>2, <1>7 DEF SegBegin, SegEnd, Connect, Reopen, FlushCmd, FlushWr,
     SwitchStopTimer, SwitchClearSw
<1>8. CASE SwitchClearTime
  BY <1>2, <1>8 DEF SwitchClearTime
<1>9. ASSUME NEW bySeg \in BOOLEAN, SwitchBegin(bySeg) PROVE ReaderInv'
  BY <1>2, <1>9 DEF SwitchBegin
<1>10. CASE FlushRd
  BY <1>2, <1>10 DEF FlushRd, TypeOK
<1>11. QED
  BY <1>1, <1>3, <1>4, <1>5, <1>6, <1>7, <1>8, <1>9, <1>10 DEF Main

\* The observer's steps are the program's.
LEMMA HistoryStep ==
  [HNext]_vars => [Next]_rxVars
<1>1. HNext => Next
  BY DEF HNext, Next, HRxByte, HTick, HMain
<1>2. UNCHANGED vars => UNCHANGED rxVars
  BY DEF vars, rxVars
<1>3. QED
  BY <1>1, <1>2

\* Types and the reader's invariant hold at the start, and no step of the program
\* or its observer breaks them.
LEMMA ReaderInit == HInit => TypeOK /\ LeftInv /\ HeldIsTrigger /\ ReaderInv
<1> SUFFICES ASSUME HInit PROVE TypeOK /\ LeftInv /\ HeldIsTrigger /\ ReaderInv
  OBVIOUS
<1>1. Init /\ overrun = FALSE
  BY DEF HInit
<1>2. pc = "loop" /\ idx = 0
  BY <1>1 DEF Init
<1>3. HeldIsTrigger
  BY <1>2 DEF HeldIsTrigger
<1>4. QED
  BY <1>1, <1>2, <1>3, TypeInit DEF ReaderInv, ByteTakenIsOldest

\* The inductive step.
LEMMA ReaderInductive ==
  TypeOK /\ LeftInv /\ HeldIsTrigger /\ ReaderInv /\ [HNext]_vars
    => TypeOK' /\ LeftInv' /\ HeldIsTrigger' /\ ReaderInv'
<1> SUFFICES ASSUME TypeOK, LeftInv, HeldIsTrigger, ReaderInv, [HNext]_vars
             PROVE  TypeOK' /\ LeftInv' /\ HeldIsTrigger' /\ ReaderInv'
  OBVIOUS
<1>1. TypeOK' /\ LeftInv' /\ HeldIsTrigger'
  BY HistoryStep, TypeInductive, HeldInductive
<1>2. CASE \E b \in Byte : HRxByte(b)
  <2>1. Interrupt /\ Overrun
    BY <1>2 DEF HRxByte, Interrupt
  <2>2. QED
    BY <1>1, <2>1, InterruptReader
<1>3. CASE HTick
  <2>1. Interrupt /\ Overrun
    BY <1>3 DEF HTick, Interrupt
  <2>2. QED
    BY <1>1, <2>1, InterruptReader
<1>4. CASE HMain
  BY <1>1, <1>4, MainReader
<1>5. CASE UNCHANGED vars
  BY <1>1, <1>5 DEF vars, ReaderInv, ByteTakenIsOldest, RingEmpty
<1>6. QED
  BY <1>2, <1>3, <1>4, <1>5 DEF HNext

\* The byte that uart_getc has read is the oldest unread one when the read index
\* moves over it, whatever the interrupts stored in between.
THEOREM OldestTaken == HSpec => []ByteTakenIsOldest
<1>1. ReaderInv => ByteTakenIsOldest
  BY DEF ReaderInv
<1>2. QED
  BY <1>1, ReaderInit, ReaderInductive, PTL DEF HSpec

\* Without a packing delimiter get_serial_data never waits for a byte.
THEOREM NeverSpins == HSpec => []GatewayNeverSpins
<1>1. ReaderInv => GatewayNeverSpins
  BY DEF ReaderInv, GatewayNeverSpins
<1>2. QED
  BY <1>1, ReaderInit, ReaderInductive, PTL DEF HSpec

-----------------------------------------------------------------------------
(* Who overruns the reader                                                 *)

\* The bytes unread, the bytes held back and the one that arrives need all cells.
NoRoom == Used(wr, rd) + idx + 1 >= Size

\* A byte that is stored by itself finds room for it.
LEMMA OverrunStep ==
  TypeOK /\ HeldIsTrigger /\ [HNext]_vars
    => [overrun' /\ ~overrun /\ pc # "flushRd" => idx > 0 /\ idx' = 0 /\ NoRoom]_vars
<1> SUFFICES ASSUME TypeOK, HeldIsTrigger, HNext, overrun', ~overrun, pc # "flushRd"
             PROVE  idx > 0 /\ idx' = 0 /\ NoRoom
  OBVIOUS
<1>1. CASE HMain
  BY <1>1 DEF HMain
<1>2. CASE (\E b \in Byte : HRxByte(b)) \/ HTick
  <2>1. Interrupt /\ Overrun
    BY <1>2 DEF HRxByte, HTick, Interrupt
  <2>2. PICK s \in Seq(Byte) : Len(s) \in 0 .. 4 /\ Stores(s) /\ StoresFor(s)
    BY <2>1, InterruptStores
  <2> DEFINE n == Len(s)
  <2>3. wr \in Index /\ rd \in Index /\ Used(wr, rd) \in Int
        /\ Size \in Int /\ Used(wr, rd) < Size
    BY RingTypes, IndexIs DEF TypeOK
  <2>4. Written(wr') = n
    <3>1. Written(wr') = Used(Moved(wr, n), wr)
      BY <2>2 DEF Written, Used, Stores
    <3>2. QED
      BY <2>2, <2>3, <3>1, WrittenIs
  <2>5. Used(wr, rd) + n >= Size
    BY <2>1, <2>4 DEF Overrun, Pending
  <2>6. s # << >>
    BY <2>3, <2>5
  <2>7. ~Passes(s)
    <3>1. SUFFICES ASSUME Passes(s) PROVE FALSE
      OBVIOUS
    <3>2. n = 1 /\ ~RingFull(wr, rd)
      BY <3>1 DEF Passes
    <3>3. Used(wr, rd) < Size - 1
      BY <2>3, <3>2, FullIs
    <3>4. QED
      BY <2>3, <2>5, <3>2, <3>3
  <2>8. Releases(s)
    BY <2>2, <2>6, <2>7 DEF StoresFor
  <2>9. n <= idx + 1
    <3>1. HeldBytes \in Seq(Byte) /\ Len(HeldBytes) = idx /\ idx \in 0 .. 3
      BY HeldBytesAre DEF TypeOK
    <3>2. CASE s = HeldBytes
      BY <3>1, <3>2
    <3>3. CASE \E b \in Byte : s = HeldBytes \o <<b>>
      BY <3>1, <3>3
    <3>4. QED
      BY <2>8, <3>2, <3>3 DEF Releases
  <2>10. idx \in 0 .. 3
    BY DEF TypeOK
  <2>11. NoRoom
    BY <2>3, <2>5, <2>9, <2>10 DEF NoRoom
  <2>12. QED
    BY <2>8, <2>11 DEF Releases
<1>3. QED
  BY <1>1, <1>2 DEF HNext

\* Only restore_serial_data overruns the reader: a byte stored by itself is
\* never the one too many, wherever the main loop stands.
THEOREM OnlyRestoreOverruns == HSpec => OverrunOnlyByRestore
  BY ReaderInit, ReaderInductive, OverrunStep, PTL
     DEF HSpec, OverrunOnlyByRestore

\* restore_serial_data asks for no room, but overruns the reader only when the
\* ring has no more free cells than bytes are held back: a main loop that leaves
\* four cells free is never overrun.
OverrunNeedsFullRing ==
  [][overrun' /\ ~overrun /\ pc # "flushRd" => NoRoom]_vars

THEOREM RoomSuffices == HSpec => OverrunNeedsFullRing
  BY ReaderInit, ReaderInductive, OverrunStep, PTL
     DEF HSpec, OverrunNeedsFullRing

-----------------------------------------------------------------------------
(* The ring implements the queue                                           *)

\* Where reading will go on: at zero once a flush has cleared the write index.
Base == IF pc = "flushRd" THEN 0 ELSE rd

\* What is unread from a place on is a sequence of cells.
LEMMA UnreadIsSeq ==
  ASSUME NEW f \in [Index -> Cell], NEW w \in Index, NEW r \in Index
  PROVE  /\ Unread(f, w, r) \in Seq(Cell)
         /\ Len(Unread(f, w, r)) = Used(w, r)
         /\ \A k \in 1 .. Used(w, r) : Unread(f, w, r)[k] = f[Moved(r, k - 1)]
<1>1. Used(w, r) \in Nat
  BY RingTypes, IndexIs
<1>2. ASSUME NEW k \in 1 .. Used(w, r) PROVE f[Moved(r, k - 1)] \in Cell
  <2>1. k - 1 \in Nat
    BY <1>1
  <2>2. QED
    BY <2>1, RingTypes
<1>3. QED
  BY <1>1, <1>2 DEF Unread

\* No byte between equal indices.
LEMMA UnreadNone ==
  ASSUME NEW f \in [Index -> Cell], NEW w \in Index
  PROVE  Unread(f, w, w) = << >>
<1>1. w \in Int /\ Used(w, w) = 0
  BY UsedIs, IndexIs
<1>2. Len(Unread(f, w, w)) = 0 /\ Unread(f, w, w) \in Seq(Cell)
  BY <1>1, UnreadIsSeq
<1>3. QED
  BY <1>2, EmptySeq

\* There is room for s between the write and the read index.
Fits(w, r, s) == Len(s) \in 0 .. 4 /\ Used(w, r) + Len(s) < Size

\* Bytes stored from the write index on, while there is room for them, are
\* appended to what is unread.
LEMMA UnreadGrows ==
  ASSUME NEW f \in [Index -> Cell], NEW g \in [Index -> Cell],
         NEW w \in Index, NEW r \in Index, NEW s \in Seq(Byte),
         Fits(w, r, s), Added(f, g, w, s)
  PROVE  Unread(g, Moved(w, Len(s)), r) = Unread(f, w, r) \o s
<1>0. PICK n \in 0 .. 4 : Len(s) = n /\ Used(w, r) + n < Size
  BY DEF Fits
<1> DEFINE old == Unread(f, w, r)
           new == Unread(g, Moved(w, n), r)
           u == Used(w, r)
<1>1. /\ Size \in Int /\ w \in Int /\ r \in Int
      /\ 0 <= w /\ w < Size /\ 0 <= r /\ r < Size /\ 4 < Size
      /\ n \in Int /\ 0 <= n
      /\ Moved(w, n) \in Index
      /\ u \in Int /\ 0 <= u
      /\ u = IF r <= w THEN w - r ELSE Size + w - r
  <2>1. Moved(w, n) \in Index /\ u \in Index
    BY RingTypes
  <2>2. u = IF r <= w THEN w - r ELSE Size + w - r
    BY UsedIs
  <2>3. QED
    BY <2>1, <2>2, IndexIs
<1>2. Used(Moved(w, n), r) = u + n
  BY <1>0, UsedGrows
<1>3. s \in Seq(Cell) /\ n \in Nat /\ n <= 4 /\ u + n < Size
  <2>1. s \in Seq(Cell)
    BY DEF Cell
  <2>2. n \in Nat /\ n <= 4
    OBVIOUS
  <2>3. QED
    BY <1>0, <2>1, <2>2
<1>4. /\ old \in Seq(Cell) /\ Len(old) = u
      /\ \A k \in 1 .. u : old[k] = f[Moved(r, k - 1)]
  BY UnreadIsSeq
<1>5. /\ new \in Seq(Cell) /\ Len(new) = u + n
      /\ \A k \in 1 .. u + n : new[k] = g[Moved(r, k - 1)]
  <2>1. /\ new \in Seq(Cell) /\ Len(new) = Used(Moved(w, n), r)
        /\ \A k \in 1 .. Used(Moved(w, n), r) : new[k] = g[Moved(r, k - 1)]
    BY <1>1, UnreadIsSeq
  <2>2. QED
    BY <1>2, <2>1
<1>6. /\ old \o s \in Seq(Cell) /\ Len(old \o s) = u + n
      /\ \A k \in 1 .. u + n :
           (old \o s)[k] = IF k <= u THEN old[k] ELSE s[k - u]
  <2>1. /\ old \o s \in Seq(Cell) /\ Len(old \o s) = Len(old) + n
        /\ \A k \in 1 .. Len(old) + n :
             (old \o s)[k] = IF k <= Len(old) THEN old[k] ELSE s[k - Len(old)]
    <3>1. /\ old \o s \in Seq(Cell) /\ Len(old \o s) = Len(old) + Len(s)
          /\ \A k \in 1 .. Len(old) + Len(s) :
               (old \o s)[k] = IF k <= Len(old) THEN old[k] ELSE s[k - Len(old)]
      BY <1>3, <1>4, ConcatProperties
    <3>2. QED
      BY <1>0, <3>1
  <2>2. QED
    BY <1>4, <2>1
<1> HIDE DEF u
<1>7. ASSUME NEW k \in 1 .. u + n PROVE new[k] = (old \o s)[k]
  <2>1. k - 1 \in 0 .. Size /\ k \in Int /\ k - 1 \in Nat
        /\ 1 <= k /\ k <= u + n
    BY <1>1, <1>3
  <2>2. Moved(r, k - 1) = IF r + (k - 1) < Size THEN r + (k - 1)
                          ELSE r + (k - 1) - Size
    BY <2>1, MovedRound
  <2>3. Moved(r, k - 1) \in Index
    BY <2>1, RingTypes
  <2>4. CASE k <= u
    <3>1. ASSUME NEW j \in 0 .. n - 1 PROVE Moved(w, j) # Moved(r, k - 1)
      <4>1. j \in 0 .. 4 /\ j \in Int /\ 0 <= j /\ j < n
        BY <1>1, <1>3
      <4>2. Moved(w, j) = IF w + j < Size THEN w + j ELSE w + j - Size
        BY <4>1, MovedIs
      <4>3. QED
        BY <1>1, <1>3, <2>1, <2>2, <2>4, <4>1, <4>2
    <3>2. g[Moved(r, k - 1)] = f[Moved(r, k - 1)]
      BY <1>0, <2>3, <3>1 DEF Added
    <3>3. k \in 1 .. u
      BY <1>1, <2>1, <2>4
    <3>4. QED
      BY <1>4, <1>5, <1>6, <2>4, <3>2, <3>3
  <2>5. CASE ~(k <= u)
    <3>1. (k - u) - 1 \in 0 .. n - 1 /\ (k - u) - 1 \in 0 .. 4
          /\ ((k - u) - 1) + 1 = k - u
      BY <1>1, <1>3, <2>1, <2>5
    <3>2. Moved(w, (k - u) - 1) = IF w + ((k - u) - 1) < Size
                                  THEN w + ((k - u) - 1)
                                  ELSE w + ((k - u) - 1) - Size
      BY <3>1, MovedIs
    <3>3. Moved(w, (k - u) - 1) = Moved(r, k - 1)
      <4>1. CASE r <= w
        BY <1>1, <1>3, <2>1, <2>2, <2>5, <3>1, <3>2, <4>1
      <4>2. CASE ~(r <= w)
        BY <1>1, <1>3, <2>1, <2>2, <2>5, <3>1, <3>2, <4>2
      <4>3. QED
        BY <4>1, <4>2
    <3>4. g[Moved(w, (k - u) - 1)] = s[k - u]
      BY <1>0, <3>1 DEF Added
    <3>5. QED
      BY <1>5, <1>6, <2>5, <3>3, <3>4
  <2>6. QED
    BY <2>4, <2>5
<1>8. QED
  <2> HIDE DEF old, new
  <2>1. new = old \o s
    BY <1>5, <1>6, <1>7, SeqEqual
  <2>2. QED
    BY <1>0, <2>1 DEF old, new

\* Moving the read index drops the oldest byte.
LEMMA UnreadShrinks ==
  ASSUME NEW f \in [Index -> Cell], NEW w \in Index, NEW r \in Index, w # r
  PROVE  /\ Unread(f, w, r) # << >>
         /\ Unread(f, w, Moved(r, 1)) = Tail(Unread(f, w, r))
<1> DEFINE old == Unread(f, w, r)
           new == Unread(f, w, Moved(r, 1))
           u == Used(w, r)
<1>1. /\ Size \in Int /\ w \in Int /\ r \in Int
      /\ 0 <= w /\ w < Size /\ 0 <= r /\ r < Size /\ 4 < Size
      /\ Moved(r, 1) \in Index
      /\ u \in Int /\ 0 <= u /\ u < Size
      /\ u = IF r <= w THEN w - r ELSE Size + w - r
  BY IndexIs, RingTypes, UsedIs
<1>2. u # 0
  BY <1>1
<1>3. /\ old \in Seq(Cell) /\ Len(old) = u
      /\ \A k \in 1 .. u : old[k] = f[Moved(r, k - 1)]
  BY UnreadIsSeq
<1>4. old # << >>
  BY <1>2, <1>3, EmptySeq
<1>5. /\ new \in Seq(Cell) /\ Len(new) = u - 1
      /\ \A k \in 1 .. u - 1 : new[k] = f[Moved(Moved(r, 1), k - 1)]
  <2>1. Used(w, Moved(r, 1)) = u - 1
    BY UsedShrinks
  <2>2. /\ new \in Seq(Cell) /\ Len(new) = Used(w, Moved(r, 1))
        /\ \A k \in 1 .. Used(w, Moved(r, 1)) :
             new[k] = f[Moved(Moved(r, 1), k - 1)]
    BY <1>1, UnreadIsSeq
  <2>3. QED
    BY <2>1, <2>2
<1>6. /\ Tail(old) \in Seq(Cell) /\ Len(Tail(old)) = u - 1
      /\ \A k \in 1 .. u - 1 : Tail(old)[k] = old[k + 1]
  BY <1>3, <1>4, HeadTailProperties
<1>7. ASSUME NEW k \in 1 .. u - 1 PROVE new[k] = Tail(old)[k]
  <2>1. /\ k \in Int /\ k - 1 \in 0 .. Size /\ k \in 0 .. Size
        /\ k + 1 \in 1 .. u /\ 1 \in 0 .. 4 /\ (k + 1) - 1 = k
    BY <1>1
  <2>2. Moved(r, 1) = IF r + 1 < Size THEN r + 1 ELSE r + 1 - Size
    BY <2>1, MovedIs
  <2>3. Moved(Moved(r, 1), k - 1)
          = IF Moved(r, 1) + (k - 1) < Size THEN Moved(r, 1) + (k - 1)
            ELSE Moved(r, 1) + (k - 1) - Size
    BY <1>1, <2>1, MovedRound
  <2>4. Moved(r, k) = IF r + k < Size THEN r + k ELSE r + k - Size
    BY <2>1, MovedRound
  <2>5. Moved(Moved(r, 1), k - 1) = Moved(r, k)
    BY <1>1, <2>1, <2>2, <2>3, <2>4
  <2>6. QED
    BY <1>3, <1>5, <1>6, <2>1, <2>5
<1>8. new = Tail(old)
  BY <1>5, <1>6, <1>7, SeqEqual
<1>9. QED
  BY <1>4, <1>8

\* What is pending is what is unread from Base on.
LEMMA PendingIs ==
  TypeOK => /\ Base \in Index
            /\ Pending = Used(wr, Base)
            /\ PendingBytes = Unread(buf, wr, Base)
<1> SUFFICES ASSUME TypeOK
             PROVE  /\ Base \in Index
                    /\ Pending = Used(wr, Base)
                    /\ PendingBytes = Unread(buf, wr, Base)
  OBVIOUS
<1>1. 0 \in Index /\ wr \in Index /\ rd \in Index
  BY SizeAssumption DEF TypeOK, SizeAssumption, Index
<1>2. CASE pc = "flushRd"
  <2>1. Used(wr, 0) = wr
    BY <1>1, UsedIs, IndexIs
  <2>2. ASSUME NEW k \in 1 .. wr PROVE Moved(0, k - 1) = k - 1
    <3>1. k - 1 \in 0 .. Size /\ 0 + (k - 1) = k - 1 /\ k - 1 < Size
      BY <1>1, IndexIs
    <3>2. Moved(0, k - 1) = IF 0 + (k - 1) < Size THEN 0 + (k - 1)
                            ELSE 0 + (k - 1) - Size
      BY <1>1, <3>1, MovedRound
    <3>3. QED
      BY <3>1, <3>2
  <2>3. Unread(buf, wr, 0) = [k \in 1 .. wr |-> buf[k - 1]]
    BY <2>1, <2>2 DEF Unread
  <2>4. QED
    BY <1>1, <1>2, <2>1, <2>3 DEF Base, Pending, PendingBytes
<1>3. CASE pc # "flushRd"
  BY <1>1, <1>3 DEF Base, Pending, PendingBytes
<1>4. QED
  BY <1>2, <1>3

\* An interrupt appends what it stores, or overruns the reader.
LEMMA InterruptPuts ==
  ASSUME TypeOK, TypeOK', Overrun, NEW s \in Seq(Byte), Len(s) \in 0 .. 4,
         Stores(s), UNCHANGED <<rd, pc>>, overrun \in BOOLEAN
  PROVE  Fifo!Put(s) /\ (s = << >> => UNCHANGED <<Promised, overrun>>)
<1> DEFINE n == Len(s)
<1>1. /\ buf \in [Index -> Cell] /\ buf' \in [Index -> Cell]
      /\ wr \in Index /\ Base \in Index /\ Base' = Base
      /\ n \in Int /\ Size \in Int
  BY PendingIs, IndexIs DEF Base, TypeOK, Cell
<1>2. Written(wr') = n
  <2>1. Written(wr') = Used(Moved(wr, n), wr)
    BY DEF Written, Used, Stores
  <2>2. QED
    BY <1>1, <2>1, WrittenIs
<1>3. /\ overrun' = (overrun \/ Used(wr, Base) + n >= Size)
      /\ Used(wr, Base) \in Int /\ Used(wr, Base) < Size
  BY <1>1, <1>2, PendingIs, RingTypes, IndexIs DEF Overrun
<1>4. PendingBytes = Unread(buf, wr, Base)
  BY PendingIs
<1>5. PendingBytes' = Unread(buf', wr', Base')
  <2>1. (PendingBytes = Unread(buf, wr, Base))'
    BY PendingIs, PTL
  <2>2. QED
    BY <2>1
<1>6. Len(PendingBytes) = Used(wr, Base)
  BY <1>1, <1>4, UnreadIsSeq
<1>7. CASE overrun
  <2>1. overrun' = TRUE /\ Promised = << >> /\ Promised' = << >>
    BY <1>3, <1>7 DEF Promised
  <2>2. QED
    BY <1>7, <2>1 DEF Fifo!Put
<1>8. CASE ~overrun /\ Used(wr, Base) + n >= Size
  <2>1. overrun' = TRUE /\ Promised = PendingBytes /\ Promised' = << >>
    BY <1>3, <1>8 DEF Promised
  <2>2. Len(Promised) + Len(s) >= Size /\ s # << >>
    BY <1>1, <1>3, <1>6, <1>8, <2>1
  <2>3. QED
    BY <2>1, <2>2 DEF Fifo!Put
<1>9. CASE ~overrun /\ ~(Used(wr, Base) + n >= Size)
  <2>1. ~overrun' /\ Promised = PendingBytes /\ Promised' = PendingBytes'
    BY <1>3, <1>9 DEF Promised
  <2>2. Used(wr, Base) + n < Size
    BY <1>1, <1>3, <1>9
  <2>3. Promised' = Promised \o s
    <3> DEFINE g == buf'
    <3>1. g \in [Index -> Cell] /\ Added(buf, g, wr, s)
      BY <1>1 DEF Stores
    <3>2. Fits(wr, Base, s) /\ wr' = Moved(wr, n)
      BY <2>2 DEF Stores, Fits
    <3> HIDE DEF g
    <3>3. Unread(g, Moved(wr, n), Base) = Unread(buf, wr, Base) \o s
      BY <1>1, <3>1, <3>2, UnreadGrows
    <3>4. PendingBytes' = Unread(g, Moved(wr, n), Base)
      BY <1>1, <1>5, <3>2 DEF g
    <3>5. QED
      BY <1>4, <2>1, <3>3, <3>4
  <2>4. ~(Len(Promised) + Len(s) >= Size)
    BY <1>6, <1>9, <2>1
  <2>5. Promised \in Seq(Cell)
    BY <1>1, <1>4, <2>1, UnreadIsSeq
  <2>6. s = << >> => Promised' = Promised
    BY <2>3, <2>5
  <2>7. overrun' = overrun
    BY <1>3, <1>9
  <2>8. QED
    BY <1>9, <2>3, <2>4, <2>6, <2>7 DEF Fifo!Put
<1>10. QED
  BY <1>7, <1>8, <1>9

\* What an interrupt does is one step of the queue and its detector.
LEMMA InterruptFifo ==
  ASSUME TypeOK, TypeOK', HeldIsTrigger, Interrupt, Overrun, overrun \in BOOLEAN
  PROVE  [Fifo!FifoNext]_(Fifo!fifo)
<1> USE DEF Fifo!fifo
<1>1. UNCHANGED <<rd, opmode, status, pc, ret, ch, left>>
  BY InterruptStores
<1>2. PICK s \in Seq(Byte) : Len(s) \in 0 .. 4 /\ Stores(s) /\ StoresFor(s)
  BY InterruptStores
<1>3. Fifo!Put(s) /\ (s = << >> => UNCHANGED <<Promised, overrun>>)
  BY <1>1, <1>2, InterruptPuts
<1>4. UNCHANGED (~NotExamined)
  BY <1>1 DEF NotExamined
<1>5. CASE s = << >> /\ Keeps
  <2>1. UNCHANGED <<Promised, overrun>>
    BY <1>3, <1>5
  <2>2. CASE UNCHANGED HeldBytes
    BY <1>4, <2>1, <2>2
  <2>3. ASSUME ~NotExamined, Len(HeldBytes) < 3,
               NEW b \in Byte, HeldBytes' = Append(HeldBytes, b)
        PROVE  Fifo!FifoNext
    <3>1. Fifo!Hold(b)
      BY <1>4, <2>1, <2>3 DEF Fifo!Hold
    <3>2. QED
      BY <3>1 DEF Fifo!FifoNext
  <2>4. CASE Len(HeldBytes) = 3 /\ HeldBytes' = << >>
    <3>1. Fifo!Recognise
      BY <1>4, <2>1, <2>4 DEF Fifo!Recognise
    <3>2. QED
      BY <3>1 DEF Fifo!FifoNext
  <2>5. QED
    BY <1>5, <2>2, <2>3, <2>4 DEF Keeps
<1>6. CASE Passes(s)
  <2>1. PICK b \in Byte : s = <<b>>
    BY <1>6 DEF Passes
  <2>2. Fifo!Store(b)
    BY <1>3, <1>4, <1>6, <2>1 DEF Passes, Fifo!Store
  <2>3. QED
    BY <2>2 DEF Fifo!FifoNext
<1>7. CASE Releases(s)
  <2>1. HeldBytes # << >> /\ HeldBytes' = << >>
    BY <1>7 DEF Releases
  <2>2. CASE s = HeldBytes
    <3>1. HeldBytes \o << >> = HeldBytes
      BY HeldBytesAre
    <3>2. Fifo!Release(<< >>)
      BY <1>3, <1>4, <2>1, <2>2, <3>1 DEF Fifo!Release
    <3>3. QED
      BY <3>2 DEF Fifo!FifoNext
  <2>3. ASSUME ~NotExamined, NEW b \in Byte, s = HeldBytes \o <<b>>
        PROVE  Fifo!FifoNext
    <3>1. Fifo!Release(<<b>>)
      BY <1>3, <1>4, <2>1, <2>3 DEF Fifo!Release
    <3>2. QED
      BY <3>1 DEF Fifo!FifoNext
  <2>4. QED
    BY <1>7, <2>2, <2>3 DEF Releases
<1>8. QED
  BY <1>2, <1>5, <1>6, <1>7 DEF StoresFor

\* The main loop leaves the detector's bytes alone.
LEMMA MainKeepsHeld ==
  Main => UNCHANGED HeldBytes
<1> SUFFICES ASSUME Main PROVE UNCHANGED <<idx, chTmp>>
  BY DEF HeldBytes
<1>1. CASE SegBegin \/ SegEnd \/ GetBegin \/ CmdBegin \/ GetByte \/ GetMove
  BY <1>1 DEF SegBegin, SegEnd, GetBegin, CmdBegin, GetByte, GetMove, detector
<1>2. CASE Connect \/ Reopen \/ FlushCmd \/ FlushWr \/ FlushRd
  BY <1>2 DEF Connect, Reopen, FlushCmd, FlushWr, FlushRd, detector
<1>3. CASE \E bySeg \in BOOLEAN : SwitchBegin(bySeg)
  BY <1>3 DEF SwitchBegin, detector
<1>4. CASE SwitchStopTimer \/ SwitchClearTime \/ SwitchClearSw
  BY <1>4 DEF SwitchStopTimer, SwitchClearTime, SwitchClearSw
<1>5. QED
  BY <1>1, <1>2, <1>3, <1>4 DEF Main

\* The main loop takes the oldest byte, empties the queue, switches the mode or
\* leaves the queue alone.
LEMMA MainFifo ==
  ASSUME TypeOK, TypeOK', ReaderInv, HMain
  PROVE  [Fifo!FifoNext]_(Fifo!fifo)
<1> USE DEF ring, mode, detector, Fifo!fifo
<1>1. /\ overrun' = (IF FlushWr THEN FALSE ELSE overrun) /\ Main
      /\ UNCHANGED HeldBytes
  BY MainKeepsHeld DEF HMain
<1>2. PendingBytes = Unread(buf, wr, Base)
  BY PendingIs
<1>3. PendingBytes' = Unread(buf', wr', Base')
  <2>1. (PendingBytes = Unread(buf, wr, Base))'
    BY PendingIs, PTL
  <2>2. QED
    BY <2>1
<1>4. (~NotExamined)' \in BOOLEAN /\ (~NotExamined) \in BOOLEAN
  BY DEF NotExamined
<1>5. ASSUME ~FlushWr, UNCHANGED <<buf, wr, Base>> PROVE Fifo!FifoNext
  <2>1. UNCHANGED <<Promised, overrun>>
    BY <1>1, <1>2, <1>3, <1>5 DEF Promised
  <2>2. Fifo!Switch
    BY <1>1, <1>4, <2>1 DEF Fifo!Switch
  <2>3. QED
    BY <2>2 DEF Fifo!FifoNext
<1>6. ASSUME UNCHANGED ring, pc \notin {"flush", "flushRd"}, pc' # "flushRd"
      PROVE  Fifo!FifoNext
  BY <1>5, <1>6 DEF Base, FlushWr
<1>7. CASE GetMove
  <2>1. /\ pc = "got" /\ pc' \in {"get", "loop"}
        /\ rd' = Moved(rd, 1) /\ UNCHANGED <<buf, wr, opmode>>
    BY <1>7 DEF GetMove
  <2>2. overrun' = overrun /\ Base = rd /\ Base' = Moved(rd, 1)
        /\ UNCHANGED (~NotExamined)
    BY <1>1, <2>1 DEF FlushWr, Base, NotExamined
  <2>3. CASE overrun
    BY <1>1, <2>2, <2>3 DEF Promised
  <2>4. CASE ~overrun
    <3>1. rd # wr
      BY <2>1, <2>4 DEF ReaderInv, ByteTakenIsOldest, RingEmpty
    <3>2. buf \in [Index -> Cell] /\ wr \in Index /\ rd \in Index
      BY DEF TypeOK, Cell
    <3>3. /\ Unread(buf, wr, rd) # << >>
          /\ Unread(buf, wr, Moved(rd, 1)) = Tail(Unread(buf, wr, rd))
      BY <3>1, <3>2, UnreadShrinks
    <3>4. Promised # << >> /\ Promised' = Tail(Promised)
      BY <1>2, <1>3, <2>1, <2>2, <2>4, <3>3 DEF Promised
    <3>5. Fifo!Read
      BY <1>1, <2>2, <3>4 DEF Fifo!Read
    <3>6. QED
      BY <3>5 DEF Fifo!FifoNext
  <2>5. QED
    BY <2>3, <2>4
<1>8. CASE FlushWr
  <2>1. wr' = 0 /\ pc' = "flushRd" /\ overrun' = FALSE /\ opmode' = opmode
    BY <1>1, <1>8 DEF FlushWr
  <2>2. buf' \in [Index -> Cell] /\ wr' \in Index /\ Base' = 0
    BY <2>1 DEF TypeOK, Cell, Base
  <2>3. Promised' = << >>
    BY <1>3, <2>1, <2>2, UnreadNone DEF Promised
  <2>4. Fifo!Empty
    BY <1>1, <2>1, <2>3 DEF Fifo!Empty, NotExamined
  <2>5. QED
    BY <2>4 DEF Fifo!FifoNext
<1>9. CASE FlushRd
  <2>1. pc = "flushRd" /\ pc' = ret /\ rd' = 0 /\ UNCHANGED <<buf, wr>>
    BY <1>9 DEF FlushRd
  <2>2. pc' # "flushRd"
    BY <2>1 DEF TypeOK
  <2>3. ~FlushWr /\ Base' = Base
    BY <2>1, <2>2 DEF FlushWr, Base
  <2>4. QED
    BY <1>5, <2>1, <2>3
<1>10. CASE SegBegin \/ SegEnd \/ GetBegin \/ CmdBegin \/ GetByte
  BY <1>6, <1>10 DEF SegBegin, SegEnd, GetBegin, CmdBegin, GetByte
<1>11. CASE Connect \/ Reopen \/ FlushCmd \/ \E bySeg \in BOOLEAN : SwitchBegin(bySeg)
  BY <1>6, <1>11 DEF Connect, Reopen, FlushCmd, SwitchBegin
<1>12. CASE SwitchStopTimer \/ SwitchClearTime \/ SwitchClearSw
  BY <1>6, <1>12 DEF SwitchStopTimer, SwitchClearTime, SwitchClearSw
<1>13. QED
  BY <1>1, <1>7, <1>8, <1>9, <1>10, <1>11, <1>12 DEF Main

\* Every step of the program is one of the queue or leaves it alone.
LEMMA FifoStep ==
  TypeOK /\ TypeOK' /\ HeldIsTrigger /\ ReaderInv /\ [HNext]_vars
    => [Fifo!FifoNext]_(Fifo!fifo)
<1> SUFFICES ASSUME TypeOK, TypeOK', HeldIsTrigger, ReaderInv, [HNext]_vars
             PROVE  [Fifo!FifoNext]_(Fifo!fifo)
  OBVIOUS
<1>1. CASE (\E b \in Byte : HRxByte(b)) \/ HTick
  <2>1. Interrupt /\ Overrun
    BY <1>1 DEF HRxByte, HTick, Interrupt
  <2>2. QED
    BY <2>1, InterruptFifo DEF ReaderInv
<1>2. CASE HMain
  BY <1>2, MainFifo
<1>3. CASE UNCHANGED vars
  BY <1>3 DEF vars, Promised, PendingBytes, Unread, HeldBytes, NotExamined,
     Fifo!fifo
<1>4. QED
  BY <1>1, <1>2, <1>3 DEF HNext

\* The ring of any size, with its two indices, the two stores of a flush and the
\* detector of the trigger code before it, is the queue of ByteFifo at every
\* interleaving of the main loop with the interrupts.  This is about the bytes
\* that are taken in: one that HAL_UART_RxCpltCallback refuses (ring full, state,
\* XON/XOFF) or the detector swallows leaves the queue as it is.
THEOREM RingRefinesFifo == HSpec => RingIsFifo
<1>1. HInit => Fifo!FifoInit
  <2>1. SUFFICES ASSUME HInit
                 PROVE  Promised = << >> /\ HeldBytes = << >> /\ overrun = FALSE
    BY DEF Fifo!FifoInit, NotExamined
  <2>2. TypeOK /\ HeldIsTrigger /\ pc = "loop" /\ wr = 0 /\ rd = 0 /\ idx = 0
        /\ overrun = FALSE
    <3>1. TypeOK /\ HeldIsTrigger
      BY <2>1, ReaderInit
    <3>2. pc = "loop" /\ wr = 0 /\ rd = 0 /\ idx = 0 /\ overrun = FALSE
      BY <2>1 DEF HInit, Init
    <3>3. QED
      BY <3>1, <3>2
  <2>3. PendingBytes = Unread(buf, 0, 0) /\ 0 \in Index /\ buf \in [Index -> Cell]
    BY <2>2 DEF PendingBytes, TypeOK, Cell
  <2>4. QED
    BY <2>2, <2>3, UnreadNone, HeldBytesAre DEF Promised
<1>2. HSpec => Fifo!FifoInit /\ [][Fifo!FifoNext]_(Fifo!fifo)
  BY <1>1, FifoStep, ReaderInit, ReaderInductive, PTL DEF HSpec
<1>3. QED
  BY <1>2 DEF RingIsFifo, Fifo!FifoSpec

-----------------------------------------------------------------------------
(* Who deserves AT mode                                                    *)

\* With the default gap time: while the detector's timer runs, what it holds
\* back was heard in one piece and its clock is not ahead of the silence; in AT
\* mode the timer does not survive init_trigger_modeswitch.
QuietInv ==
  /\ quiet \in 0 .. DefaultGap
  /\ gap = DefaultGap
  /\ msTime <= gap
  /\ msTimer => SerialCommand /\ idx > 0 /\ msTime < gap
  /\ msTimer /\ opmode = "at"
       => (pc \in {"flush", "flushRd"} /\ ret = "stopTimer") \/ pc = "stopTimer"
  /\ msTimer /\ opmode = "gw" => idx \in heard
  /\ SerialCommand /\ opmode = "gw" /\ (msTimer \/ ~Switching)
       => msTime <= quiet

\* A byte lengthens what is held back only when it was heard as the next one of
\* the code, and any byte that is examined sets the clock back.
LEMMA RxQuiet ==
  ASSUME TypeOK, QuietInv, NEW b \in Byte, HRxByte(b)
  PROVE  QuietInv'
<1> USE RxAssumption DEF RxAssumption, TypeOK, QuietInv, Switching, main
<1>1. quiet' = 0 /\ heard' = Heard(b) /\ RxByte(b)
  BY DEF HRxByte
<1>2. gap' = gap /\ UNCHANGED <<opmode, pc, ret>>
  BY <1>1 DEF RxByte, RxNotExamined, RxHold, RxData, RxMismatch, RxSwallow
<1>3. CASE RxNotExamined(b)
  <2>1. UNCHANGED <<idx, msTimer, msTime>> /\ NotExamined
    BY <1>3 DEF RxNotExamined
  <2>2. opmode = "gw" => ~SerialCommand /\ ~msTimer
    BY <2>1 DEF NotExamined
  <2>3. QED
    BY <1>1, <1>2, <2>1, <2>2
<1>4. CASE RxHold(b)
  <2>1. /\ opmode = "gw" /\ SerialCommand
        /\ idx \in 0 .. 2 /\ b = Trigger[idx] /\ InTime
        /\ idx' = idx + 1 /\ msTime' = 0
        /\ msTimer' = IF idx = 0 THEN TRUE ELSE msTimer
    BY <1>4 DEF RxHold, NotExamined, Matches
  <2>2. msTimer' => idx' \in heard'
    <3>1. CASE idx = 0
      <4>1. quiet >= gap \/ Switching
        BY <2>1, <3>1 DEF InTime
      <4>2. 1 \in Heard(b)
        BY <2>1, <3>1, <4>1 DEF Heard
      <4>3. QED
        BY <1>1, <2>1, <3>1, <4>2
    <3>2. CASE idx # 0 /\ msTimer
      <4>1. idx \in {m \in heard : m < 3 /\ b = Trigger[m]}
        BY <2>1, <3>2
      <4>2. idx + 1 \in Heard(b)
        BY <4>1 DEF Heard
      <4>3. QED
        BY <1>1, <2>1, <4>2
    <3>3. QED
      BY <2>1, <3>1, <3>2
  <2>3. idx' > 0 /\ 0 < gap
    BY <2>1
  <2>4. QED
    BY <1>1, <1>2, <2>1, <2>2, <2>3
<1>5. CASE RxData(b)
  <2>1. idx = 0 /\ msTime' = 0 /\ UNCHANGED <<idx, msTimer>>
    BY <1>5 DEF RxData
  <2>2. QED
    BY <1>1, <1>2, <2>1
<1>6. CASE RxMismatch(b)
  <2>1. msTime' = 0 /\ msTimer' = FALSE
    BY <1>6 DEF RxMismatch
  <2>2. QED
    BY <1>1, <1>2, <2>1
<1>7. CASE RxSwallow(b)
  <2>1. idx = 3 /\ ~(msTime < gap) /\ msTime' = 0 /\ UNCHANGED <<idx, msTimer>>
    BY <1>7 DEF RxSwallow, Mismatch
  <2>2. ~msTimer'
    BY <2>1
  <2>3. QED
    BY <1>1, <1>2, <2>1, <2>2
<1>8. QED
  BY <1>1, <1>3, <1>4, <1>5, <1>6, <1>7 DEF RxByte

\* The clock of the detector and the silence advance together.
LEMMA TickQuiet ==
  ASSUME TypeOK, QuietInv, PackingTime = 0, HTick
  PROVE  QuietInv'
<1> USE RxAssumption DEF RxAssumption, TypeOK, QuietInv, Switching, main
<1>1. QuietMax = DefaultGap
  BY DEF QuietMax
<1>2. /\ quiet' = IF quiet < DefaultGap THEN quiet + 1 ELSE quiet
      /\ heard' = heard /\ seg_timer_msec
  BY <1>1 DEF HTick
<1>3. quiet' \in 0 .. DefaultGap /\ quiet <= quiet'
  BY <1>2
<1>4. NextTime <= gap /\ (msTime <= quiet => NextTime <= quiet')
  BY <1>2 DEF NextTime
<1>5. gap' = gap /\ msTime' = NextTime /\ UNCHANGED <<opmode, pc, ret>>
  BY <1>2 DEF seg_timer_msec, TickCount, TickTriggered, TickRestore
<1>6. CASE TickCount
  <2>1. UNCHANGED <<idx, msTimer>> /\ (msTimer => NextTime # gap)
    BY <1>6 DEF TickCount, GapOver
  <2>2. msTimer => NextTime < gap
    BY <1>4, <2>1 DEF NextTime
  <2>3. QED
    BY <1>2, <1>3, <1>4, <1>5, <2>1, <2>2
<1>7. CASE TickTriggered \/ TickRestore
  <2>1. msTimer' = FALSE
    BY <1>7 DEF TickTriggered, TickRestore
  <2>2. QED
    BY <1>3, <1>4, <1>5, <2>1
<1>8. QED
  BY <1>2, <1>6, <1>7 DEF seg_timer_msec

\* Entering AT mode stops the timer before anything else can happen in it, and
\* leaving it clears the clock before bytes are compared with it.
LEMMA MainQuiet ==
  ASSUME TypeOK, QuietInv, PackingTime = 0, HMain
  PROVE  QuietInv'
<1> USE DEF TypeOK, QuietInv, Switching, ring, mode, detector
<1>1. UNCHANGED <<heard, quiet>> /\ Main
  BY DEF HMain
<1>2. CASE SegBegin \/ SegEnd \/ GetBegin \/ CmdBegin \/ GetByte \/ GetMove
  BY <1>1, <1>2 DEF SegBegin, SegEnd, GetBegin, CmdBegin, GetByte, GetMove
<1>3. CASE Connect \/ FlushCmd
  BY <1>1, <1>3 DEF Connect, FlushCmd
<1>4. CASE Reopen
  <2>1. gap' = gap
    BY <1>4 DEF Reopen
  <2>2. QED
    BY <1>1, <1>4, <2>1 DEF Reopen
<1>5. ASSUME NEW bySeg \in BOOLEAN, SwitchBegin(bySeg) PROVE QuietInv'
  <2>1. /\ pc = "loop" /\ pc' = "flush" /\ ret' = "stopTimer"
        /\ opmode' = IF opmode = "gw" THEN "at" ELSE "gw"
        /\ UNCHANGED <<idx, msTimer, msTime, gap>>
    BY <1>5 DEF SwitchBegin
  <2>2. opmode' = "gw" => ~msTimer'
    BY <2>1
  <2>3. QED
    BY <1>1, <2>1, <2>2
<1>6. CASE FlushWr \/ FlushRd
  BY <1>1, <1>6 DEF FlushWr, FlushRd
<1>7. CASE SwitchStopTimer
  BY <1>1, <1>7 DEF SwitchStopTimer
<1>8. CASE SwitchClearTime
  <2>1. msTime' = 0 /\ UNCHANGED <<opmode, idx, msTimer, gap>> /\ pc = "clearTime"
    BY <1>8 DEF SwitchClearTime
  <2>2. ~(opmode = "at" /\ msTimer) /\ gap \in Nat \ {0}
    BY <2>1
  <2>3. QED
    BY <1>1, <2>1, <2>2
<1>9. CASE SwitchClearSw
  BY <1>1, <1>9 DEF SwitchClearSw
<1>10. QED
  BY <1>1, <1>2, <1>3, <1>4, <1>5, <1>6, <1>7, <1>8, <1>9 DEF Main

\* The inductive step, and what it says of the step that raises the request.
LEMMA QuietInductive ==
  PackingTime = 0 /\ TypeOK /\ QuietInv /\ [HNext]_vars => QuietInv'
<1>1. QuietInv /\ UNCHANGED vars => QuietInv'
  BY DEF QuietInv, Switching, vars
<1>2. QED
  BY <1>1, RxQuiet, TickQuiet, MainQuiet DEF HNext

LEMMA DeservedStep ==
  TypeOK /\ (PackingTime = 0 => QuietInv) /\ [HNext]_vars
    => [sw' /\ ~sw /\ opmode = "gw" /\ PackingTime = 0 =>
          3 \in heard /\ quiet' >= gap]_vars
<1> SUFFICES ASSUME TypeOK, QuietInv, HNext, sw', ~sw, opmode = "gw",
                    PackingTime = 0
             PROVE  3 \in heard /\ quiet' >= gap
  OBVIOUS
<1>1. ASSUME NEW b \in Byte, HRxByte(b) PROVE FALSE
  BY <1>1 DEF HRxByte, RxByte, RxNotExamined, RxHold, RxData, RxMismatch,
     RxSwallow
<1>2. CASE HMain
  BY <1>2 DEF HMain, Main, SegBegin, SegEnd, GetBegin, CmdBegin, GetByte, GetMove,
     Connect, Reopen, SwitchBegin, FlushCmd, FlushWr, FlushRd,
     SwitchStopTimer, SwitchClearTime, SwitchClearSw, detector
<1>3. CASE HTick
  <2>1. TickTriggered
    BY <1>3 DEF HTick, seg_timer_msec, TickCount, TickRestore
  <2>2. msTimer /\ idx = 3 /\ NextTime = gap
    BY <2>1 DEF TickTriggered, GapOver
  <2>3. 3 \in heard /\ SerialCommand /\ msTime <= quiet
        /\ quiet \in 0 .. DefaultGap /\ gap = DefaultGap
    BY <2>2 DEF QuietInv
  <2>4. quiet' = IF quiet < DefaultGap THEN quiet + 1 ELSE quiet
    BY <1>3, RxAssumption DEF HTick, QuietMax, RxAssumption
  <2>5. QED
    BY <2>2, <2>3, <2>4, RxAssumption DEF NextTime, TypeOK, RxAssumption
<1>4. QED
  BY <1>1, <1>2, <1>3 DEF HNext

LEMMA QuietAlways == PackingTime = 0 => (HSpec => [](TypeOK /\ QuietInv))
<1> SUFFICES ASSUME PackingTime = 0 PROVE HSpec => [](TypeOK /\ QuietInv)
  OBVIOUS
<1>1. HInit => TypeOK /\ LeftInv /\ QuietInv
  <2> SUFFICES ASSUME HInit PROVE QuietInv
    BY ReaderInit
  <2>1. quiet = 0 /\ gap = DefaultGap /\ msTime = 0 /\ msTimer = FALSE
    BY DEF HInit, Init
  <2>2. QED
    BY <2>1, RxAssumption DEF QuietInv, RxAssumption
<1>2. TypeOK /\ LeftInv /\ QuietInv /\ [HNext]_vars => TypeOK' /\ LeftInv' /\ QuietInv'
  BY HistoryStep, TypeInductive, QuietInductive
<1>3. QED
  BY <1>1, <1>2, PTL DEF HSpec


\* For every trigger code and default gap time: AT mode is requested only after
\* the whole code, heard in one piece after a pause, and a pause behind it.
THEOREM RequestDeserved == HSpec => RequestIsDeserved
<1>1. CASE PackingTime = 0
  <2>1. TypeOK /\ QuietInv /\ [HNext]_vars
          => [sw' /\ ~sw /\ opmode = "gw" /\ PackingTime = 0 =>
                3 \in heard /\ quiet' >= gap]_vars
    BY DeservedStep
  <2>2. QED
    BY <1>1, <2>1, QuietAlways, PTL DEF HSpec, RequestIsDeserved
<1>2. CASE PackingTime # 0
  <2>1. [HNext]_vars
          => [sw' /\ ~sw /\ opmode = "gw" /\ PackingTime = 0 =>
                3 \in heard /\ quiet' >= gap]_vars
    BY <1>2
  <2>2. QED
    BY <2>1, PTL DEF HSpec, RequestIsDeserved
<1>3. QED
  BY <1>1, <1>2

-----------------------------------------------------------------------------
(* What the detector keeps from the reader                                 *)

\* With the default gap time, and unless a mode switch stopped the timer under
\* bytes held back, the detector answers "trigger code" to no byte that is not
\* in the code: the exception is the byte that comes when a complete code was
\* left behind without its timer.
HeldBackInTime ==
  [][\A b \in Byte :
       HRxByte(b) /\ (RxHold(b) \/ RxSwallow(b))
         /\ PackingTime = 0 /\ (msTimer \/ idx = 0) =>
       \E k \in 0 .. 2 : b = Trigger[k]]_vars

THEOREM HeldBackCorrect == HSpec => HeldBackInTime
<1>1. ASSUME NEW b \in Byte, TypeOK, RxHold(b) PROVE \E k \in 0 .. 2 : b = Trigger[k]
  <2>1. idx \in 0 .. 3 /\ idx < 3 /\ b = Trigger[idx]
    BY <1>1 DEF RxHold, Matches, TypeOK
  <2>2. idx \in 0 .. 2
    BY <2>1
  <2>3. QED
    BY <2>1, <2>2
<1>2. ASSUME NEW b \in Byte, QuietInv, RxSwallow(b), msTimer \/ idx = 0 PROVE FALSE
  <2>1. idx = 3 /\ ~(msTime < gap)
    BY <1>2 DEF RxSwallow, Mismatch
  <2>2. msTime < gap
    BY <1>2, <2>1 DEF QuietInv
  <2>3. QED
    BY <2>1, <2>2
<1>3. CASE PackingTime = 0
  <2>1. TypeOK /\ QuietInv /\ [HNext]_vars =>
          [\A b \in Byte :
             HRxByte(b) /\ (RxHold(b) \/ RxSwallow(b))
               /\ PackingTime = 0 /\ (msTimer \/ idx = 0) =>
             \E k \in 0 .. 2 : b = Trigger[k]]_vars
    BY <1>1, <1>2
  <2>2. QED
    BY <1>3, <2>1, QuietAlways, PTL DEF HSpec, HeldBackInTime
<1>4. CASE PackingTime # 0
  <2>1. [HNext]_vars =>
          [\A b \in Byte :
             HRxByte(b) /\ (RxHold(b) \/ RxSwallow(b))
               /\ PackingTime = 0 /\ (msTimer \/ idx = 0) =>
             \E k \in 0 .. 2 : b = Trigger[k]]_vars
    BY <1>4
  <2>2. QED
    BY <2>1, PTL DEF HSpec, HeldBackInTime
<1>5. QED
  BY <1>3, <1>4
=============================================================================
