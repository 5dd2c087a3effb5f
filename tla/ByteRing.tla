------------------------------ MODULE ByteRing ------------------------------
(***************************************************************************)
(* The ring-buffer arithmetic of uartHandler.h, BUFFER_DEFINITION and the  *)
(* macros below it: Size cells, a write index wr that only the producer    *)
(* advances and a read index rd that only the consumer advances.  One cell *)
(* stays free, so that rd = wr means empty.                                *)
(***************************************************************************)
EXTENDS Integers, Sequences

CONSTANT Size    \* data0_rx_sz, SEG_DATA_BUF_SIZE (4096) in the product

\* One interrupt stores at most four bytes, a trigger code put back and a byte
\* after it: they must not reach round the ring onto themselves.
ASSUME SizeAssumption == Size \in Nat /\ Size > 4

Index == 0 .. Size - 1

Used(wr, rd) == (Size + wr - rd) % Size
Free(wr, rd) == (Size + rd - wr - 1) % Size
RingEmpty(wr, rd) == rd = wr
RingFullNever(wr, rd) == FALSE
RingFull(wr, rd) == Free(wr, rd) = 0
MovedPast(i, n) == i + n
Moved(i, n) == (i + n) % Size

\* The cells after the n bytes s[0] .. s[n-1] were stored one after the other
\* from index wr on, without looking at the read index.
Stored(buf, wr, s, n) ==
  [i \in Index |-> IF \E k \in 0 .. n - 1 : i = Moved(wr, k)
                   THEN s[CHOOSE k \in 0 .. n - 1 : i = Moved(wr, k)]
                   ELSE buf[i]]

\* What the consumer still has to read, oldest byte first.
Unread(buf, wr, rd) == [k \in 1 .. Used(wr, rd) |-> buf[Moved(rd, k - 1)]]
=============================================================================
