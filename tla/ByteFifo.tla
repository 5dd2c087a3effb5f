------------------------------ MODULE ByteFifo ------------------------------
(***************************************************************************)
(* What the serial receive path promises its reader: a queue that never    *)
(* holds Size bytes and is emptied as a whole, with the detector of the    *)
(* trigger code before it.  The detector holds back up to three bytes and  *)
(* either takes them as the code or puts them in front of the next byte:   *)
(* as long as it looks at the line, the bytes taken in come out in the     *)
(* order they came in and none twice.  Which bytes are taken in is not     *)
(* promised: one that the program refuses or swallows is no step at all.   *)
(* Once more was put in than fits, nothing is promised before the queue    *)
(* was emptied: it is shown empty.                                         *)
(***************************************************************************)
EXTENDS Naturals, Sequences

CONSTANTS Byte, Size

VARIABLES
  queue,
  held,      \* the bytes held back
  lost,      \* too much was put in since the queue was last emptied
  looking    \* the detector looks at the line

fifo == <<queue, held, lost, looking>>

FifoInit ==
  /\ queue = << >> /\ held = << >>
  /\ lost = FALSE
  /\ looking \in BOOLEAN

Put(s) ==
  IF lost \/ Len(queue) + Len(s) >= Size
  THEN queue' = << >> /\ lost' = TRUE
  ELSE queue' = queue \o s /\ lost' = lost

\* No byte overtakes those held back while the detector looks.
Store(b) ==
  /\ looking => held = << >>
  /\ Put(<<b>>)
  /\ UNCHANGED <<held, looking>>

Hold(b) ==
  /\ looking /\ Len(held) < 3
  /\ held' = Append(held, b)
  /\ UNCHANGED <<queue, lost, looking>>

Recognise ==
  /\ Len(held) = 3
  /\ held' = << >>
  /\ UNCHANGED <<queue, lost, looking>>

\* after is the byte that showed that the bytes held back are data, if any
Release(after) ==
  /\ held # << >>
  /\ after # << >> => looking
  /\ Put(held \o after)
  /\ held' = << >>
  /\ UNCHANGED looking

Read ==
  /\ queue # << >>
  /\ queue' = Tail(queue)
  /\ UNCHANGED <<held, lost, looking>>

Empty ==
  /\ queue' = << >> /\ lost' = FALSE
  /\ UNCHANGED <<held, looking>>

Switch ==
  /\ looking' \in BOOLEAN
  /\ UNCHANGED <<queue, held, lost>>

FifoNext ==
  \/ \E b \in Byte : Store(b) \/ Hold(b) \/ Release(<<b>>)
  \/ Release(<< >>)
  \/ Recognise \/ Read \/ Empty \/ Switch

FifoSpec == FifoInit /\ [][FifoNext]_fifo
=============================================================================
