---------------------------- MODULE SerialToNet ----------------------------
(***************************************************************************)
(* From the serial line to the network: uart_to_ether and get_serial_data, *)
(* the data-packing options, the packing timer, and the socket they send   *)
(* to.  The ring buffer is the queue SerialRx shows it to be; bytes come   *)
(* and the timer ticks between any two steps of the main loop.             *)
(*                                                                         *)
(* One TCP connection after another, in gateway mode: the mode switch and  *)
(* the trigger code are in SerialRx, the sockets in SegTcp.                *)
(***************************************************************************)
EXTENDS Integers, Sequences

CONSTANTS
  Byte,
  RingSize,  \* SEG_DATA_BUF_SIZE: the ring holds one byte less
  BufSize,   \* DATA_BUF_SIZE: size of g_send_buf
  Option,    \* the packing options configured, records [time, size, delim]
  NoDelim    \* packing_delimiter = 0x00: no delimiter

\* PS takes any size up to the buffer's, and -1 as 65535: a size need not fit
ASSUME ToNetAssumption ==
  /\ RingSize \in Nat \ {0} /\ BufSize \in Nat /\ BufSize > 1
  /\ NoDelim \notin Byte
  /\ Option \subseteq [time : Nat, size : Nat, delim : Byte \cup {NoDelim}]

VARIABLES
  opt,      \* serial_data_packing, fixed at start
  queue,    \* data0_rx: the bytes still to be read
  packet,   \* g_send_buf up to u2e_size
  timer, time, elapsed,  \* enable_serial_input_timer, serial_input_time,
                         \* flag_serial_input_time_elapse
  status,   \* working_state: "open" or "connect"
  link,     \* the socket can carry data
  pc,       \* where uart_to_ether stands
  want,     \* bytes the loop of get_serial_data still takes
  due,      \* history: accepted in this connection and not yet sent, in order
  spilled,  \* history: this pass put a byte behind the packet, not counted
  beyond,   \* history: a byte was put behind the end of g_send_buf
  refused   \* history: send did not take the packet as it was at least once

line == <<queue, timer, time, elapsed>>
seg == <<packet, status, pc, want>>
notes == <<spilled, beyond, refused>>
vars == <<opt, queue, packet, timer, time, elapsed, status, link, pc, want,
          due, spilled, beyond, refused>>

NoPacking == [time |-> 0, size |-> 0, delim |-> NoDelim]

Init ==
  /\ opt \in Option
  /\ queue = << >> /\ packet = << >>
  /\ timer = FALSE /\ time = 0 /\ elapsed = FALSE
  /\ status = "open" /\ link = FALSE
  /\ pc = "poll" /\ want = 0
  /\ due = << >>
  /\ spilled = FALSE /\ beyond = FALSE /\ refused = FALSE

-----------------------------------------------------------------------------
(* The interrupts                                                          *)

\* HAL_UART_RxCpltCallback for a data byte: stored if there is room and the
\* state permits it; init_time_delimiter_timer in any case
RxByte(b) ==
  /\ IF Len(queue) < RingSize - 1 /\ status = "connect"
     THEN queue' = Append(queue, b) /\ due' = Append(due, b)
     ELSE UNCHANGED <<queue, due>>
  /\ timer' = (timer \/ opt.time # 0)
  /\ time' = IF opt.time # 0 THEN 0 ELSE time
  /\ UNCHANGED <<opt, elapsed, link, notes>>
  /\ UNCHANGED seg

\* seg_timer_msec, the packing timer: one tick more than the packing time
Tick ==
  /\ timer
  /\ IF time < opt.time
     THEN time' = time + 1 /\ UNCHANGED <<timer, elapsed>>
     ELSE time' = 0 /\ timer' = FALSE /\ elapsed' = TRUE
  /\ UNCHANGED <<opt, queue, link, due, notes>>
  /\ UNCHANGED seg

-----------------------------------------------------------------------------
(* The connection                                                          *)

\* the socket is closed by the peer, by a timeout or by the main loop
LinkLost ==
  /\ link
  /\ link' = FALSE
  /\ UNCHANGED <<opt, line, due, notes>>
  /\ UNCHANGED seg

\* SOCK_CLOSED: set_device_status, reset_SEG_timeflags, u2e_size = 0, socket()
Reopen ==
  /\ pc = "poll" /\ ~link /\ status = "connect"
  /\ status' = "open"
  /\ timer' = FALSE /\ time' = 0 /\ elapsed' = FALSE
  /\ packet' = << >> /\ refused' = FALSE
  /\ due' = queue
  /\ UNCHANGED <<opt, queue, link, pc, want, spilled, beyond>>

\* SOCK_ESTABLISHED with Sn_IR_CON: set_device_status, uart_rx_flush
Connect ==
  /\ pc = "poll" /\ ~link /\ status = "open"
  /\ link' = TRUE
  /\ status' = "connect"
  /\ queue' = << >> /\ due' = << >>
  /\ UNCHANGED <<opt, packet, timer, time, elapsed, pc, want, notes>>

-----------------------------------------------------------------------------
(* The main loop                                                           *)

u2e_size == Len(packet)
Room == BufSize - u2e_size

WorkInRing == queue # << >>
Work == queue # << >> \/ packet # << >>

CountedAll == Len(queue)
CountedRoom == Room
CountedOn == IF Len(queue) >= Room THEN Room ELSE Len(queue)

\* get_serial_data: the length is settled
GetBegin ==
  /\ pc = "poll" /\ status = "connect" /\ link
  /\ Work
  /\ IF opt.delim # NoDelim /\ Len(queue) = 1 /\ Room <= 1
     THEN pc' = "peek" /\ UNCHANGED want
     ELSE /\ pc' = "read"
          /\ want' = CountedOn
  /\ spilled' = FALSE
  /\ UNCHANGED <<opt, line, packet, status, link, due, beyond, refused>>

\* with a delimiter set and one byte to read the last cell is looked at first:
\* the byte goes behind the packet and is never counted
Peek ==
  /\ pc = "peek"
  /\ queue' = Tail(queue)
  /\ spilled' = TRUE
  /\ beyond' = (beyond \/ Room = 0)
  /\ IF Head(queue) = opt.delim
     THEN pc' = "send" /\ UNCHANGED want
     ELSE pc' = "read" /\ want' = Room
  /\ due' = SubSeq(due, 1, u2e_size) \o SubSeq(due, u2e_size + 2, Len(due))
  /\ UNCHANGED <<opt, timer, time, elapsed, packet, status, link, refused>>

EndsBySize(b) == u2e_size + 1 = opt.size
Ends(b) == b = opt.delim \/ u2e_size + 1 = opt.size

\* one round of the loop; uart_getc waits while the ring is empty
ReadByte ==
  /\ pc = "read" /\ want > 0
  /\ queue # << >>
  /\ packet' = Append(packet, Head(queue))
  /\ queue' = Tail(queue)
  /\ want' = want - 1
  /\ pc' = IF Ends(Head(queue)) THEN "send" ELSE "read"
  /\ UNCHANGED <<opt, timer, time, elapsed, status, link, due, notes>>

\* the loop is over: without packing options all there is goes out; else only
\* when the packing time has elapsed
ReadDone ==
  /\ pc = "read" /\ want = 0
  /\ pc' = IF packet = << >> THEN "poll"
           ELSE IF opt = NoPacking THEN "send"
           ELSE IF opt.time = 0 \/ ~elapsed THEN "poll"
           ELSE IF queue = << >> THEN "clear" ELSE "send"
  /\ UNCHANGED <<opt, line, packet, status, link, want, due, notes>>

ClearElapsed ==
  /\ pc = "clear"
  /\ elapsed' = FALSE
  /\ pc' = "send"
  /\ UNCHANGED <<opt, queue, timer, time, packet, status, link, want, due, notes>>

\* send() takes the whole packet: it is never longer than the socket's buffer
SendOk ==
  /\ pc = "send" /\ link
  /\ packet' = << >> /\ refused' = FALSE
  /\ due' = SubSeq(due, u2e_size + 1, Len(due))
  /\ pc' = "poll"
  /\ UNCHANGED <<opt, line, status, link, want, spilled, beyond>>

AfterRefusalDropped == packet' = << >>
AfterRefusal == UNCHANGED packet

\* send() answers SOCK_BUSY or an error, the password is still missing, or the
\* socket is gone
SendNot ==
  /\ pc = "send"
  /\ refused' = TRUE
  /\ AfterRefusal
  /\ pc' = "poll"
  /\ UNCHANGED <<opt, line, status, link, want, due, spilled, beyond>>

Main ==
  \/ Reopen \/ Connect
  \/ GetBegin \/ Peek \/ ReadByte \/ ReadDone \/ ClearElapsed
  \/ SendOk \/ SendNot

Next == (\E b \in Byte : RxByte(b)) \/ Tick \/ LinkLost \/ Main

Spec == Init /\ [][Next]_vars

\* The main loop runs, and a socket that stays up takes a packet now and then:
\* its transmit buffer drains, or TCP times out and the socket is closed.
FairSpec ==
  /\ Spec
  /\ WF_vars(GetBegin \/ Peek \/ ReadByte \/ ReadDone \/ ClearElapsed)
  /\ WF_vars(SendOk \/ SendNot)
  /\ SF_vars(SendOk)

-----------------------------------------------------------------------------
(* Every variable holds a value of its C type and of its role; g_send_buf  *)
(* never counts more than its size.                                        *)
TypeOK ==
  /\ opt \in Option
  /\ queue \in Seq(Byte) /\ Len(queue) < RingSize
  /\ packet \in Seq(Byte) /\ Len(packet) <= BufSize
  /\ timer \in BOOLEAN /\ elapsed \in BOOLEAN
  /\ time \in 0 .. opt.time
  /\ status \in {"open", "connect"}
  /\ link \in BOOLEAN
  /\ pc \in {"poll", "peek", "read", "clear", "send"}
  /\ want \in 0 .. BufSize - Len(packet)
  /\ due \in Seq(Byte)
  /\ {spilled, beyond, refused} \subseteq BOOLEAN

\* What was accepted from the line in this connection and not yet sent is the
\* packet followed by the ring: nothing is lost, repeated or out of order
\* across refused sends, packet boundaries and bytes coming in meanwhile.  (The
\* byte that Peek drops is taken as dropped.)
StreamKept == due = packet \o queue

\* The bytes the loop of get_serial_data counted on are in the ring, whatever
\* comes in or is refused meanwhile, and it does not wait in uart_getc -- except
\* in a pass that looked at a byte first: that one counts on filling the last
\* cell with a byte that may not have come, and waits for this one byte.
CountedIsThere ==
  pc = "read" => \/ want <= Len(queue)
                 \/ spilled /\ want = 1 /\ opt.delim # NoDelim

\* A packet that send takes at its first try is cut where the options say:
\* no delimiter inside, no longer than the size, and ended by one of them
\* unless the time option is on.
PacketCut ==
  [][SendOk /\ ~refused /\ ~spilled /\ opt # NoPacking =>
       /\ \A k \in 1 .. u2e_size - 1 : packet[k] # opt.delim
       /\ opt.size # 0 => u2e_size <= opt.size
       /\ \/ packet[u2e_size] = opt.delim
          \/ u2e_size = opt.size
          \/ opt.time # 0]_vars

\* Without packing options, while the connection lasts, what is in the ring is
\* taken and what is taken is sent, however often send refuses.
Delivery ==
  /\ (opt = NoPacking /\ link /\ status = "connect" /\ queue # << >>)
       ~> (packet # << >> \/ ~link)
  /\ (opt = NoPacking /\ link /\ packet # << >>) ~> (packet = << >> \/ ~link)

\* seg.c, get_serial_data: "Avoiding u2e buffer (g_send_buf) overflow".
NoOverflow == ~beyond
=============================================================================
