---------------------------- MODULE NetToSerial ----------------------------
(***************************************************************************)
(* From the network to the serial line: ether_to_uart, the receive side of *)
(* the TCP socket it reads, the connection password and the two kinds of   *)
(* flow control that can hold the bytes back.  The peer, the chip and the  *)
(* serial interrupt act between any two steps of the main loop.            *)
(*                                                                         *)
(* TCP server and TCP client mode: in both mixed_state is MIXED_SERVER,    *)
(* the value it is initialised to.  (A device that was a mixed client when *)
(* an OP command changed its mode keeps MIXED_CLIENT and asks for no       *)
(* password: SegTcp has both, this module the question only.)              *)
(***************************************************************************)
EXTENDS Integers, Sequences

CONSTANTS
  Item,     \* what the peer may send, Password among it
  Password, \* a segment that is the connection password
  BufSize,  \* DATA_BUF_SIZE; the chip's receive buffer has the same size
  ErrSize,  \* a negative result of recv() read as uint16_t
  Option    \* records [server, pw, xonxoff, dsr] of BOOLEANs

ASSUME ToSerialAssumption ==
  /\ Password \in Item
  /\ BufSize \in Nat \ {0}
  /\ ErrSize \in Nat /\ ErrSize > BufSize
  /\ Option \subseteq [server : BOOLEAN, pw : BOOLEAN, xonxoff : BOOLEAN,
                       dsr : BOOLEAN]

VARIABLES
  opt,            \* working_mode, pw_connect_en, flow_control, dsr_en
  sr, irCon, rx,  \* Sn_SR, Sn_IR_CON and the receive buffer of the chip
  status,         \* working_state: "open" or "connect"
  auth,           \* flag_connect_pw_auth
  recvBuf, e2u,   \* g_recv_buf, e2u_size
  isXON, dsrHigh, \* XON was the last flow-control byte; the DSR pin
  pc, back, len,  \* where ether_to_uart stands, its caller, its local len
  due,            \* history: received in this connection for the serial line
                  \* and not put on it yet
  lost,           \* history: bytes held back were overwritten by the next recv
  granted         \* history: this connection has carried the password

chip == <<sr, irCon, rx>>
seg == <<status, auth, recvBuf, e2u, pc, back, len>>
flow == <<isXON, dsrHigh>>
vars == <<opt, sr, irCon, rx, status, auth, recvBuf, e2u, isXON, dsrHigh, pc,
          back, len, due, lost, granted>>

Init ==
  /\ opt \in Option
  /\ sr = "closed" /\ irCon = FALSE /\ rx = << >>
  /\ status = "open" /\ auth = FALSE
  /\ recvBuf = << >> /\ e2u = 0
  /\ isXON = TRUE /\ dsrHigh \in IF opt.dsr THEN BOOLEAN ELSE {TRUE}
  /\ pc = "poll" /\ back = "poll" /\ len = 0
  /\ due = << >> /\ lost = FALSE /\ granted = FALSE

-----------------------------------------------------------------------------
(* The chip and the peer                                                   *)

\* a connection comes up (accepted or, in client mode, answered)
PeerConnect ==
  /\ sr = "listen"
  /\ sr' = "established" /\ irCon' = TRUE
  /\ granted' = FALSE
  /\ UNCHANGED <<opt, rx, due, lost>> /\ UNCHANGED seg /\ UNCHANGED flow

PeerSend(x) ==
  /\ sr = "established" /\ Len(rx) < BufSize
  /\ rx' = Append(rx, x)
  /\ due' = Append(due, x)
  /\ UNCHANGED <<opt, sr, irCon, lost, granted>> /\ UNCHANGED seg /\ UNCHANGED flow

PeerClose ==
  /\ sr = "established"
  /\ sr' = "closewait"
  /\ UNCHANGED <<opt, irCon, rx, due, lost, granted>> /\ UNCHANGED seg
  /\ UNCHANGED flow

\* a reset or a timeout: what was received may still be seen, or not
PeerReset ==
  /\ sr \in {"established", "closewait"}
  /\ sr' = "closed"
  /\ rx' \in {rx, << >>}
  /\ due' = SubSeq(due, 1, Len(due) - Len(rx)) \o rx'
  /\ UNCHANGED <<opt, irCon, lost, granted>> /\ UNCHANGED seg /\ UNCHANGED flow

-----------------------------------------------------------------------------
(* Flow control from the serial side                                       *)

\* check_serial_store_permitted, when an XON or XOFF byte comes in
FlowByte(on) ==
  /\ opt.xonxoff /\ status = "connect"
  /\ isXON' = on
  /\ UNCHANGED <<opt, dsrHigh, due, lost, granted>> /\ UNCHANGED chip
  /\ UNCHANGED seg

DsrPin(high) ==
  /\ opt.dsr
  /\ dsrHigh' = high
  /\ UNCHANGED <<opt, isXON, due, lost, granted>> /\ UNCHANGED chip /\ UNCHANGED seg

-----------------------------------------------------------------------------
(* The main loop: what proc_SEG_tcp_server and _client do around the call  *)

\* SOCK_CLOSED or SOCK_FIN_WAIT: status, flags and sizes reset, socket(), and
\* listen() or later connect()
Reopen ==
  /\ pc = "poll" /\ sr = "closed"
  /\ sr' = "listen" /\ irCon' = FALSE /\ rx' = << >>
  /\ status' = "open" /\ auth' = FALSE /\ e2u' = 0
  /\ due' = << >> /\ lost' = FALSE
  /\ UNCHANGED <<opt, recvBuf, pc, back, len, granted>> /\ UNCHANGED flow

\* SOCK_ESTABLISHED with Sn_IR_CON, once for a connection
Accept ==
  /\ pc = "poll" /\ sr = "established" /\ irCon
  /\ irCon' = FALSE
  /\ status' = "connect"
  /\ auth' = (auth \/ ~opt.server \/ ~opt.pw)
  /\ UNCHANGED <<opt, sr, rx, recvBuf, e2u, pc, back, len, due, lost, granted>>
  /\ UNCHANGED flow

WorkHeld == e2u # 0
Work == rx # << >> \/ e2u # 0

\* RX_RSR or e2u_size is not zero: ether_to_uart is called
Call ==
  /\ \/ pc = "poll" /\ sr = "established" /\ ~irCon /\ back' = "poll"
     \/ pc = "poll" /\ sr = "closewait" /\ back' = "drain"
     \/ pc = "drain" /\ back' = "drain"
  /\ Work
  /\ pc' = "len"
  /\ UNCHANGED <<opt, status, auth, recvBuf, e2u, len, due, lost, granted>>
  /\ UNCHANGED chip /\ UNCHANGED flow

\* process_socket_termination: SOCK_CLOSE_WAIT with nothing left to receive,
\* the inactivity timer, or the password not given in time
Terminate ==
  /\ \/ pc = "poll" /\ sr = "closewait" /\ rx = << >> /\ e2u = 0
     \/ pc = "drain" /\ rx = << >> /\ e2u = 0
     \/ pc = "poll" /\ sr = "established" /\ ~irCon
  /\ sr' = "closed" /\ irCon' = FALSE
  /\ pc' = "poll"
  /\ UNCHANGED <<opt, rx, status, auth, recvBuf, e2u, back, len, due, lost, granted>>
  /\ UNCHANGED flow

-----------------------------------------------------------------------------
(* The main loop: ether_to_uart                                            *)

\* len = getSn_RX_RSR(sock), bounded by DATA_BUF_SIZE
ReadLen ==
  /\ pc = "len"
  /\ len' = Len(rx)
  /\ pc' = IF rx = << >> THEN "auth" ELSE "switch"
  /\ UNCHANGED <<opt, status, auth, recvBuf, e2u, back, due, lost, granted>>
  /\ UNCHANGED chip /\ UNCHANGED flow

\* switch(getSn_SR(sock))
Switch ==
  /\ pc = "switch"
  /\ pc' = IF sr \in {"established", "closewait"} THEN "recv" ELSE "auth"
  /\ UNCHANGED <<opt, status, auth, recvBuf, e2u, back, len, due, lost, granted>>
  /\ UNCHANGED chip /\ UNCHANGED flow

\* what was held back is forgotten when e2u_size is assigned
Overwrite ==
  /\ lost' = (lost \/ e2u # 0)
  /\ due' = SubSeq(due, e2u + 1, Len(due))

RecvSizeAdded == e2u + len
RecvSize == len

RestDropped == << >>
Rest == SubSeq(rx, len + 1, Len(rx))

\* e2u_size = recv(sock, g_recv_buf, len)
Recv ==
  /\ pc = "recv" /\ sr \in {"established", "closewait"}
  /\ recvBuf' = SubSeq(rx, 1, len)
  /\ rx' = Rest
  /\ e2u' = RecvSize /\ Overwrite
  /\ granted' = (granted \/ SubSeq(rx, 1, len) = <<Password>>)
  /\ pc' = "auth"
  /\ UNCHANGED <<opt, sr, irCon, status, auth, back, len>>
  /\ UNCHANGED flow

\* the socket is gone: recv() closes it and answers SOCKERR_SOCKSTATUS
RecvError ==
  /\ pc = "recv" /\ sr = "closed"
  /\ irCon' = FALSE
  /\ e2u' = ErrSize /\ Overwrite
  /\ pc' = "auth"
  /\ UNCHANGED <<opt, sr, rx, status, auth, recvBuf, back, len, granted>>
  /\ UNCHANGED flow

PasswordAskedOpen == status = "open" /\ opt.pw /\ ~auth

\* The test compares working_state with TCP_SERVER_MODE and TCP_MIXED_MODE,
\* which have the values of ST_OPEN and ST_CONNECT.
PasswordAsked == status \in {"open", "connect"} /\ opt.pw /\ ~auth

\* check_connect_pw_auth: g_recv_buf, to the length found before recv()
Matches == len = 1 /\ recvBuf # << >> /\ recvBuf[1] = Password

AuthSkip ==
  /\ pc = "auth" /\ ~PasswordAsked
  /\ pc' = "out"
  /\ UNCHANGED <<opt, status, auth, recvBuf, e2u, back, len, due, lost, granted>>
  /\ UNCHANGED chip /\ UNCHANGED flow

\* the segment with the password is not for the serial line
AuthGranted ==
  /\ pc = "auth" /\ PasswordAsked /\ Matches
  /\ auth' = TRUE
  /\ e2u' = 0
  /\ due' = rx
  /\ pc' = "out"
  /\ UNCHANGED <<opt, status, recvBuf, back, len, lost, granted>>
  /\ UNCHANGED chip /\ UNCHANGED flow

\* disconnect(): a DISCON command, which leads to FIN_WAIT or CLOSED
AuthDenied ==
  /\ pc = "auth" /\ PasswordAsked /\ ~Matches
  /\ e2u' = 0
  /\ due' = rx
  /\ sr' = "closed"
  /\ pc' = back
  /\ UNCHANGED <<opt, irCon, rx, status, auth, recvBuf, back, len, lost, granted>>
  /\ UNCHANGED flow

HeldBack == (opt.dsr /\ ~dsrHigh) \/ (opt.xonxoff /\ ~isXON)

Hold ==
  /\ pc = "out" /\ (e2u = 0 \/ HeldBack)
  /\ pc' = back
  /\ UNCHANGED <<opt, status, auth, recvBuf, e2u, back, len, due, lost, granted>>
  /\ UNCHANGED chip /\ UNCHANGED flow

AfterOutKept == UNCHANGED e2u
AfterOut == e2u' = 0

\* e2u_size bytes of g_recv_buf go to the serial line
PutOut ==
  /\ pc = "out" /\ e2u # 0 /\ ~HeldBack
  /\ AfterOut
  /\ due' = IF e2u <= BufSize THEN SubSeq(due, e2u + 1, Len(due)) ELSE rx
  /\ pc' = back
  /\ UNCHANGED <<opt, status, auth, recvBuf, back, len, lost, granted>>
  /\ UNCHANGED chip /\ UNCHANGED flow

Main ==
  \/ Reopen \/ Accept \/ Call \/ Terminate
  \/ ReadLen \/ Switch \/ Recv \/ RecvError
  \/ AuthSkip \/ AuthGranted \/ AuthDenied \/ Hold \/ PutOut

Peer == PeerConnect \/ PeerClose \/ PeerReset \/ \E x \in Item : PeerSend(x)

Line == \E on \in BOOLEAN : FlowByte(on) \/ DsrPin(on)

Next == Main \/ Peer \/ Line

Spec == Init /\ [][Next]_vars

\* The main loop runs: it polls the socket and ends what it began.
FairSpec == Spec /\ WF_vars(Main /\ pc # "poll") /\ WF_vars(Accept)
                 /\ WF_vars(Call) /\ WF_vars(Terminate /\ sr = "closewait")

-----------------------------------------------------------------------------
(* Every variable holds a value of its C type and of its role.             *)
TypeOK ==
  /\ opt \in Option
  /\ sr \in {"closed", "listen", "established", "closewait"}
  /\ irCon \in BOOLEAN
  /\ rx \in Seq(Item) /\ Len(rx) <= BufSize
  /\ status \in {"open", "connect"}
  /\ auth \in BOOLEAN
  /\ recvBuf \in Seq(Item) /\ Len(recvBuf) <= BufSize
  /\ e2u \in (0 .. BufSize) \cup {ErrSize}
  /\ {isXON, dsrHigh, lost, granted} \subseteq BOOLEAN
  /\ pc \in {"poll", "drain", "len", "switch", "recv", "auth", "out"}
  /\ back \in {"poll", "drain"}
  /\ len \in 0 .. BufSize
  /\ due \in Seq(Item)

\* With a connection password, a server puts nothing on the serial line before
\* the client of this connection has sent the password: not what was left of
\* an earlier connection, not the password itself, not the result of a failed
\* recv, and not when the connection is first seen in SOCK_CLOSE_WAIT.
PasswordFirst == [][opt.server /\ opt.pw /\ PutOut => granted]_vars

\* What was received and not yet put on the serial line is g_recv_buf followed
\* by the chip's buffer, in order and once, up to a recv that failed; and
\* without flow control nothing held back is ever overwritten.
StreamKept ==
  /\ e2u <= BufSize => due = SubSeq(recvBuf, 1, e2u) \o rx
  /\ ~opt.xonxoff /\ ~opt.dsr => ~lost

\* Without flow control, what an established connection has received is taken
\* from the chip, and a connection the peer has closed is closed here too.
DataIsTaken ==
  (sr = "established" /\ rx # << >> /\ ~opt.xonxoff /\ ~opt.dsr)
    ~> (pc = "auth" \/ sr = "closed")
CloseWaitEnds ==
  (sr = "closewait" /\ ~opt.xonxoff /\ ~opt.dsr) ~> sr # "closewait"

\* seg.c, ether_to_uart: "avoiding buffer overflow"; what goes to the serial
\* line is not longer than g_recv_buf.
NeverBeyondBuffer == e2u <= BufSize

\* seg.c, check_serial_store_permitted: "Software flow control: Check the
\* XON/XOFF start/stop commands"; bytes held back by XOFF follow after XON.
NothingLostToXoff == ~lost
=============================================================================
