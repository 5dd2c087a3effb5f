--------------------------- MODULE SegTcp_proofs ---------------------------
(***************************************************************************)
(* Proofs about SegTcp for every set of modes, timer setting and width of  *)
(* the timers: the type invariant, that a connection state never outlives  *)
(* its connection, that the socket fits the working mode and the TLS       *)
(* context is live through every change of mode, that the password flag is *)
(* fresh, the pace of connect(), the timer of the password, and AT mode    *)
(* without a connection where no EX command comes over the network.        *)
(***************************************************************************)
EXTENDS SegTcp, TLAPS

\* What the actions assign to the timers lies within their width.
LEMMA Bounds ==
  /\ 0 \in 0 .. Wrap - 1
  /\ Reconnection \in 0 .. Wrap - 1
  /\ 0 \in 0 .. Reconnection
  /\ Reconnection \in 0 .. Reconnection
  BY TcpAssumption DEF TcpAssumption

\* Every action keeps every variable within its type.
LEMMA TypeInductive == TypeOK /\ [Next]_vars => TypeOK'
<1> USE DEF TypeOK, switch, socket, timers, context
<1>1. TypeOK /\ UNCHANGED vars => TypeOK'
  BY DEF vars
<1>2. ASSUME TypeOK, Env PROVE TypeOK'
  <2>1. sr' \in {"established", "closewait", "closed"} /\ irCon' \in BOOLEAN
    BY <1>2 DEF Env, PeerConnect, Answer, NoAnswer, PeerClose, PeerReset, Peer
  <2>2. /\ UNCHANGED <<mode, opmode, status, mixed, serial, sw, auth, since>>
        /\ UNCHANGED timers /\ UNCHANGED context
    BY <1>2 DEF Env, PeerConnect, Answer, NoAnswer, PeerClose, PeerReset, Peer
  <2>3. QED
    BY <1>2, <2>1, <2>2
<1> USE Bounds
<1>3. ASSUME TypeOK, Interrupt PROVE TypeOK'
  <2>1. CASE Tick
    <3>1. \A on \in BOOLEAN, t \in 0 .. Wrap - 1 : Counted(on, t) \in 0 .. Wrap - 1
      <4>1. \A n \in Nat : n % Wrap \in 0 .. Wrap - 1
        BY TcpAssumption DEF TcpAssumption
      <4>2. QED
        BY <4>1, TcpAssumption DEF Counted, TcpAssumption
    <3>2. recTime' \in 0 .. Wrap - 1 /\ authTime' \in 0 .. Wrap - 1
      BY <1>3, <2>1, <3>1 DEF Tick
    <3>3. since' \in 0 .. Reconnection
      BY <1>3, <2>1, TcpAssumption DEF Tick, TcpAssumption
    <3>4. QED
      BY <1>3, <2>1, <3>2, <3>3 DEF Tick
  <2>2. CASE TickSec
    <3>1. inactTime' \in 0 .. Wrap - 1
      BY <1>3, <2>2, TcpAssumption DEF TickSec, TcpAssumption
    <3>2. QED
      BY <1>3, <2>2, <3>1 DEF TickSec
  <2>3. CASE SerialByte
    BY <1>3, <2>3 DEF SerialByte
  <2>4. CASE TriggerCode
    BY <1>3, <2>4 DEF TriggerCode
  <2>5. QED
    BY <1>3, <2>1, <2>2, <2>3, <2>4 DEF Interrupt
<1>4. ASSUME TypeOK, Main PROVE TypeOK'
  <2>1. CASE SwitchToAt
    BY <1>4, <2>1 DEF SwitchToAt, StopInactivity, Terminate, Release
  <2>2. CASE ExitAt
    BY <1>4, <2>2 DEF ExitAt, StopInactivity
  <2>3. CASE NetworkToAt
    BY <1>4, <2>3 DEF NetworkToAt, StopInactivity
  <2>4. ASSUME NEW skip \in BOOLEAN, Connect(skip) PROVE TypeOK'
    <3>1. recTime' = 0 /\ sr' \in {sr, "synsent"} /\ since' \in {since, 0}
      BY <2>4 DEF Connect
    <3>2. dialing' \in BOOLEAN
      BY <1>4, <2>4 DEF Connect
    <3>3. UNCHANGED <<mode, status, mixed, irCon, serial, auth, recOn, authOn,
                      authTime, inactOn, inactTime, tls, ctx, opmode, sw>>
      BY <2>4 DEF Connect
    <3>4. QED
      BY <1>4, <3>1, <3>2, <3>3
  <2>5. CASE MixedListen
    BY <1>4, <2>5 DEF MixedListen, Pass, Close
  <2>6. CASE Accept
    <3>1. auth' \in BOOLEAN /\ authOn' \in BOOLEAN /\ authTime' \in 0 .. Wrap - 1
      BY <1>4, <2>6 DEF Accept, StartAuthTimer, PasswordWanted
    <3>2. recOn' \in BOOLEAN /\ recTime' \in 0 .. Wrap - 1
      BY <1>4, <2>6 DEF Accept
    <3>3. irCon' \in BOOLEAN /\ inactOn' \in BOOLEAN /\ serial' \in BOOLEAN
      BY <1>4, <2>6 DEF Accept
    <3>4. status' = "connect" /\ mixed' \in {"server", mixed}
          /\ mode' = mode /\ sr' = sr /\ inactTime' = inactTime
          /\ since' = since /\ opmode' = opmode /\ sw' = sw
          /\ dialing' = dialing /\ tls' = tls /\ ctx' = ctx
      BY <2>6 DEF Accept
    <3>5. QED
      BY <1>4, <3>1, <3>2, <3>3, <3>4
  <2>7. CASE Exchange
    <3>1. serial' \in BOOLEAN
      BY <1>4, <2>7 DEF Exchange
    <3>2. inactTime' \in 0 .. Wrap - 1
      BY <2>7 DEF Exchange
    <3>3. QED
      BY <1>4, <2>7, <3>1, <3>2 DEF Exchange
  <2>8. ASSUME NEW right \in BOOLEAN, PasswordSeen(right) PROVE TypeOK'
    BY <1>4, <2>8 DEF PasswordSeen
  <2>9. CASE AuthTimeout
    BY <1>4, <2>9 DEF AuthTimeout, Close
  <2>10. CASE InactivityTimeout
    BY <1>4, <2>10 DEF InactivityTimeout, Close, LeaveTls, Release
  <2>11. CASE PeerHasClosed
    <3>1. sr' = "closed" /\ irCon' \in {FALSE, irCon}
      BY <2>11 DEF PeerHasClosed
    <3>2. dialing' \in BOOLEAN /\ tls' \in BOOLEAN /\ ctx' \in BOOLEAN
      BY <1>4, <2>11 DEF PeerHasClosed, LeaveTls, Release
    <3>3. auth' \in {auth, TRUE} /\ inactTime' \in {0, inactTime}
      BY <2>11 DEF PeerHasClosed
    <3>4. UNCHANGED <<mode, status, mixed, serial, recOn, recTime, authOn,
                      authTime, inactOn, since, opmode, sw>>
      BY <2>11 DEF PeerHasClosed
    <3>5. auth' \in BOOLEAN /\ irCon' \in BOOLEAN
      BY <1>4, <3>1, <3>3
    <3>6. inactTime' \in 0 .. Wrap - 1
      BY <1>4, <3>3
    <3>7. QED
      BY <1>4, <3>1, <3>2, <3>4, <3>5, <3>6
  <2>12. ASSUME NEW ok \in BOOLEAN, Reopen(ok) PROVE TypeOK'
    <3>1. status' = "open" /\ sr' \in {"closed", "finwait", "init", "listen"}
      BY <2>12 DEF Reopen, Pass, set_device_status_open
    <3>2. auth' \in BOOLEAN /\ authOn' \in BOOLEAN /\ inactOn' \in BOOLEAN
      BY <1>4, <2>12 DEF Reopen, reset_SEG_timeflags, ClearTimers
    <3>3. authTime' \in 0 .. Wrap - 1 /\ inactTime' \in 0 .. Wrap - 1
      BY <1>4, <2>12 DEF Reopen, reset_SEG_timeflags, ClearTimers
    <3>4. irCon' \in BOOLEAN /\ recOn' \in BOOLEAN
      BY <1>4, <2>12 DEF Reopen, EnableReconnection
    <3>5. UNCHANGED <<mode, mixed, serial, recTime, since, opmode, sw, dialing,
                      tls, ctx>>
      BY <2>12 DEF Reopen
    <3>6. QED
      BY <1>4, <3>1, <3>2, <3>3, <3>4, <3>5
  <2>13. CASE OpCommand
    BY <1>4, <2>13 DEF OpCommand, SetMode, Terminate
  <2>14. CASE DialUp
    <3>1. UNCHANGED <<mode, status, mixed, serial, auth, since, tls, ctx, opmode,
                      sw, sr, irCon, timers>>
      BY <2>14 DEF DialUp
    <3>2. dialing' \in BOOLEAN
      BY <2>14 DEF DialUp
    <3>3. QED
      BY <1>4, <3>1, <3>2
  <2>15. CASE DialFails
    <3>1. sr' = "closed" /\ dialing' = FALSE
      BY <2>15 DEF DialFails, Terminate
    <3>2. irCon' \in BOOLEAN /\ tls' \in BOOLEAN /\ ctx' \in BOOLEAN
      BY <1>4, <2>15 DEF DialFails, Terminate
    <3>3. UNCHANGED <<mode, status, mixed, serial, auth, since, opmode, sw, timers>>
      BY <2>15 DEF DialFails
    <3>4. QED
      BY <1>4, <3>1, <3>2, <3>3
  <2>16. ASSUME NEW setUp \in BOOLEAN, NEW ok \in BOOLEAN, ReopenTls(setUp, ok)
         PROVE  TypeOK'
    BY <1>4, <2>16 DEF ReopenTls, set_device_status_open, reset_SEG_timeflags,
       ClearTimers, EnableReconnection, Calls, Dials
  <2>17. CASE ReopenUdp
    BY <1>4, <2>17 DEF ReopenUdp
  <2>18. QED
    BY <1>4, <2>1, <2>2, <2>3, <2>4, <2>5, <2>6, <2>7, <2>8, <2>9, <2>10,
       <2>11, <2>12, <2>13, <2>14, <2>15, <2>16, <2>17 DEF Main
<1>5. QED
  BY <1>1, <1>2, <1>3, <1>4 DEF Next

\* Every variable of the socket's life keeps its type, for every width of the
\* uint16_t timers.
THEOREM TypeCorrect == Spec => []TypeOK
<1>1. Init => TypeOK
  BY Bounds, TcpAssumption DEF Init, TypeOK
<1>2. QED
  BY <1>1, TypeInductive, PTL DEF Spec
-----------------------------------------------------------------------------
(* The connection state                                                    *)

\* No step leaves the connection state set without its connection.
LEMMA StaleInductive == NoStaleConnect /\ [Next]_vars => NoStaleConnect'
<1> USE DEF NoStaleConnect
<1>1. NoStaleConnect /\ UNCHANGED vars => NoStaleConnect'
  BY DEF vars
<1>2. ASSUME NoStaleConnect, Env PROVE NoStaleConnect'
  BY <1>2 DEF Env, PeerConnect, Answer, NoAnswer, PeerClose, PeerReset, Peer
<1>3. ASSUME NoStaleConnect, Interrupt PROVE NoStaleConnect'
  BY <1>3 DEF Interrupt, Tick, TickSec, SerialByte, TriggerCode, socket
<1>4. ASSUME NoStaleConnect, Main PROVE NoStaleConnect'
  <2>1. CASE SwitchToAt \/ ExitAt \/ NetworkToAt \/ ReopenUdp
    BY <2>1 DEF SwitchToAt, ExitAt, NetworkToAt, ReopenUdp
  <2>2. ASSUME NEW skip \in BOOLEAN, Connect(skip) PROVE NoStaleConnect'
    BY <1>4, <2>2 DEF Connect, Pass
  <2>3. CASE MixedListen
    BY <1>4, <2>3 DEF MixedListen, Pass
  <2>4. CASE Accept
    BY <2>4 DEF Accept, Pass
  <2>5. CASE Exchange
    BY <1>4, <2>5 DEF Exchange, socket
  <2>6. ASSUME NEW right \in BOOLEAN, PasswordSeen(right) PROVE NoStaleConnect'
    BY <1>4, <2>6 DEF PasswordSeen
  <2>7. CASE AuthTimeout \/ InactivityTimeout
    BY <2>7 DEF AuthTimeout, InactivityTimeout, Close
  <2>8. ASSUME NEW ok \in BOOLEAN, Reopen(ok) PROVE NoStaleConnect'
    BY <2>8 DEF Reopen, set_device_status_open
  <2>9. CASE PeerHasClosed
    <3>1. sr' = "closed" /\ (irCon' => irCon) /\ status' = status
      BY <2>9 DEF PeerHasClosed
    <3>2. QED
      BY <1>4, <3>1
  <2>10. CASE OpCommand
    BY <1>4, <2>10 DEF OpCommand, SetMode, Terminate
  <2>11. CASE DialUp
    BY <1>4, <2>11 DEF DialUp, socket
  <2>12. CASE DialFails
    <3>1. sr' = "closed" /\ (irCon' => irCon) /\ status' = status
      BY <2>12 DEF DialFails, Terminate
    <3>2. QED
      BY <1>4, <3>1
  <2>13. ASSUME NEW setUp \in BOOLEAN, NEW ok \in BOOLEAN, ReopenTls(setUp, ok)
         PROVE  NoStaleConnect'
    BY <2>13 DEF ReopenTls, set_device_status_open
  <2>14. QED
    BY <1>4, <2>1, <2>2, <2>3, <2>4, <2>5, <2>6, <2>7, <2>8, <2>9, <2>10,
       <2>11, <2>12, <2>13 DEF Main
<1>5. QED
  BY <1>1, <1>2, <1>3, <1>4 DEF Next

\* The state ST_CONNECT, in which serial bytes are stored for the peer, never
\* outlives the connection the program took over: no new connection begins
\* before set_device_status(ST_OPEN).
THEOREM StaleCorrect == Spec => []NoStaleConnect
<1>1. Init => NoStaleConnect
  BY DEF Init, NoStaleConnect
<1>2. QED
  BY <1>1, StaleInductive, PTL DEF Spec

-----------------------------------------------------------------------------
(* The socket and the working mode                                         *)

\* No step, and no change of the working mode, leaves a socket to a mode that it
\* does not belong to.
LEMMA SocketInductive == TypeOK /\ SocketFitsMode /\ [Next]_vars => SocketFitsMode'
<1> USE DEF SocketFitsMode, Dials, socket, context
<1>1. SocketFitsMode /\ UNCHANGED vars => SocketFitsMode'
  BY DEF vars
<1>2. ASSUME SocketFitsMode, Env PROVE SocketFitsMode'
  BY <1>2 DEF Env, PeerConnect, Answer, NoAnswer, PeerClose, PeerReset, Peer
<1>3. ASSUME SocketFitsMode, Interrupt PROVE SocketFitsMode'
  BY <1>3 DEF Interrupt, Tick, TickSec, SerialByte, TriggerCode
<1>4. ASSUME TypeOK, SocketFitsMode, Main PROVE SocketFitsMode'
  <2>1. CASE SwitchToAt
    BY <1>4, <2>1 DEF SwitchToAt, Terminate, Release
  <2>2. CASE ExitAt \/ NetworkToAt
    BY <1>4, <2>2 DEF ExitAt, NetworkToAt
  <2>3. CASE OpCommand
    BY <2>3 DEF OpCommand, SetMode, Terminate
  <2>4. ASSUME NEW skip \in BOOLEAN, Connect(skip) PROVE SocketFitsMode'
    BY <1>4, <2>4 DEF Connect, Pass
  <2>5. CASE DialUp
    BY <1>4, <2>5 DEF DialUp
  <2>6. CASE DialFails
    BY <2>6 DEF DialFails, Terminate
  <2>7. CASE MixedListen \/ AuthTimeout \/ InactivityTimeout \/ PeerHasClosed
    <3>1. sr' = "closed" /\ mode' = mode /\ ~dialing /\ dialing' = dialing
      BY <2>7 DEF MixedListen, AuthTimeout, InactivityTimeout, PeerHasClosed,
         Connected, Pass, Close, LeaveTls, Release
    <3>2. QED
      BY <1>4, <3>1
  <2>8. CASE Accept \/ Exchange
    <3>1. sr' = sr /\ mode' = mode /\ dialing' = dialing
      BY <2>8 DEF Accept, Exchange
    <3>2. QED
      BY <1>4, <3>1
  <2>9. ASSUME NEW right \in BOOLEAN, PasswordSeen(right) PROVE SocketFitsMode'
    BY <1>4, <2>9 DEF PasswordSeen, Connected, Pass
  <2>10. ASSUME NEW ok \in BOOLEAN, Reopen(ok) PROVE SocketFitsMode'
    <3>1. mode \in {"client", "server", "mixed", "mqtt"}
      BY <1>4, <2>10, TcpAssumption DEF Reopen, TypeOK, TcpAssumption
    <3>2. /\ mode' = mode /\ ~dialing /\ dialing' = dialing
          /\ sr' \in {"closed", "finwait"} \/ sr' = IF Calls THEN "init" ELSE "listen"
      BY <2>10 DEF Reopen, Pass
    <3>3. QED
      BY <3>1, <3>2 DEF Calls
  <2>11. ASSUME NEW setUp \in BOOLEAN, NEW ok \in BOOLEAN, ReopenTls(setUp, ok)
         PROVE  SocketFitsMode'
    BY <2>11 DEF ReopenTls, Pass
  <2>12. CASE ReopenUdp
    BY <2>12 DEF ReopenUdp, Pass
  <2>13. QED
    BY <1>4, <2>1, <2>2, <2>3, <2>4, <2>5, <2>6, <2>7, <2>8, <2>9, <2>10,
       <2>11, <2>12 DEF Main
<1>5. QED
  BY <1>1, <1>2, <1>3, <1>4 DEF Next

LEMMA SocketInvariant == Spec => [](TypeOK /\ SocketFitsMode)
<1>1. Init => TypeOK /\ SocketFitsMode
  BY Bounds, TcpAssumption DEF Init, TypeOK, SocketFitsMode
<1>2. QED
  BY <1>1, TypeInductive, SocketInductive, PTL DEF Spec

\* Whenever an OP command comes, the next pass finds a socket its working mode
\* knows: no listening, calling or UDP socket is left over from the old one.
THEOREM SocketCorrect == Spec => []SocketFitsMode
  BY SocketInvariant, PTL

-----------------------------------------------------------------------------
(* The TLS context                                                         *)

\* The flag says no less than what is true of the context, and a TLS socket is
\* not open without it.
LEMMA ContextInductive == ContextLive /\ [Next]_vars => ContextLive'
<1> USE DEF ContextLive, socket, context
<1>1. ContextLive /\ UNCHANGED vars => ContextLive'
  BY DEF vars
<1>2. ASSUME ContextLive, Env PROVE ContextLive'
  BY <1>2 DEF Env, PeerConnect, Answer, NoAnswer, PeerClose, PeerReset, Peer
<1>3. ASSUME ContextLive, Interrupt PROVE ContextLive'
  BY <1>3 DEF Interrupt, Tick, TickSec, SerialByte, TriggerCode
<1>4. ASSUME ContextLive, Main PROVE ContextLive'
  <2>1. CASE SwitchToAt
    BY <2>1 DEF SwitchToAt, Terminate, Release
  <2>2. CASE ExitAt \/ NetworkToAt
    BY <1>4, <2>2 DEF ExitAt, NetworkToAt
  <2>3. CASE OpCommand
    BY <1>4, <2>3 DEF OpCommand, SetMode, Terminate
  <2>4. ASSUME NEW skip \in BOOLEAN, Connect(skip) PROVE ContextLive'
    BY <1>4, <2>4 DEF Connect, Pass
  <2>5. CASE DialUp \/ Accept \/ Exchange
    <3>1. sr' = sr /\ mode' = mode /\ tls' = tls /\ ctx' = ctx
      BY <2>5 DEF DialUp, Accept, Exchange
    <3>2. QED
      BY <1>4, <3>1
  <2>6. CASE DialFails
    BY <1>4, <2>6 DEF DialFails, Terminate
  <2>7. CASE MixedListen \/ AuthTimeout
    BY <1>4, <2>7 DEF MixedListen, AuthTimeout, Close
  <2>8. CASE InactivityTimeout \/ PeerHasClosed
    <3>1. sr' = "closed" /\ LeaveTls
      BY <2>8 DEF InactivityTimeout, PeerHasClosed, Close
    <3>2. QED
      BY <1>4, <3>1 DEF LeaveTls, Release
  <2>9. ASSUME NEW right \in BOOLEAN, PasswordSeen(right) PROVE ContextLive'
    BY <1>4, <2>9 DEF PasswordSeen, Connected, Pass
  <2>10. ASSUME NEW ok \in BOOLEAN, Reopen(ok) PROVE ContextLive'
    BY <1>4, <2>10 DEF Reopen
  <2>11. ASSUME NEW setUp \in BOOLEAN, NEW ok \in BOOLEAN, ReopenTls(setUp, ok)
         PROVE  ContextLive'
    BY <2>11 DEF ReopenTls
  <2>12. CASE ReopenUdp
    BY <1>4, <2>12 DEF ReopenUdp
  <2>13. QED
    BY <1>4, <2>1, <2>2, <2>3, <2>4, <2>5, <2>6, <2>7, <2>8, <2>9, <2>10,
       <2>11, <2>12 DEF Main
<1>5. QED
  BY <1>1, <1>2, <1>3, <1>4 DEF Next

\* Over every history of connections, failures, mode changes and AT commands
\* s2e_tlsContext is set up while a TLS socket uses it and when it is freed.
THEOREM ContextCorrect == Spec => []ContextLive
<1>1. Init => ContextLive
  BY DEF Init, ContextLive
<1>2. QED
  BY <1>1, ContextInductive, PTL DEF Spec

-----------------------------------------------------------------------------
(* The password flag                                                       *)

\* Only a listening socket and a fresh connection need the flag clear, and in a
\* mode that asks for the password SocketFitsMode leaves a fresh connection no
\* other origin than a listening socket.
LEMMA AuthInductive ==
  SocketFitsMode /\ AuthIsFresh /\ [Next]_vars => AuthIsFresh'
<1> USE DEF AuthIsFresh, switch, socket, timers
<1>1. AuthIsFresh /\ UNCHANGED vars => AuthIsFresh'
  BY DEF vars
<1>2. ASSUME SocketFitsMode, AuthIsFresh, Env PROVE AuthIsFresh'
  <2>1. mode' = mode /\ auth' = auth
    BY <1>2 DEF Env, PeerConnect, Answer, NoAnswer, PeerClose, PeerReset, Peer
  <2>2. sr' # "listen" /\ (sr' = "established" => sr \in {"listen", "synsent"})
    BY <1>2 DEF Env, PeerConnect, Answer, NoAnswer, PeerClose, PeerReset, Peer
  <2>3. QED
    BY <1>2, <2>1, <2>2 DEF SocketFitsMode, Dials
<1>3. ASSUME AuthIsFresh, Interrupt PROVE AuthIsFresh'
  BY <1>3 DEF Interrupt, Tick, TickSec, SerialByte, TriggerCode
<1>4. ASSUME SocketFitsMode, AuthIsFresh, Main PROVE AuthIsFresh'
  <2>1. CASE SwitchToAt \/ OpCommand \/ DialFails
    BY <2>1 DEF SwitchToAt, OpCommand, SetMode, DialFails, Terminate
  <2>2. CASE ExitAt \/ NetworkToAt \/ DialUp
    BY <1>4, <2>2 DEF ExitAt, NetworkToAt, DialUp
  <2>3. ASSUME NEW skip \in BOOLEAN, Connect(skip) PROVE AuthIsFresh'
    BY <2>3 DEF Connect, Pass
  <2>4. CASE MixedListen \/ AuthTimeout \/ InactivityTimeout
    BY <2>4 DEF MixedListen, AuthTimeout, InactivityTimeout, Close
  <2>5. CASE Accept
    BY <2>5 DEF Accept, Pass
  <2>6. CASE Exchange
    BY <1>4, <2>6 DEF Exchange
  <2>7. ASSUME NEW right \in BOOLEAN, PasswordSeen(right) PROVE AuthIsFresh'
    BY <2>7 DEF PasswordSeen, Connected, Pass
  <2>8. CASE PeerHasClosed
    BY <2>8 DEF PeerHasClosed
  <2>9. ASSUME NEW ok \in BOOLEAN, Reopen(ok) PROVE AuthIsFresh'
    BY <2>9 DEF Reopen, Pass, reset_SEG_timeflags, Calls, Dials
  <2>10. ASSUME NEW setUp \in BOOLEAN, NEW ok \in BOOLEAN, ReopenTls(setUp, ok)
         PROVE  AuthIsFresh'
    BY <2>10 DEF ReopenTls, Pass
  <2>11. CASE ReopenUdp
    BY <2>11 DEF ReopenUdp, Pass
  <2>12. QED
    BY <1>4, <2>1, <2>2, <2>3, <2>4, <2>5, <2>6, <2>7, <2>8, <2>9, <2>10,
       <2>11 DEF Main
<1>5. QED
  BY <1>1, <1>2, <1>3, <1>4 DEF Next

\* A password given in one connection, or the flag a client mode sets for its
\* own connections, never counts in the next connection of a server, whatever
\* closed the last one, changed the mode or made socket() fail in between.
THEOREM AuthCorrect == Spec => []AuthIsFresh
<1>1. Init => AuthIsFresh
  BY DEF Init, AuthIsFresh
<1>2. QED
  BY <1>1, SocketInvariant, AuthInductive, PTL DEF Spec

-----------------------------------------------------------------------------
(* The pace of connect()                                                   *)

\* In a client mode reconnection_time never runs ahead of the time since the
\* last connect().
PaceInv == Dials => recTime <= since \/ since = Reconnection

LEMMA PaceInductive == TypeOK /\ PaceInv /\ [Next]_vars => PaceInv'
<1> USE DEF PaceInv, Dials
<1>1. PaceInv /\ UNCHANGED vars => PaceInv'
  BY DEF vars
<1>2. ASSUME PaceInv, Env PROVE PaceInv'
  BY <1>2 DEF Env, PeerConnect, Answer, NoAnswer, PeerClose, PeerReset, Peer,
              timers
<1>3. ASSUME TypeOK, PaceInv, Interrupt PROVE PaceInv'
  <2>1. CASE Tick
    <3>1. mode' = mode /\ recTime' = Counted(recOn, recTime)
          /\ since' = IF since < Reconnection THEN since + 1 ELSE since
      BY <2>1 DEF Tick
    <3>2. recTime \in 0 .. Wrap - 1 /\ since \in 0 .. Reconnection
      BY <1>3 DEF TypeOK
    <3>3. CASE since = Reconnection
      BY <3>1, <3>3, TcpAssumption DEF TcpAssumption
    <3>4. CASE Dials /\ since # Reconnection
      <4>1. recTime <= since /\ since < Reconnection
        BY <1>3, <3>2, <3>4, TcpAssumption DEF TcpAssumption
      <4>2. recTime + 1 \in 0 .. Wrap - 1
        BY <3>2, <4>1, TcpAssumption DEF TcpAssumption
      <4>3. (recTime + 1) % Wrap = recTime + 1
        BY <4>2, TcpAssumption DEF TcpAssumption
      <4>4. recTime' <= recTime + 1 /\ since' = since + 1
        BY <3>1, <3>2, <4>1, <4>3 DEF Counted
      <4>5. recTime' \in Int
        BY <3>1, <3>2, <4>3 DEF Counted
      <4>6. QED
        BY <3>2, <4>1, <4>4, <4>5
    <3>5. QED
      BY <3>1, <3>3, <3>4
  <2>2. CASE TickSec \/ SerialByte \/ TriggerCode
    BY <1>3, <2>2 DEF TickSec, SerialByte, TriggerCode, timers
  <2>3. QED
    BY <1>3, <2>1, <2>2 DEF Interrupt
<1>4. ASSUME TypeOK, PaceInv, Main PROVE PaceInv'
  <2> DEFINE Same == mode' = mode /\ recTime' = recTime /\ since' = since
             Zero == since \in Nat /\ recTime' = 0 /\ since' \in {0, since}
  <2>1. Same => PaceInv'
    BY <1>4
  <2>2. Zero => PaceInv'
    BY TcpAssumption DEF TcpAssumption
  <2>3. since \in Nat
    BY <1>4, TcpAssumption DEF TypeOK, TcpAssumption
  <2>4. CASE SwitchToAt \/ ExitAt \/ NetworkToAt \/ DialUp \/ DialFails
    BY <2>1, <2>4 DEF SwitchToAt, ExitAt, NetworkToAt, StopInactivity, DialUp,
       DialFails, timers
  <2>5. ASSUME NEW skip \in BOOLEAN, Connect(skip) PROVE PaceInv'
    BY <2>2, <2>3, <2>5 DEF Connect
  <2>6. CASE MixedListen
    BY <2>6 DEF MixedListen
  <2>7. CASE Accept
    BY <2>1, <2>2, <2>3, <2>7 DEF Accept
  <2>8. CASE Exchange
    BY <2>1, <2>8 DEF Exchange
  <2>9. ASSUME NEW right \in BOOLEAN, PasswordSeen(right) PROVE PaceInv'
    BY <2>1, <2>9 DEF PasswordSeen
  <2>10. CASE AuthTimeout \/ InactivityTimeout \/ PeerHasClosed
    BY <2>1, <2>10 DEF AuthTimeout, InactivityTimeout, PeerHasClosed, timers
  <2>11. ASSUME NEW ok \in BOOLEAN, Reopen(ok) PROVE PaceInv'
    BY <2>1, <2>11 DEF Reopen
  <2>12. CASE OpCommand
    <3>1. PICK m \in Mode : SetMode(m)
      BY <2>12 DEF OpCommand
    <3>2. CASE m = mode
      BY <2>1, <3>1, <3>2 DEF SetMode, timers
    <3>3. CASE m # mode
      BY <3>1, <3>3 DEF SetMode
    <3>4. QED
      BY <3>2, <3>3
  <2>13. ASSUME NEW setUp \in BOOLEAN, NEW ok \in BOOLEAN, ReopenTls(setUp, ok)
         PROVE  PaceInv'
    BY <2>1, <2>13 DEF ReopenTls
  <2>14. CASE ReopenUdp
    BY <2>1, <2>14 DEF ReopenUdp, timers
  <2>15. QED
    BY <1>4, <2>4, <2>5, <2>6, <2>7, <2>8, <2>9, <2>10, <2>11, <2>12, <2>13,
       <2>14 DEF Main
<1>5. QED
  BY <1>1, <1>2, <1>3, <1>4 DEF Next

\* Only Connect moves the socket from SOCK_INIT to SOCK_SYNSENT, and it finds
\* the reconnection time over.
LEMMA PaceStep ==
  TypeOK /\ PaceInv /\ [Next]_vars =>
    [sr = "init" /\ sr' = "synsent" => since = Reconnection]_vars
<1> SUFFICES ASSUME TypeOK, PaceInv, Next, sr = "init", sr' = "synsent"
             PROVE  since = Reconnection
  BY DEF vars
<1>1. PICK skip \in BOOLEAN : Connect(skip)
  <2>1. ~Env
    BY DEF Env, PeerConnect, Answer, NoAnswer, PeerClose, PeerReset, Peer
  <2>2. ~Interrupt
    BY DEF Interrupt, Tick, TickSec, SerialByte, TriggerCode, socket
  <2>3. ~SwitchToAt /\ ~ExitAt /\ ~NetworkToAt /\ ~MixedListen
    BY DEF SwitchToAt, ExitAt, NetworkToAt, MixedListen, Close, socket, Terminate
  <2>4. ~Accept /\ ~Exchange /\ ~(\E right \in BOOLEAN : PasswordSeen(right))
    BY DEF Accept, Exchange, PasswordSeen, Connected, Pass, socket
  <2>5. ~AuthTimeout /\ ~InactivityTimeout /\ ~PeerHasClosed
    BY DEF AuthTimeout, InactivityTimeout, PeerHasClosed, Close
  <2>6. /\ ~(\E ok \in BOOLEAN : Reopen(ok)) /\ ~ReopenUdp
        /\ ~(\E setUp, ok \in BOOLEAN : ReopenTls(setUp, ok))
    BY DEF Reopen, ReopenUdp, ReopenTls, Pass
  <2>7. ~OpCommand /\ ~DialUp /\ ~DialFails
    BY DEF OpCommand, SetMode, DialUp, DialFails, Terminate, socket
  <2>8. QED
    BY <2>1, <2>2, <2>3, <2>4, <2>5, <2>6, <2>7 DEF Next, Main
<1>2. Dials /\ recTime >= Reconnection
  BY <1>1 DEF Connect, ConnectDue
<1>3. QED
  BY <1>2, TcpAssumption DEF TypeOK, PaceInv, TcpAssumption

\* Two calls of connect() are never closer than the configured reconnection
\* time, and the wrap of the 16-bit timer does not break it.
THEOREM PaceCorrect == Spec => ConnectPaced
<1>1. Init => TypeOK /\ PaceInv
  <2>1. Init => TypeOK
    BY Bounds, TcpAssumption DEF Init, TypeOK
  <2>2. Init => PaceInv
    BY DEF Init, PaceInv
  <2>3. QED
    BY <2>1, <2>2
<1>2. QED
  BY <1>1, TypeInductive, PaceInductive, PaceStep, PTL DEF Spec, ConnectPaced

-----------------------------------------------------------------------------
(* The time for the password                                               *)

\* A connection of a server, or of a device in mixed mode, that still owes the
\* password runs under the authentication timer from the pass that takes it over
\* on: AT mode, EX and OP commands and the other timers never leave it without.
\* The password need not be asked for: ether_to_uart looks at mixed_state in
\* server mode too, and an OP command keeps it.
TimerRuns ==
  mode \in {"server", "mixed"} /\ Password /\ sr = "established" /\ ~irCon /\ ~auth
    => authOn

LEMMA TimerInductive == TimerRuns /\ [Next]_vars => TimerRuns'
<1> USE DEF TimerRuns, switch, socket, timers
<1>1. TimerRuns /\ UNCHANGED vars => TimerRuns'
  BY DEF vars
<1>2. ASSUME TimerRuns, Env PROVE TimerRuns'
  BY <1>2 DEF Env, PeerConnect, Answer, NoAnswer, PeerClose, PeerReset, Peer
<1>3. ASSUME TimerRuns, Interrupt PROVE TimerRuns'
  BY <1>3 DEF Interrupt, Tick, TickSec, SerialByte, TriggerCode
<1>4. ASSUME TimerRuns, Main PROVE TimerRuns'
  <2>1. CASE SwitchToAt \/ OpCommand \/ DialFails
    BY <2>1 DEF SwitchToAt, OpCommand, SetMode, DialFails, Terminate
  <2>2. CASE ExitAt \/ NetworkToAt \/ DialUp
    BY <1>4, <2>2 DEF ExitAt, NetworkToAt, DialUp, StopInactivity
  <2>3. ASSUME NEW skip \in BOOLEAN, Connect(skip) PROVE TimerRuns'
    BY <2>3 DEF Connect, Pass
  <2>4. CASE MixedListen \/ AuthTimeout \/ InactivityTimeout \/ PeerHasClosed
    BY <2>4 DEF MixedListen, AuthTimeout, InactivityTimeout, PeerHasClosed, Close
  <2>5. CASE Accept
    <3>1. auth' = (auth \/ ~PasswordWanted) /\ mode' = mode
      BY <2>5 DEF Accept
    <3>2. ~auth' => PasswordWanted /\ ~auth
      BY <3>1
    <3>3. PasswordWanted /\ ~auth => authOn' = TRUE
      BY <2>5 DEF Accept, StartAuthTimer
    <3>4. QED
      BY <3>2, <3>3
  <2>6. CASE Exchange
    BY <1>4, <2>6 DEF Exchange
  <2>7. ASSUME NEW right \in BOOLEAN, PasswordSeen(right) PROVE TimerRuns'
    BY <2>7 DEF PasswordSeen
  <2>8. ASSUME NEW ok \in BOOLEAN, Reopen(ok) PROVE TimerRuns'
    <3>1. sr' # "established"
      BY <2>8 DEF Reopen, Pass
    <3>2. QED
      BY <3>1
  <2>9. ASSUME NEW setUp \in BOOLEAN, NEW ok \in BOOLEAN, ReopenTls(setUp, ok)
        PROVE  TimerRuns'
    BY <2>9 DEF ReopenTls
  <2>10. CASE ReopenUdp
    BY <2>10 DEF ReopenUdp
  <2>11. QED
    BY <1>4, <2>1, <2>2, <2>3, <2>4, <2>5, <2>6, <2>7, <2>8, <2>9, <2>10 DEF Main
<1>5. QED
  BY <1>1, <1>2, <1>3, <1>4 DEF Next

\* No connection that owes the password is without its deadline: what
\* PasswordDeadline needs besides a main loop that sees the timer in time.
THEOREM TimerCorrect == Spec => []TimerRuns
<1>1. Init => TimerRuns
  BY DEF Init, TimerRuns
<1>2. QED
  BY <1>1, TimerInductive, PTL DEF Spec

-----------------------------------------------------------------------------
(* AT mode                                                                 *)

\* The state ST_ATMODE is there only in AT mode, and where no EX command comes
\* over the network AT mode has no socket.
OfflineInv ==
  /\ status = "at" => opmode = "at"
  /\ ~NetworkEx /\ opmode = "at" => sr = "closed" /\ ~dialing

LEMMA OfflineInductive == TypeOK /\ OfflineInv /\ [Next]_vars => OfflineInv'
<1> USE DEF OfflineInv, switch, socket, context
<1>1. OfflineInv /\ UNCHANGED vars => OfflineInv'
  BY DEF vars
<1>2. ASSUME OfflineInv, Env PROVE OfflineInv'
  BY <1>2 DEF Env, PeerConnect, Answer, NoAnswer, PeerClose, PeerReset, Peer
<1>3. ASSUME OfflineInv, Interrupt PROVE OfflineInv'
  BY <1>3 DEF Interrupt, Tick, TickSec, SerialByte, TriggerCode
<1>4. ASSUME TypeOK, OfflineInv, Main PROVE OfflineInv'
  <2>1. CASE SwitchToAt
    BY <2>1 DEF SwitchToAt, Terminate, Release
  <2>2. CASE ExitAt
    BY <2>2 DEF ExitAt
  <2>3. CASE NetworkToAt
    BY <2>3 DEF NetworkToAt
  <2>4. CASE OpCommand
    BY <1>4, <2>4 DEF OpCommand, SetMode, Terminate
  <2>5. CASE DialUp \/ DialFails
    <3>1. dialing /\ ~dialing' /\ opmode' = opmode /\ status' = status
      BY <2>5 DEF DialUp, DialFails
    <3>2. ~NetworkEx => opmode # "at"
      BY <1>4, <3>1
    <3>3. QED
      BY <1>4, <3>1, <3>2
  \* every other action is part of a pass of do_seg in gateway mode
  <2>6. ASSUME opmode = "gw", opmode' = opmode, status' \in {status, "open", "connect", "udp"}
        PROVE  OfflineInv'
    <3>1. status # "at"
      BY <1>4, <2>6
    <3>2. QED
      BY <2>6, <3>1
  <2>7. ASSUME NEW skip \in BOOLEAN, Connect(skip) PROVE OfflineInv'
    BY <2>6, <2>7 DEF Connect, Pass
  <2>8. CASE MixedListen \/ AuthTimeout \/ InactivityTimeout \/ PeerHasClosed
    BY <2>6, <2>8 DEF MixedListen, AuthTimeout, InactivityTimeout, PeerHasClosed,
                      Connected, Pass
  <2>9. CASE Accept \/ Exchange
    BY <2>6, <2>9 DEF Accept, Exchange, Connected, Pass
  <2>10. ASSUME NEW right \in BOOLEAN, PasswordSeen(right) PROVE OfflineInv'
    BY <2>6, <2>10 DEF PasswordSeen, Connected, Pass
  <2>11. ASSUME NEW ok \in BOOLEAN, Reopen(ok) PROVE OfflineInv'
    BY <2>6, <2>11 DEF Reopen, Pass, set_device_status_open
  <2>12. ASSUME NEW setUp \in BOOLEAN, NEW ok \in BOOLEAN, ReopenTls(setUp, ok)
         PROVE  OfflineInv'
    <3>1. opmode = "gw" /\ opmode' = opmode
      BY <2>12 DEF ReopenTls, Pass
    <3>2. status' \in {status, "open"}
      BY <2>12 DEF ReopenTls, set_device_status_open
    <3>3. QED
      BY <2>6, <3>1, <3>2
  <2>13. CASE ReopenUdp
    BY <2>6, <2>13 DEF ReopenUdp, Pass
  <2>14. QED
    BY <1>4, <2>1, <2>2, <2>3, <2>4, <2>5, <2>7, <2>8, <2>9, <2>10, <2>11, <2>12,
       <2>13 DEF Main
<1>5. QED
  BY <1>1, <1>2, <1>3, <1>4 DEF Next

\* Where no EX command can come over the network in gateway mode, the state
\* ST_ATMODE does mean "TCP connection state: disconnected": the EX command is
\* the only way around process_socket_termination.
THEOREM OfflineCorrect == Spec => [](~NetworkEx => AtModeIsOffline)
<1>1. Init => TypeOK /\ OfflineInv
  BY Bounds, TcpAssumption DEF Init, TypeOK, OfflineInv
<1>2. OfflineInv => (~NetworkEx => AtModeIsOffline)
  BY DEF OfflineInv, AtModeIsOffline
<1>3. QED
  BY <1>1, <1>2, TypeInductive, OfflineInductive, PTL DEF Spec
=============================================================================
