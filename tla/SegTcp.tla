------------------------------- MODULE SegTcp -------------------------------
(***************************************************************************)
(* The life of the gateway's socket: proc_SEG_tcp_client, _server, _mixed, *)
(* proc_SEG_udp, proc_SEG_tcp_client_over_tls and proc_SEG_mqtt_client, the *)
(* mode switch of do_seg, the EX and OP commands, and the timers of        *)
(* seg_timer_msec and seg_timer_sec.  A pass of do_seg looks at the socket *)
(* state once and is one action; over an established connection it is cut  *)
(* into its parts, each of which the code guards by itself.  The TLS and   *)
(* MQTT clients wait for their connection inside the pass.  The peer, the  *)
(* chip and the interrupts act in between.                                 *)
(*                                                                         *)
(* The data paths called from the passes are in SerialToNet and            *)
(* NetToSerial; keep-alive packets change nothing here.                    *)
(***************************************************************************)
EXTENDS Integers

CONSTANTS
  Mode,         \* working modes looked at
  Password,     \* pw_connect_en
  NetworkEx,    \* an EX command may come over the network in gateway mode
  Reconnection, \* tcp_option.reconnection, ms
  Inactivity,   \* tcp_option.inactivity, s
  AuthLimit,    \* MAX_CONNECTION_AUTH_TIME
  Wrap          \* 2^16: the timers are uint16_t

ASSUME TcpAssumption ==
  /\ Mode \subseteq {"client", "server", "mixed", "udp", "tls", "mqtt"}
  /\ {Password, NetworkEx} \subseteq BOOLEAN
  /\ Wrap \in Nat \ {0}
  /\ Reconnection \in 0 .. Wrap - 1 /\ Inactivity \in 0 .. Wrap - 1
  /\ AuthLimit \in 0 .. Wrap - 1

VARIABLES
  mode,      \* working_mode
  opmode,    \* "gw" or "at"
  status,    \* working_state: "open", "connect", "udp" or "at"
  mixed,     \* mixed_state: "server" or "client"
  sr, irCon, \* Sn_SR and Sn_IR_CON of the socket
  dialing,   \* the main loop waits in wiz_tls_connect_timeout, or in
             \* ConnectNetwork and MQTTConnect
  tls,       \* wiz_tls_init_state
  ctx,       \* s2e_tlsContext is set up and not freed
  serial,    \* the ring buffer holds bytes
  sw,        \* sw_modeswitch_at_mode_on
  auth,      \* flag_connect_pw_auth
  recOn, recTime,     \* enable_reconnection_timer, reconnection_time
  authOn, authTime,   \* enable_connection_auth_timer, connection_auth_time
  inactOn, inactTime, \* enable_inactivity_timer, inactivity_time
  since      \* history: ms since the last connect() in this working mode,
             \* up to Reconnection

switch == <<opmode, sw>>
socket == <<sr, irCon>>
context == <<dialing, tls, ctx>>
timers == <<recOn, recTime, authOn, authTime, inactOn, inactTime>>
vars == <<mode, opmode, status, mixed, sr, irCon, dialing, tls, ctx, serial, sw,
          auth, recOn, recTime, authOn, authTime, inactOn, inactTime, since>>

Init ==
  /\ mode \in Mode
  /\ opmode = "gw" /\ status = "open" /\ mixed = "server"
  /\ sr = "closed" /\ irCon = FALSE
  /\ dialing = FALSE /\ tls = FALSE /\ ctx = FALSE
  /\ serial = FALSE /\ sw = FALSE /\ auth = FALSE
  /\ recOn = FALSE /\ authOn = FALSE /\ inactOn = FALSE
  /\ recTime = 0 /\ authTime = 0 /\ inactTime = 0
  /\ since = Reconnection

-----------------------------------------------------------------------------
(* The chip and the peer                                                   *)

Peer(from, to) ==
  /\ sr \in from
  /\ sr' = to
  /\ irCon' = (irCon \/ to = "established")
  /\ UNCHANGED <<mode, opmode, status, mixed, serial, sw, auth, since>>
  /\ UNCHANGED timers /\ UNCHANGED context

PeerConnect == Peer({"listen"}, "established")
Answer == Peer({"synsent"}, "established")
NoAnswer == Peer({"synsent"}, "closed")
PeerClose == Peer({"established"}, "closewait")
PeerReset == Peer({"established", "closewait", "finwait"}, "closed")

-----------------------------------------------------------------------------
(* The interrupts                                                          *)

CountedNoWrap(on, t) == IF on THEN t + 1 ELSE t
Counted(on, t) == IF on THEN (t + 1) % Wrap ELSE t

\* seg_timer_msec
Tick ==
  /\ recTime' = Counted(recOn, recTime)
  /\ authTime' = Counted(authOn, authTime)
  /\ since' = IF since < Reconnection THEN since + 1 ELSE since
  /\ UNCHANGED <<mode, status, mixed, serial, auth, recOn, authOn, inactOn,
                 inactTime>>
  /\ UNCHANGED switch /\ UNCHANGED socket /\ UNCHANGED context

\* seg_timer_sec
TickSec ==
  /\ inactOn /\ inactTime < Wrap - 1
  /\ inactTime' = inactTime + 1
  /\ UNCHANGED <<mode, status, mixed, serial, auth, recOn, recTime, authOn,
                 authTime, inactOn, since>>
  /\ UNCHANGED switch /\ UNCHANGED socket /\ UNCHANGED context

\* check_serial_store_permitted
SerialByte ==
  /\ status # "open" \/ mode = "mixed"
  /\ serial' = TRUE
  /\ UNCHANGED <<mode, status, mixed, auth, since>>
  /\ UNCHANGED switch /\ UNCHANGED socket /\ UNCHANGED timers /\ UNCHANGED context

\* the trigger code was recognised; after an EX over the network also late
TriggerCode ==
  /\ opmode = "gw" \/ NetworkEx
  /\ sw' = TRUE
  /\ UNCHANGED <<mode, opmode, status, mixed, serial, auth, since>>
  /\ UNCHANGED socket /\ UNCHANGED timers /\ UNCHANGED context

-----------------------------------------------------------------------------
(* The mode switch and the working mode                                    *)

\* process_socket_termination, which leaves a closed socket alone
Terminate == sr' = "closed" /\ irCon' = (irCon /\ sr = "closed")

\* if(get_wiz_tls_init_state() == ENABLE): wiz_tls_deinit, and the flag is reset
ReleaseFlagKept == ctx' = (ctx /\ ~tls) /\ UNCHANGED <<tls, dialing>>
Release == ctx' = (ctx /\ ~tls) /\ tls' = FALSE /\ UNCHANGED dialing

StopInactivity ==
  /\ inactOn' = FALSE /\ inactTime' = 0
  /\ UNCHANGED <<recOn, recTime, authOn, authTime>>

\* do_seg: process_socket_termination, then init_trigger_modeswitch
SwitchToAt ==
  /\ opmode = "gw" /\ sw /\ ~dialing
  /\ Terminate /\ Release
  /\ opmode' = "at" /\ status' = "at" /\ sw' = FALSE
  /\ serial' = FALSE
  /\ StopInactivity
  /\ UNCHANGED <<mode, mixed, auth, since>>

\* segcp_ret_handler for EX in AT mode
ExitAt ==
  /\ opmode = "at"
  /\ opmode' = "gw" /\ status' = "open"
  /\ mixed' = IF mode = "mixed" THEN "server" ELSE mixed
  /\ serial' = FALSE
  /\ StopInactivity
  /\ UNCHANGED <<mode, sw, auth, since>> /\ UNCHANGED socket /\ UNCHANGED context

\* segcp_ret_handler for an EX from the network in gateway mode: the socket is
\* left as it is
NetworkToAt ==
  /\ NetworkEx /\ opmode = "gw" /\ ~dialing
  /\ opmode' = "at" /\ status' = "at"
  /\ serial' = FALSE
  /\ StopInactivity
  /\ UNCHANGED <<mode, mixed, sw, auth, since>> /\ UNCHANGED socket
  /\ UNCHANGED context

\* OP, from the serial line or the network: the mode counts from the next pass on,
\* and finds status, mixed state, flags and timers of the old one
SetModeOnly(m) ==
  /\ ~dialing /\ mode' = m
  /\ since' = IF m = mode THEN since ELSE Reconnection
  /\ UNCHANGED <<status, mixed, serial, auth>>
  /\ UNCHANGED switch /\ UNCHANGED timers /\ UNCHANGED context /\ UNCHANGED socket
SetMode(m) ==
  /\ ~dialing
  /\ Terminate /\ mode' = m
  /\ since' = IF m = mode THEN since ELSE Reconnection
  /\ UNCHANGED <<status, mixed, serial, auth>>
  /\ UNCHANGED switch /\ UNCHANGED timers /\ UNCHANGED context

OpCommand == \E m \in Mode : SetMode(m)

-----------------------------------------------------------------------------
(* One pass of do_seg, by the state of the socket                          *)

Pass(state) == opmode = "gw" /\ ~sw /\ ~dialing /\ sr \in state

Close == sr' = "closed" /\ irCon' = FALSE

Dials == mode \in {"client", "tls", "mqtt"}

ConnectDueAtOnce == TRUE
ConnectDue == recTime >= Reconnection

\* SOCK_INIT of the clients; skip is the answer of check_tcp_connect_exception or
\* an immediate failure of connect().  The sockets of TLS and MQTT block
Connect(skip) ==
  /\ Pass({"init"}) /\ Dials
  /\ ConnectDue
  /\ recTime' = 0
  /\ IF skip THEN UNCHANGED <<sr, since, dialing>>
              ELSE sr' = "synsent" /\ since' = 0 /\ dialing' = (mode # "client")
  /\ UNCHANGED <<mode, status, mixed, irCon, serial, auth, recOn, authOn,
                 authTime, inactOn, inactTime, tls, ctx>>
  /\ UNCHANGED switch

\* the TLS handshake, or the MQTT session, is there; the connection may already
\* be over again
DialUp ==
  /\ dialing /\ irCon
  /\ dialing' = FALSE
  /\ UNCHANGED <<mode, status, mixed, serial, auth, since, tls, ctx>>
  /\ UNCHANGED switch /\ UNCHANGED socket /\ UNCHANGED timers

\* no connection, a failed handshake, or no answer in time
DialFails ==
  /\ dialing /\ sr # "synsent"
  /\ dialing' = FALSE
  /\ IF mode = "tls"
     THEN Terminate /\ ctx' = (ctx /\ ~tls) /\ tls' = FALSE
     ELSE sr' = "closed" /\ irCon' \in {FALSE, irCon} /\ UNCHANGED <<tls, ctx>>
  /\ UNCHANGED <<mode, status, mixed, serial, auth, since>>
  /\ UNCHANGED switch /\ UNCHANGED timers

\* SOCK_INIT in mixed mode: the code compares the array mixed_state, not its
\* element, with MIXED_CLIENT (1); the branch that connects is never taken.

\* SOCK_LISTEN in mixed mode with bytes from the serial line
MixedListen ==
  /\ Pass({"listen"}) /\ mode = "mixed"
  /\ mixed = "server" /\ serial
  /\ Close
  /\ mixed' = "client"
  /\ recTime' = Reconnection
  /\ UNCHANGED <<mode, status, serial, auth, recOn, authOn, authTime, inactOn,
                 inactTime, since>>
  /\ UNCHANGED switch /\ UNCHANGED context

\* this connection has to give the password
PasswordWanted ==
  Password /\ (mode = "server" \/ (mode = "mixed" /\ mixed = "server"))

StartAuthTimerNot == UNCHANGED <<authOn, authTime>>
StartAuthTimer == authOn' = TRUE /\ authTime' = 0

\* SOCK_ESTABLISHED with Sn_IR_CON, once for a connection
Accept ==
  /\ Pass({"established"}) /\ irCon
  /\ irCon' = FALSE
  /\ status' = "connect"
  /\ inactOn' = (inactOn \/ (inactTime = 0 /\ Inactivity # 0))
  /\ auth' = (auth \/ ~PasswordWanted)
  /\ IF PasswordWanted /\ (mode = "server" \/ ~auth)
     THEN StartAuthTimer
     ELSE UNCHANGED <<authOn, authTime>>
  /\ IF Dials /\ recOn THEN recOn' = FALSE /\ recTime' = 0
     ELSE UNCHANGED <<recOn, recTime>>
  /\ serial' = (serial /\ mode = "mixed" /\ mixed = "client")
  /\ mixed' = IF mode = "mixed" THEN "server" ELSE mixed
  /\ UNCHANGED <<mode, sr, inactTime, since>> /\ UNCHANGED switch
  /\ UNCHANGED context

Connected == Pass({"established"}) /\ ~irCon

\* uart_to_ether or ether_to_uart moves data; uart_to_ether may leave bytes
Exchange ==
  /\ Connected \/ Pass({"udp"})
  /\ serial' \in {FALSE, serial} /\ inactTime' = 0
  /\ UNCHANGED <<mode, status, mixed, auth, recOn, recTime, authOn, authTime,
                 inactOn, since>>
  /\ UNCHANGED switch /\ UNCHANGED socket /\ UNCHANGED context

\* ether_to_uart compares working_state with TCP_SERVER_MODE and TCP_MIXED_MODE,
\* the values of ST_OPEN and ST_CONNECT, and mixed_state in any mode.
PasswordAsked ==
  /\ Password /\ ~auth
  /\ status = "open" \/ (status = "connect" /\ mixed = "server")

\* check_connect_pw_auth; a wrong password leads to disconnect()
PasswordSeen(right) ==
  /\ Connected /\ PasswordAsked
  /\ auth' = right
  /\ sr' = IF right THEN sr ELSE "finwait"
  /\ inactTime' = 0
  /\ UNCHANGED <<mode, status, mixed, irCon, serial, recOn, recTime, authOn,
                 authTime, inactOn, since>>
  /\ UNCHANGED switch /\ UNCHANGED context

AuthTimeout ==
  /\ Connected /\ PasswordWanted /\ ~auth /\ authTime >= AuthLimit
  /\ Close
  /\ authOn' = FALSE /\ authTime' = 0
  /\ UNCHANGED <<mode, status, mixed, serial, auth, recOn, recTime, inactOn,
                 inactTime, since>>
  /\ UNCHANGED switch /\ UNCHANGED context

\* what a pass that closes a connection does to the TLS context
LeaveTls == IF mode = "tls" THEN Release ELSE UNCHANGED context

InactivityTimeout ==
  /\ Connected /\ inactOn /\ inactTime >= Inactivity
  /\ Close /\ LeaveTls
  /\ mixed' = IF mode = "mixed" THEN "server" ELSE mixed
  /\ UNCHANGED <<mode, status, serial, auth, since>>
  /\ UNCHANGED switch /\ UNCHANGED timers

\* SOCK_CLOSE_WAIT: the rest is received, and may be asked for the password,
\* then process_socket_termination; for MQTT disconnect() alone
PeerHasClosed ==
  /\ Pass({"closewait"})
  /\ sr' = "closed" /\ irCon' \in IF mode = "mqtt" THEN {FALSE, irCon} ELSE {FALSE}
  /\ LeaveTls
  /\ auth' \in IF PasswordAsked THEN {auth, TRUE} ELSE {auth}
  /\ inactTime' \in {0, inactTime}
  /\ UNCHANGED <<mode, status, mixed, serial, recOn, recTime, authOn, authTime,
                 inactOn, since>>
  /\ UNCHANGED switch

set_device_status_kept == UNCHANGED status
set_device_status_open == status' = "open"

ClearTimers ==
  /\ authOn' = FALSE /\ authTime' = 0
  /\ inactOn' = FALSE /\ inactTime' = 0

reset_SEG_timeflags_no_auth == ClearTimers /\ UNCHANGED auth
reset_SEG_timeflags == ClearTimers /\ auth' = FALSE

\* the socket opened is for connect()
Calls == Dials \/ (mode = "mixed" /\ mixed = "client")

EnableNever(ok) == UNCHANGED recOn
EnableReconnection(ok) == recOn' = (recOn \/ (ok /\ Calls /\ Reconnection # 0))

\* SOCK_CLOSED and SOCK_FIN_WAIT: set_device_status, reset_SEG_timeflags (not
\* for a mixed client), socket(), which may fail, and listen()
Reopen(ok) ==
  /\ Pass({"closed", "finwait"}) /\ mode \notin {"udp", "tls"}
  /\ set_device_status_open
  /\ IF mode = "mixed" /\ mixed = "client"
     THEN UNCHANGED <<auth, authOn, authTime, inactOn, inactTime>>
     ELSE reset_SEG_timeflags
  /\ sr' = IF ~ok THEN IF mode = "server" THEN "closed" ELSE sr
           ELSE IF Calls THEN "init" ELSE "listen"
  /\ irCon' = (irCon /\ ~ok /\ mode # "server")
  /\ EnableReconnection(ok)
  /\ UNCHANGED <<mode, mixed, serial, recTime, since>> /\ UNCHANGED switch
  /\ UNCHANGED context

\* the same for TLS: the old context is released and a new one set up before the
\* socket is opened; a context that gets no socket is left behind.  Nothing is
\* reset when it cannot be set up
ReopenTls(setUp, ok) ==
  /\ Pass({"closed", "finwait"}) /\ mode = "tls"
  /\ irCon' = FALSE /\ sr' = IF setUp /\ ok THEN "init" ELSE "closed"
  /\ ctx' = setUp /\ tls' = (setUp /\ ok)
  /\ IF setUp THEN set_device_status_open /\ reset_SEG_timeflags
              ELSE UNCHANGED <<status, auth, authOn, authTime, inactOn, inactTime>>
  /\ EnableReconnection(setUp /\ ok)
  /\ UNCHANGED <<mode, mixed, serial, recTime, since, dialing>> /\ UNCHANGED switch

\* socket() for UDP does not fail
ReopenUdp ==
  /\ Pass({"closed"}) /\ mode = "udp"
  /\ sr' = "udp" /\ irCon' = FALSE /\ status' = "udp" /\ serial' = FALSE
  /\ UNCHANGED <<mode, mixed, auth, since>>
  /\ UNCHANGED switch /\ UNCHANGED timers /\ UNCHANGED context

Env == PeerConnect \/ Answer \/ NoAnswer \/ PeerClose \/ PeerReset

Interrupt == Tick \/ TickSec \/ SerialByte \/ TriggerCode

Main ==
  \/ SwitchToAt \/ ExitAt \/ NetworkToAt \/ OpCommand
  \/ \E skip \in BOOLEAN : Connect(skip)
  \/ DialUp \/ DialFails
  \/ MixedListen \/ Accept \/ Exchange
  \/ \E right \in BOOLEAN : PasswordSeen(right)
  \/ AuthTimeout \/ InactivityTimeout \/ PeerHasClosed
  \/ \E ok \in BOOLEAN : Reopen(ok)
  \/ \E setUp, ok \in BOOLEAN : ReopenTls(setUp, ok)
  \/ ReopenUdp

Next == Env \/ Interrupt \/ Main

Spec == Init /\ [][Next]_vars

\* Timers tick, the chip gives up on a connect, mbedTLS and MQTTConnect on a
\* silent server, and the main loop comes to every pass; it comes often enough to
\* see a timer before it wraps, and DNS, socket() and wiz_tls_init() do not fail
\* for ever.
Fairness ==
  /\ WF_vars(Tick) /\ WF_vars(Answer \/ NoAnswer) /\ WF_vars(DialUp \/ DialFails)
  /\ WF_vars(SwitchToAt) /\ WF_vars(Accept) /\ WF_vars(MixedListen)
  /\ WF_vars(PeerHasClosed)
  /\ SF_vars(AuthTimeout) /\ SF_vars(Connect(FALSE)) /\ SF_vars(Reopen(TRUE))
  /\ SF_vars(ReopenTls(TRUE, TRUE))

FairSpec == Spec /\ Fairness

-----------------------------------------------------------------------------
(* Every variable holds a value of its C type and of its role.             *)
TypeOK ==
  /\ mode \in Mode
  /\ opmode \in {"gw", "at"}
  /\ status \in {"open", "connect", "udp", "at"}
  /\ mixed \in {"server", "client"}
  /\ sr \in {"closed", "init", "listen", "synsent", "established",
             "closewait", "finwait", "udp"}
  /\ dialing \in BOOLEAN /\ tls \in BOOLEAN /\ ctx \in BOOLEAN
  /\ irCon \in BOOLEAN /\ serial \in BOOLEAN /\ sw \in BOOLEAN
  /\ auth \in BOOLEAN
  /\ recOn \in BOOLEAN /\ authOn \in BOOLEAN /\ inactOn \in BOOLEAN
  /\ recTime \in 0 .. Wrap - 1 /\ authTime \in 0 .. Wrap - 1
  /\ inactTime \in 0 .. Wrap - 1
  /\ since \in 0 .. Reconnection

\* While the program believes to be connected, and so stores serial bytes for
\* the peer, the socket is or was in a connection that the program has taken
\* over: no new connection can begin before the state is reset.
NoStaleConnect ==
  status = "connect" =>
    sr \in {"established", "closewait", "finwait", "closed"} /\ ~irCon

\* The password flag does not survive a connection: a server, or a device in
\* mixed mode, that asks for a password waits for and begins every connection
\* without it, also the first one after another working mode.
AuthIsFresh ==
  (mode \in {"server", "mixed"} /\ Password) =>
    (sr = "listen" \/ (sr = "established" /\ irCon) => ~auth)

\* The socket is always one the working mode knows what to do with: an OP command
\* in the middle of a connection leaves no listening, calling or UDP socket to a
\* mode that would take it for its own or never touch it again.
SocketFitsMode ==
  /\ sr = "udp" => mode = "udp"
  /\ sr = "listen" => mode \in {"server", "mixed"}
  /\ sr = "init" => mode \notin {"server", "udp"}
  /\ sr = "synsent" => Dials
  /\ mode = "udp" => sr \in {"closed", "udp"}
  /\ dialing => mode \in {"tls", "mqtt"}

\* s2e_tlsContext is freed once for each time it was set up, and whatever comes
\* between, mode changes and AT mode included, it is set up whenever a TLS socket
\* is open, so that no handshake, read, write or close_notify finds it freed.
ContextLive ==
  /\ tls => ctx
  /\ mode = "tls" /\ sr # "closed" => tls

\* Two calls of connect() are at least the reconnection time apart, through
\* failures, connections and mode switches, as long as the working mode is the
\* same.
ConnectPaced ==
  [][sr = "init" /\ sr' = "synsent" => since = Reconnection]_vars

\* set_device_status: "ST_ATMODE // TCP connection state: disconnected".
AtModeIsOffline == status = "at" => sr # "established"

\* When nobody changes the working mode any more, a client that is not connected,
\* by TCP, TLS or MQTT, tries again and a server listens again, unless the device
\* is put into AT mode.
BackInService ==
  <>[][~OpCommand]_vars =>
    /\ (Dials /\ opmode = "gw" /\ sr # "established")
         ~> (sr \in {"synsent", "established"} \/ opmode = "at" \/ ~Dials)
    /\ (mode = "server" /\ opmode = "gw" /\ sr # "established")
         ~> (sr \in {"listen", "established"} \/ opmode = "at" \/ mode # "server")

\* A peer that does not give the password does not keep the connection.
PasswordDeadline ==
  (mode = "server" /\ Password /\ opmode = "gw" /\ sr = "established" /\ ~auth)
    ~> (auth \/ sr # "established" \/ opmode = "at")

\* proc_SEG_tcp_mixed: "UART Rx interrupt detection in MIXED_SERVER mode =>
\* Switch to MIXED_CLIENT mode"; a mixed client then connects.
MixedClientConnects ==
  (mode = "mixed" /\ mixed = "client" /\ opmode = "gw")
    ~> (sr \in {"synsent", "established"} \/ opmode = "at")
=============================================================================
