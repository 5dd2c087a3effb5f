# A verification project for the WIZ510SSL serial-to-Ethernet gateway

The firmware under `src/S2E_SSL_Platform` joins a serial line to one TCP (or
UDP, TLS, MQTT) socket of a W5100S chip. This directory holds TLA+ modules of
its core, TLC runs over small instances, and TLAPS proofs for all instances.
Paths below are relative to `src/S2E_SSL_Platform`, those of the two `main`
programs to `src`; `seg.c` is `Serial_to_Ethernet/seg.c`.

## 1. The system

### Who runs

* **The secure image** (`Secure/Core/Src/main.c`) runs first, reads which firmware
  bank the stored configuration names and jumps into it.
* **The main loop** (`NonSecure/Core/Src/main.c:256`) calls `do_segcp`, then
  `do_seg`, then the DHCP handler, and kicks the watchdog. It never blocks by
  design, but several loops inside wait for something (below).
* **The USART interrupt** (`PlatformHandler/uartHandler.c:137`) handles one
  received byte.
* **The 1 ms timer interrupt** (`PlatformHandler/timerHandler.c:111`) counts
  all timers, every 999th tick the timers in seconds, and how long the factory
  button is held; after five seconds it saves the factory values and restarts.
* **The peer, the network and the chip** change the socket's state at any time.

All interrupts have NVIC priority 0, so a handler is never preempted by
another; the main loop is preempted anywhere. The modules take each handler as
one step and cut the main loop at every access to shared state. The factory reset
is the exception: it writes flash inside the interrupt and is cut into its steps,
because power can fail between them.

### Components, their state and operations

| Component | State | Operations | Correct when | Module |
|---|---|---|---|---|
| Serial receive path | ring `data0_rx`, trigger detector, mode-switch timer | byte received, tick, read, flush, mode switch | no byte lost, repeated or reordered; a trigger is recognised only as configured; held bytes go back unchanged | ByteRing, SerialRx |
| Serial to network | `g_send_buf`, `u2e_size`, packing timer and flag | `get_serial_data`, `uart_to_ether` | the stream is kept over refused sends; packets are cut as configured; no wait for a byte that is not there | SerialToNet |
| Network to serial | `g_recv_buf`, `e2u_size`, password flag, XON, DSR | `ether_to_uart`, `check_connect_pw_auth` | the stream is kept; nothing comes out before the password; a closed connection ends | NetToSerial |
| TCP, UDP, TLS and MQTT life cycle | socket state, `working_mode`, `working_state`, `mixed_state`, timers, TLS context and its flag | `proc_SEG_*`, `do_seg`, `process_socket_termination`, EX, OP | state, flags and context never outlive a connection or fall behind a change of mode; connect() is paced; the device comes back into service | SegTcp |
| Configuration protocol | three sources, one result word, `dev_config` in RAM | UDP, TCP and AT commands, `segcp_ret_handler` | a round ends; what is saved is what was set | ConfigStore (EX, OP: SegTcp; command lines: SerialRx) |
| Configuration storage | one flash page, the certificate's page | load, save (erase, write, verify, retry), factory reset, upload | a start finds the old record, the new one or none, never a torn one | ConfigStore, ConfigCell |
| Firmware update | download socket, page buffer, two firmware banks, `current_bank` | `device_bank_update`, `get_firmware_from_network`, start | a bank is started only when it holds an image; the image is what was sent | FirmwareUpdate, ConfigStore |
| DHCP, DNS | lease, `g_send_buf` | `process_dhcp`, `DHCP_run`, `process_dns` | no packet of the gateway destroyed | not modelled |
| Output flow control | XOFF sent or not | `check_uart_flow_control` | the line is stopped before the ring is full, and started again | not modelled |
| GPIO | factory button, DSR, LEDs | pin interrupts, I/O | the button is heard | ConfigStore, NetToSerial; LEDs not modelled |
| HAL, PHY, TrustZone set-up | registers | I/O | – | not modelled |

### How they interact

The interrupts hand bytes to the main loop through the ring and requests
through `sw_modeswitch_at_mode_on`. `working_state` tells the USART interrupt
whether to store a byte; the main loop sets it when connections come and go.
`do_seg` and the commands (`EX`) both switch the operation mode by
`init_trigger_modeswitch`; the command `OP` closes the socket and changes the
working mode under whatever the gateway was doing. The two data paths and the
life cycle share the socket, the password flag and `inactivity_time`.

The commands of a round end in one result word, which `segcp_ret_handler` turns
into a save, a factory reset, an update or a restart. A save and the factory
reset in the timer interrupt write the same page; `current_bank` in it decides
which bank an update erases and which one the next start jumps into.

### What is hard here

Flushing the ring is two writes with an interrupt in between. The detector puts
bytes back into a ring it does not ask for room. A reconnection changes the gap
time in the middle of a trigger code. The socket changes state between the
reading of its status, its size and its data. Timers wrap. `socket()`,
`connect()` and `send()` fail, and the pass is repeated with whatever flags the
failed one left. A reset cuts a save, an upload or a download off at any step; a
failed flash write leaves interrupts disabled; an update goes on over several
connections that each count from zero. `PROJECT.json` lists every such place as a hazard, at its line,
with the properties that cover it or the reason why none does yet.

## 2. The modules

**ByteRing** — the macros `BUFFER_*` of `uartHandler.h`: indices, used and free
size, storing and what is unread. `Size > 4` is its one assumption: an
interrupt stores at most a restored code and one byte.

**ByteFifo** — the abstract promise of the receive path: a queue with the
detector in front of it. A byte of the line is put into the queue or held back; a byte
that does not fit the code releases what is held, in order and in front of
itself, and a complete code is taken out. The oldest byte is read, and a flush
empties the queue. The promise is one of order, and that no byte taken in comes out
twice: a byte that is not taken in at all, refused by flow control or a full ring
or swallowed by the detector, is a stuttering step. What the detector may swallow
is the matter of `HeldBackCorrect` and of the violated `OnlyTriggerHeldBack`. The
promise is kept from each flush to the next overrun. Behind an overrun nothing can be promised: a
restore that closes the circle while `uart_getc` is between its two halves leaves
the indices equal, and the advance of the read index then makes all old bytes but
one unread again.

**SerialRx** — both interrupt handlers over ring and detector, and the main
loop with a program counter `pc`. `RxByte` has one disjunct per answer of
`check_modeswitch_trigger` and includes the storing; `seg_timer_msec` has one per
outcome of the mode-switch timer. In the main loop `GetByte` and `GetMove` are
the two halves of `uart_getc`, `FlushWr` and `FlushRd` those of `BUFFER_CLEAR`,
`SwitchBegin` to `SwitchClearSw` the writes of `init_trigger_modeswitch` and of
`do_seg` after it. In which order the main loop comes to `Connect`, `Reopen`,
reads and commands depends on the socket and is left open, which contains what
the code does.

**SerialRxHistory** — SerialRx with history variables (how much of the trigger
code the line has just carried, how long it was silent, whether the reader was
overrun since the last flush), and the properties stated with them, among them
that the ring implements ByteFifo (`RingIsFifo`).

**SerialToNet** — `get_serial_data` and `uart_to_ether`. The ring is the queue
SerialRx implements: both modules are joined at ByteFifo, this one using it
(`RingUsed`), that one providing it (`RingRefinesFifo`). One action per decision: how many bytes are counted
on (`GetBegin`), the look at a delimiter when the buffer is nearly full
(`Peek`), a round of the loop (`ReadByte`), the end of it (`ReadDone`, `ClearElapsed`),
and the two outcomes of `send()`. Bytes and ticks come in between.

**NetToSerial** — `ether_to_uart` for a server and a client. Size, socket
state, `recv()`, password and output are separate steps, because the peer and the
serial interrupt act in between. `RecvError` is the early return of `recv()` in
`src/ioLibrary_Driver/Ethernet/socket.c`.

**SegTcp** — the socket's life in the six working modes without MQTTS. A pass of
`do_seg` reads the socket state once and is one action, chosen by that state;
the pass over an established connection is cut into the parts the code guards
separately (`Accept`, `Exchange`, `PasswordSeen`, `AuthTimeout`,
`InactivityTimeout`), so other steps may come between them: this only adds
behaviours. The TLS and MQTT clients wait for their connection inside a pass:
`dialing` holds the main loop there until `DialUp` or `DialFails`. `tls` is the
program's flag and `ctx` whether the TLS context is really set up. `OpCommand`
is the whole effect of `OP`: nothing but the socket and `working_mode` changes.
`PasswordAsked` is the condition of `ether_to_uart` as it stands: it compares
`working_state` with constants of `working_mode` and looks at `mixed_state` in
every mode. `OP` keeps `mixed_state`, so a server entered while a mixed device was
the client is not asked for the password and loses each connection at the deadline
of the password timer.
The timers have width `Wrap`.

**ConfigCell** — the abstract promise of the storage: a cell that only a save
writes, and that holds the old record, nothing or the new record until the save
is over.

**ConfigStore** — from a reset to the main loop (`Boot`, `Load`, `LoadFactory`,
`LinkUp`), a round of `do_segcp` with the result word, `segcp_ret_handler`, and the
one writer all of them share: `EraseConfig`, then a `ProgramWord` per
double word, then `Compare`. `job` says for whom it writes (a start without a
configuration, a command, an update, an upload, the interrupt) and so where it
goes on. `PowerLoss` comes between any two steps, `EraseConfigFails`,
`ProgramFails`, `EraseCertFails` and the second disjunct of `WriteCert` are flash
operations that fail, and `FactoryISR` comes wherever
interrupts are enabled and never returns. A record is a few double words, each
tagged with the record it belongs to, so a torn page shows. The download is two
outcomes here; its steps are in FirmwareUpdate. Success puts `"image"` or
`"joined"` into the bank: `device_bank_update` compares only how many bytes were
written, and what a tool sent over several connections need not be the image
(`OneConnection`). A bank that is being written, `"partial"`, and a joined one are
taken not to start.

Between `Load` and the rounds lies the wait for the PHY link
(`NonSecure/Core/Src/main.c:139`), which has no limit and comes before the watchdog
is started: `LinkUp` ends it, and nobody has to put the cable in. The rounds that
`process_dhcp` and `process_dns` make while they wait for a server, possibly for
ever, are rounds with `wdt` still FALSE.

The history variable `pairing` follows the certificate: `"refused"` when
`rootca_len` in `dev_config` is that of a text `check_ca` refused, `"apart"` from the
save of such a length, or from the start of an upload, until an upload has written
both the record and the text.

**FirmwareUpdate** — the download loop, one action per state of the socket in
`get_firmware_from_network` and per decision of `device_bank_update`; the tool
connects, sends, closes, resets and comes back in between. A byte is its place in
what the tool sends on one connection, so a byte lost, repeated or written at
the wrong place shows. What `recv()` answers for a socket that was closed
meanwhile is kept in 16 bits and copied behind the page buffer: the model stops
in `smashed`.

**SerialRx_proofs, SerialRxHistory_proofs, SerialToNet_proofs, NetToSerial_proofs, SegTcp_proofs,
ConfigStore_proofs, FirmwareUpdate_proofs** — the theorems. **MC...** — values for TLC.

## 3. The runs

| Run | Expected | Shows |
|---|---|---|
| `serial_rx` | pass | The ring is a FIFO between flushes and overruns (`RingIsFifo`, `ByteTakenIsOldest`); only a restore can overrun it (`OverrunOnlyByRestore`); in gateway mode `uart_getc` never waits (`GatewayNeverSpins`); held bytes are a beginning of the code (`HeldIsTrigger`); a mode switch is requested only after silence, code, silence (`RequestIsDeserved`). |
| `serial_rx_swallow` | violation | The detector throws away bytes that are no trigger code after a switch left it complete (`OnlyTriggerHeldBack`). |
| `serial_to_net` | pass | The stream to the socket is kept (`StreamKept`), the bytes counted are there (`CountedIsThere`, with the exception below), packets are cut by the options (`PacketCut`), and without options data arrives (`Delivery`). |
| `serial_to_net_overflow` | violation | A byte behind the end of `g_send_buf` (`NoOverflow`). |
| `net_to_serial` | pass | Stream, password before output, data is taken, and SOCK_CLOSE_WAIT ends. |
| `net_to_serial_error` | violation | A failed `recv()` counts as more bytes than the buffer has. |
| `net_to_serial_xoff` | violation | Bytes waiting for XON are received over. |
| `seg_tcp` | pass | In six modes with OP at any moment: no stale ST_CONNECT (`NoStaleConnect`), a fresh password flag (`AuthIsFresh`), a socket the mode can handle (`SocketFitsMode`), a TLS context whenever one is used and released once (`ContextLive`), paced connect() (`ConnectPaced`), back in service, password deadline. |
| `config_store` | pass | A page that is accepted is whole (`AcceptedIsWhole`); the bank it names was written to the end (`BootBankWhole`); its length is the certificate's (`LenMatchesCert`); a save that did not write has left interrupts disabled (`FailedSaveIsDeaf`); a start gets to the wait for the cable (`StartsUp`), a round ends (`RoundEnds`), the button is heard (`ButtonIsHeard`), and the storage implements ConfigCell (`SavesAreAtomic`). |
| `firmware_update` | pass | Nothing received is lost, repeated or misplaced (`TakenIsWritten`); recv is asked for a sensible length (`AsksForSome`); nothing goes behind the bank (`StaysInBank`); success means the image, when the tool had one connection (`SuccessIsImage`); the update ends once enough has come (`UpdateEnds`). |
| `seg_tcp_mixed` | violation | A mixed client never connects: `seg.c:1483` compares an array's address. |
| `seg_tcp_network_ex` | violation | AT mode with an established connection after EX over the network. |

Each violation is listed under `findings` with the comment it contradicts. Three
of them need care in reading: `NoOverflow` needs a buffer filled to its last
byte by refused sends; `NothingLostToXoff` loses bytes, which is why
`StreamKept` follows the overwriting and requires that it never happens without
flow control; and `OnlyTriggerHeldBack` needs an EX over the network or a
reconnection while a code is half received.

Some passing properties carry an exception, and each exception is a behaviour of
the code:

* `CountedIsThere`: a pass of `get_serial_data` that has looked at a byte for the
  delimiter (`seg.c:1917`) goes on with room for one byte although the ring may be
  empty: it may wait in `uart_getc` until the next byte comes. Every other pass
  takes only bytes that are there.
* `StreamKept` of SerialToNet leaves out the byte that such a pass writes behind a
  full buffer.
* `FailedSaveIsDeaf`, `ButtonIsHeard`: interrupts left disabled by `write_flash`.
* `BootBankWhole`: a start by the PREV_BANK pin, after which `current_bank` names
  the bank that runs and no longer the one that was tested; and an update whose
  tool came back over another connection, which can be reported as success, and
  the bank switched, without the image (`"joined"`).
* `LenMatchesCert`: from the save of the length of a refused text
  (`rootca_len` is changed before the text is checked), or from the start of an
  upload, until an upload gets through.
* `StartsUp`: a start ends at the wait for the cable, where the device stays without
  one, unwatched; and it may end in a bank that does not start if no whole record
  names the bank, if the pin has chosen it, or if it is a joined one.
* `SuccessIsImage`: a tool that came back, whose second connection begins the image
  again while the update counts on.
* `UpdateEnds` names the failed `recv()`.

### Bounds and why they are enough

* `serial_rx`: a ring of five cells, two kinds of bytes (the one byte of the
  trigger `+++` and another), a gap of two ticks. Five is the
  smallest ring the assumption allows, so it fills, wraps and is overrun within
  a few bytes; all index arithmetic is modulo the size, and the proofs
  cover every size. `MCView` leaves out the ring's cells that are written before
  they are read. The run has no flow control and no delimiter: XON and XOFF bytes are not
  stored and read like data that is refused; the delimiter makes the main loop
  wait, which is the hazard listed at `seg.c:1925`. About one million states.
* `serial_to_net`: a ring of four cells and a packet buffer of three bytes, so
  that either can fill first; one delimiter and one other byte; packing time one
  tick; packing sizes below the buffer's, equal to it and above it, as PS takes
  any number up to 2048 = `DATA_BUF_SIZE`, and -1 as 65535. About 137 000 states.
* `net_to_serial`: buffers of two segments; a segment is the password or not,
  so a wrong password, a right one, one split over two segments and data after
  it all occur. `ErrSize` stands for 65529 (`SOCKERR_SOCKSTATUS` in 16 bits).
* `seg_tcp`: all six modes in one run, since OP goes from any to any;
  reconnection of two ticks, inactivity and password limits of one, timers that
  wrap at three, so they wrap before and after being looked at. About
  75 000 states: the whole graph. The two violation runs have the modes they need.
* `config_store`: a record of three double words (the first, the one with the
  settings, the last) is the least that can be torn on both sides of the data;
  two settings, one of them the hidden one, so that a save can be told from the
  factory values; two certificates of different length, so that the length of the
  one can stand beside the text of the other, and a refused text with the length of
  one of them; two tries; one command in a round, so the result word holds what one
  command leaves, two bits for FR. Words put together by several commands are left
  to the proofs, which hold for any number of them. `PinUse = {FALSE}`: with the pin
  `BootBankWhole` says nothing more; the proofs cover any. About 817 000 states in
  three and a half minutes: the largest run.
* `firmware_update`: images of four to six bytes on pages of three and a buffer of
  two, in a bank of two pages: an image ends before, on and behind a page boundary,
  a chunk falls on both sides of it, and the largest image fills the bank. Three
  connections and one byte too many per connection reach every sum of lengths.
  About 15 700 states.

No run uses a state constraint or symmetry.

### Fairness and why the code justifies it

The main loop runs for ever, so a step it is ready for, and stays ready for, is
taken: weak fairness on its steps. The hardware timer ticks (`Tick`), and the
chip ends a connect attempt by an answer or by its retransmission timeout
(`Answer \/ NoAnswer`). Strong fairness is used where the enabling condition
comes and goes:

* `SendOk`: a connection that stays up takes a packet now and then — TCP drains
  the transmit buffer or times out and closes.
* `AuthTimeout`, `Connect(FALSE)`: the timers wrap (65.5 s in the product) while
  a pass takes milliseconds; the loop sees them expired before they wrap.
  `Connect(FALSE)` and `Reopen(TRUE)` also say that DNS, address checks and
  `socket()` do not fail for ever; otherwise the device rightly stays out of service.

In `seg_tcp`, `WF(DialUp \/ DialFails)` says that the TLS handshake and
`MQTTConnect` end by their time limits, and `SF(ReopenTls(TRUE, TRUE))` that
`wiz_tls_init()` and its socket do not fail for ever. `BackInService` asks for
service only after the OP commands have stopped: each of them closes the socket.

In `config_store` the program does not stop between two steps (`WF(Program)`),
the watchdog is hardware (`WF(Watchdog)`), and a timer interrupt that is held
off stays pending and is taken when interrupts are enabled again
(`SF(FactoryISR)`). Commands, line feeds, downloads, the cable (`LinkUp`) and faults come or do not;
`StartsUp` looks at behaviours in which faults stop. In `firmware_update` only
the loop of the update runs on (`WF(Device)`): tool and network owe nothing, so
`UpdateEnds` begins when enough has come.

Nothing is assumed of the peer, of the host on the serial line or of the DSR pin.

## 4. The proofs

The theorems are of the form `Init => Inv`, `Inv /\ [Next]_vars => Inv'`, joined
by PTL, with a step per action. They hold for every value of the constants that
satisfies the modules' named assumptions, rest on nothing else, and each
assumption is evaluated by TLC in the run of its module. Facts about sequences,
indices and remainders are lemmas at the head of each module.

**The receive path** (`SerialRx_proofs`, `SerialRxHistory_proofs`)

* `TypeCorrect` is not inductive as it stands: `GetMove` takes one from `left`, so
  `LeftInv` adds that `left` is at least one while a gateway read is under way. It
  rests on `ModIndex` (indices modulo the size stay indices) and a lemma per handler.
* `HeldCorrect`: the bytes held back are a beginning of the trigger code. It is
  inductive; the work is in `RxHold`, which extends the prefix, and in the
  restores, which leave `triggercode_idx` zero.
* `OldestTaken`, `NeverSpins`: from `ReaderInv`, which says of both halves of
  `uart_getc` what an interrupt may have changed. The lemmas before it replace
  the remainder of the ring's indices by a case (`ModOnce`, `UsedIs`,
  `MovedRound`), then say how many bytes an interrupt stores and where
  (`InterruptStores`).
* `OnlyRestoreOverruns`, `RoomSuffices`: a byte stored alone leaves a free cell, by
  the test of the handler and the same lemmas; and a restore overruns the reader
  only when no more cells are free than bytes are held back. A main loop that
  leaves four cells free is never overrun.
* `RingRefinesFifo` is the refinement of ByteFifo. An interrupt appends to the
  sequence the indices stand for (`UnreadGrows`), with the values that go in: the
  byte, or the held bytes in order and then the byte (`AcceptPasses`,
  `MismatchReleases`); or it only holds one back (`HoldAppends`). A read drops
  the head (`UnreadShrinks`), the first store of a flush empties the queue, and
  from there to the second store it begins at index zero. What is refused or
  swallowed changes nothing of the queue, so the theorem is about the order of what
  is taken in, not about how much is.
* `RequestDeserved`: from `QuietInv` — the detector's clock is never ahead of the
  silence while its timer runs, and the timer does not survive the entry into AT
  mode.
* `HeldBackCorrect`, from the same invariant, is the positive side of the violated
  `OnlyTriggerHeldBack`: as long as the timer runs or nothing is held, a byte that
  is not in the code is never taken for it. The violation therefore has one
  cause, a code left half or wholly recognised without its timer.

**Serial to network** (`SerialToNet_proofs`)

* `TypeCorrect`, `StreamCorrect`: types and `StreamKept` need each other and
  `PlaceInv` (nothing is collected without a connection; the byte looked at is
  there); the lemma `HeadMoves` moves a byte from one sequence to the other.
  `LoopCorrect` is inductive above them and `PeekInv`: what was counted is there,
  but for the one byte that a pass which looked at a delimiter may lack. What
  `StreamCorrect` leaves out is the byte such a pass writes behind a full buffer;
  without a delimiter there is none.
* `CutCorrect`: from `CutInv` — a packet no send has refused holds no delimiter but
  its last byte, stays below the size until it is about to be sent, and what is
  about to be sent was ended by an option.
* `OverflowCorrect`, `PlainCorrect`: from `PeekInv`, that the look at a byte
  happens only with a delimiter and with at most one free cell, which a packing size
  that the buffer holds allows only after a refused send. The first gives the exact
  circumstances of the violated `NoOverflow`; the second says that without a
  delimiter nothing overflows, no byte is looked at and no pass waits.
* `PassCorrect`: without packing options a pass that has begun ends in `send()`
  with bytes (`PassInv`). This is what `Delivery` needs besides fairness.
* `RingUsed`: the module's queue is a behaviour of ByteFifo (nothing held, never
  lost). With `RingRefinesFifo` the two modules meet at one abstract queue: the
  one is used as the other is proved to work, except behind an overrun.

**Network to serial** (`NetToSerial_proofs`)

* `StreamCorrect`: from `PlaceInv` — what was counted is still there while the
  socket is open; a failed `recv()` leaves it closed; without flow control nothing
  is held when `ether_to_uart` is called.
* `PasswordCorrect`: from `AuthInv` — who is authenticated gave the password in
  this connection, or the socket is closed and nothing waits.
* `ErrorCorrect`: while the socket is not closed, `e2u_size` fits `g_recv_buf`. The
  violated `NeverBeyondBuffer` is thus confined to the rest of the call in which
  `recv()` failed, and to what follows it until the socket is opened again.
* `RoundsCorrect`: from `LenInv` (something was counted before `recv()`), each
  `recv()` shortens what the chip holds and, without flow control, no call is
  made for nothing: the measure that `CloseWaitEnds` and `DataIsTaken` need.

**The life cycle** (`SegTcp_proofs`)

* `StaleCorrect`, `SocketCorrect`, `ContextCorrect`: inductive as stated, with the
  types. That OP closes the socket carries the second; that the flag is reset
  wherever the context is freed carries the third.
* `AuthCorrect`: not inductive alone. A change of mode could bring a listening
  socket with the old flag, so the step uses `SocketFitsMode`.
* `PaceCorrect`: an action property from `PaceInv`, that `reconnection_time`
  never runs ahead of the time since the last connect() in a mode that connects.
  The wrap of the timer is harmless since it only makes it smaller.
* `TimerCorrect`: a connection that owes the password runs under the password timer
  (`TimerRuns`, inductive), which with a main loop that sees the timer before it
  wraps is `PasswordDeadline`.
* `OfflineCorrect`: from `OfflineInv`; where no EX can come over the network the
  comment on ST_ATMODE is right. So the violated `AtModeIsOffline` has EX as its one
  cause.

**Storage** (`ConfigStore_proofs`)

* `JobInv` ties the writer to the place of the program. `AcceptedCorrect` and
  `SaveCorrect` from `PageInv`: the page is a beginning of some one record and
  erased behind it, and within `write_flash` that record is `dev_config` —
  programming over what is there is refused, which is what makes a retry without
  an erase harmless to the page.
* `BootCorrect` from `BankInv`: bank in RAM and in the page agree wherever a
  download may begin, so no download begins to write the bank that the record names.
  That a bank reported as written holds the image is `ImageCorrect` and
  `OneConnection` of FirmwareUpdate: true for one connection.
* `CertCorrect` from `CertInv`: while record and certificate are not `"apart"` no
  upload is under way and the stored length fits, and in `"good"` the one in RAM
  does; an upload leaves `"apart"` only when the whole record was written and the
  text programmed into an erased page.
* `CellCorrect` is the refinement of ConfigCell: each step is a step of the cell
  under the mapping, or leaves the cell alone.

**Firmware update** (`FirmwareUpdate_proofs`)

* `CountInv` (one connection never brings more than the update has, and what was
  counted is there when `recv` is called) gives types and `AskCorrect`;
  `TakenCorrect` is inductive above them; `BankCorrect` from `PageInv` (whole pages,
  and bank and buffer add up to `write_fw_len`).
* `WrittenCorrect`: success means that the update took `fwup_size` bytes and the
  bank begins with them, over any number of connections (`FinishWrites` is the
  last page).
* `InOrder`: the last `recv_fwsize` bytes taken are the beginning of what the last
  connection sent. From it and `WrittenCorrect`, `ImageCorrect` (one connection) and
  `OneConnection`: success is the image if and only if the last connection brought
  all of it — how far the exception of `SuccessIsImage` reaches.

**What stays with TLC.** Every safety property of a passing run is a theorem. The
liveness properties (`Delivery`, `DataIsTaken`, `CloseWaitEnds`, `BackInService`,
`PasswordDeadline`, `StartsUp`, `RoundEnds`, `ButtonIsHeard`, `UpdateEnds`) are
not: fairness needs `ENABLED`, which the prover does not handle, and those that
count down need induction over data. `PassCorrect`, `RoundsCorrect` and
`TimerCorrect` are the safety parts of four of them. The violated properties are
refuted by TLC; `PlainCorrect`, `OverflowCorrect`, `ErrorCorrect`, `OfflineCorrect` and
`HeldBackCorrect` say for all instances when they do hold. No module uses a RECURSIVE
operator.

## 5. What is not modelled, and why

* DHCP and DNS: they run in library code, before the main loop and once a second.
  Their failure is an outcome of `Connect`.
* Output flow control (`check_uart_flow_control`): whether XOFF comes in time is
  decided by the host.
* MQTTS: its TLS context is set up and freed in `mqtt_interface.c` of ioLibrary,
  apart from that of SegTcp. The MQTT session, its subscriptions and the callback
  that shares `g_recv_buf`. The UDP, TLS and MQTT data paths.
* Parsing, reply texts and read commands of segcp, and the privileges of a message;
  the uploads of client certificate and private key, which repeat that of the root
  certificate step by step; the MAC page; `device_appboot_update`.
* A page erase or a double word cut in the middle: the erase leaves what a power
  loss before or behind it leaves, and a half-programmed double word, which the
  flash reports as an ECC error, is not a value the model can name.
* Keep-alive packets, local ports, byte counters and debug output: they decide
  nothing in the modelled parts.
* ST_UPGRADE: while it is set the main loop is inside an update or DHCP and none
  of the modelled main-loop steps happen.
* The extra lines that `uart_get_commandline` reads for a certificate: reading
  on and the flush at their end are in SerialRx (`GetByte`, `FlushCmd`), the
  recognition of the end marker is not. A flush by the RX command is left out of
  SegTcp, where it would only empty `serial`.
* Hardware flow control, RS-485 and Modbus are not in this build.
* HAL and CMSIS, TrustZone set-up, ioLibrary beyond the results of its socket
  calls, mbedTLS and cJSON are vendor or third-party code. They are nearly all of
  the repository's 349 000 lines of implementation: the firmware itself,
  `S2E_SSL_Platform` and the two `main` programs, has some 17 000, of which many are
  tables, parsing, text and code this build leaves out (Modbus, RS-485, boot
  updates). A share of the whole repository that is more than a few percent is
  therefore out of reach without modelling vendor drivers and a TLS library.

## 6. Plan

Done: the receive path, both data paths, the life cycle in six modes,
configuration storage with the command round, and the firmware update, with the
proofs above. What would come next, in this order:

1. **SerialToNet extended** by a clock for the time option (the hazards at
   `seg.c:1960` and `1971`) and by the DHCP renewal that shares `g_send_buf`.
2. **MQTTS** in SegTcp, with the second TLS context and its own flag.
3. **Output flow control** over ByteRing: XOFF before the ring is full, for a host
   that answers within a bound.
