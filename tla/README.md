# A verification development for uip-tools

`uip-tools` turns an Atari ST with a network adapter into a small HTTP and FTP
server. It is one C program: drivers, a modified uIP TCP/IP stack, protosockets
(coroutines over uIP's callbacks), the two servers, a DHCP client and a remote
console, and a page that runs in the browser. There are no threads, and but for
files nothing is persistent. What makes it hard is that everything is driven by
callbacks in whatever order packets and timers arrive, that one packet buffer
(`uip_buf`) serves input and output, and that state is kept in several tables of
different sizes that refer to each other by port number.

This directory holds TLA+ models, the TLC configurations that check them and
TLAPS proofs of the main theorems. Paths are relative to the repository root.

## 1. The system

| Component | State | Operations | Interacts with |
|---|---|---|---|
| main loop, `src/main.c` | two timers, the config | poll driver, `uip_input`, `uip_periodic`, `uip_poll_conn`, ARP timer, keys, config file | everything, in one fixed order |
| uIP TCP, `src/uip/uip.c` | 32 `struct uip_conn` (state, sequence numbers, `len` outstanding, timers, `mss`, `appstate`) | segment input, timer, poll, `uip_connect` | calls the servers back (`UIP_APPCALL`), which answer through `uip_flags`, `uip_slen` |
| uIP UDP, `src/uip/uip.c` | a table of `struct uip_udp_conn` | demultiplexing by port and address, poll | DHCP client, remote console |
| listen table, `src/uip/uip.c` | 10 ports | `uip_listen`, `uip_unlisten` | FTP data connections |
| protosockets, `src/uip/psock.c` | `sendptr`, `sendlen`, `readptr`, `readlen`, a protothread | `PSOCK_SEND`, `PSOCK_READTO`, `PSOCK_READBUF(_LEN)` | resumed from each callback |
| HTTP server, `src/atari_http_server/httpd.c` | one `httpd_state` per connection | parse, GET, POST, directory and program requests | protosocket, files, programs |
| browser page, `src/atari_http_server/ui/js.js` | current directory, requests, upload queue | callbacks of requests, readers, clicks, frames | HTTP server |
| FTP server, `src/atari_ftp_server/ftpd.c` | one control state per connection, 24 data states found by port | 20 commands; list, store, retrieve | two connections per transfer that wait for each other |
| ARP cache, `src/uip/uip_arp.c` | 8 entries, 8-bit clock | update, age, resolve | every packet sent |
| DHCP client, `src/uip/dhcpc.c` | protothread, offer, timer | discover, request, configure | UDP, main loop (switch to a static address) |
| remote console, `src/ioredirect.c` | 256-byte key ring, output buffer | trap handlers, UDP callback | the program that runs, `scripts/uip-run.py` |
| drivers, `src/uip/drivers` | receive rings and reassembly buffers; the state of the set-up | probe, poll, send | main loop, USB stack |
| packet splitting, `src/uip/uip-split.c` | none of its own; `uip_buf` | cut a full segment in two | ARP cache, driver |
| rest | `timer.c`, `common.c`, `uip_arch.c`, scripts; `uip-fw.c`, `uip-neighbor.c` are compiled but unused | | |

What makes each component correct:

* TCP: bytes arrive once and in order in both directions; what counts as
  acknowledged has arrived; a close that looks clean is clean; no connection is
  stuck half open or half closed.
* protosockets: `PSOCK_SEND` puts each byte at its own place in the stream,
  returns only when the remote host has everything, and does return. Reading
  loses no byte and takes none twice.
* servers: every request is answered or the connection ends, and the answer is
  that of the request; a state is allocated once, freed once and never used
  afterwards; what is open is found and closed; a transfer ends the wait of its
  control connection; slots and ports come back; "created" and "complete" are
  said only of what is.
* browser page: every file that is queued is uploaded or reported, and shown.
* ARP: at most one entry for an address, old entries go, the entry used is the
  latest heard of.
* DHCP and configuration: the machine uses the address it was given, and gets
  one if a server is there.
* console: keys arrive whole, once and in order; the script shows what the
  program printed and ends when the program does.
* drivers: the packets handed up are those on the wire, in order, none made of
  two; starting up ends, with a whole hardware address or no adapter.
* splitting: both halves are frames whose data fits their sequence number.

The behaviours that are hard to test, with the lines where they bite, are the
`hazards` of `PROJECT.json`.

## 2. The modules

```
UipTcp ----------- UipTcpProofs ---- UipTcpStreamProofs
  |   \                                    |
  |    MCUipTcp                             |
PsockTcp --------- PsockTcpProofs ----------'
      \
       MCPsockTcp                    UipArp ----- UipArpProofs
                                        \
FtpServer -------- FtpServerProofs        MCUipArp
      \
       MCFtpServer

AsixRecv  PicoRecv  Rtl8019  UsbSetup        Dhcp   Console
     \       |        |       /                 \    /
      `----- EthDriver ------'               UdpServices --- UdpProofs
              |  |   \                            \
              |  |    EthDriverProofs              MCUdp
              |  `--- MCEthDriver
   PacketStream                      HttpServer --- HttpServerProofs
   (what it implements)                  \
                                          MCHttpServer
WebUi --- MCWebUi
```

`EthDriver` composes the drivers with `INSTANCE`, `UdpServices` the two users of
UDP with `EXTENDS`. `PacketStream` and `UipTcp` are also abstract
specifications: `EthDriver` implements the first (`KeepsPromise`), `PsockTcp` the
second (`KeepsContract`).

### UipTcp: one connection

State: the fields of `struct uip_conn` (`tcpstate` stands for `tcpstateflags`;
`sa` and `sv` only feed the estimator), `called`, the `uip_flags` of the callback
the step made, and `appGot`, `garbled`, which record what the application was
handed. One action is one run of `uip_process()`, the call back of the
application and the transmission of the answer included, because the program is
single threaded and the answer is sent before the loop goes on:

| Actions | Code |
|---|---|
| `Connect` | `uip_connect()` |
| `Poll` | `UIP_POLL_REQUEST`, and the poll branch of `UIP_TIMER` |
| `TimerWait`, `TimerCount`, `TimerGiveUp`, `TimerRexmit` | `UIP_TIMER` |
| `Listen`, `InReset`, `InRst`, `InMisplaced` | demultiplexing, `found_listen`, `reset`, `found` |
| `InSynRcvd`, `InSynSent`, `InSynSentRefused`, `InEstablished`, `InFin`, `InLastAck`, `InFinWait1`, `InFinWait2`, `InTimeWait`, `InClosing` | the `switch` on the state |
| `AppSend` | labels `appsend` and `apprexmit` |

A segment for which the `switch` does nothing is a stuttering step.

The application is the most general one that keeps its contract (`AppContract`):
it may send any number of bytes, close or abort in any callback, but closes only
when nothing is outstanding and has `AppBytes` bytes to send in all. That the
protosocket keeps the contract is checked, not assumed (`KeepsContract`).

External to the code are the network and the remote host (`Into`, `Send`,
`Peer*`). The network is a set of segments per direction: a segment may arrive
late, many times or never, and a new one may drive out any other. The remote
host is any conforming TCP: it opens or is opened, takes all or part of a
segment, acknowledges cumulatively, cuts and recuts what it sends again,
advertises any window, closes, aborts, or vanishes.

Abstractions: sequence numbers count from each side's initial number. The code
compares them for equality and adds to them, so no 32-bit wrap can show. Payload
bytes are their positions in the stream. The result of the round-trip estimator
is any member of `RTOs`. Checksums, addresses and ports are left out: a segment
of the model is one that belongs to this connection.

### PsockTcp: the protosocket as the application

`PsockTcp` extends `UipTcp` and replaces the general application by
`psock_send()` and `data_is_sent_and_acked()` of `src/uip/psock.c`, called by a
handler that sends its data in any pieces and closes at the end, as all handlers
of the two servers do. `wire` records which byte of the data was put at which
sequence number, retransmissions included. Its specification refines that of
`UipTcp`: `KeepsContract` is `Spec` of `UipTcp`, as a property of `PSpec`.

### UipArp: the ARP cache

State: `arp_table`, `arptime`, the default router `draddr`, and `sent`, what the
turn of the main loop hands to the driver. `ArpIn` is `uip_arp_arpin()` with
`uip_arp_update()`, `IpOut` is `uip_arp_out()`, `Timer` is `uip_arp_timer()`, and
`Configure` is `uip_configure_ip()`, which the DHCP client and the switch to a
static address call. `age`, `heard` and `wrapped` are history: ticks since an
entry was written, the Ethernet address a host gave last, and whether the 8-bit
clock has wrapped. Times are differences in `int` of values below `ClockRange`
(256 in the code).

An entry is "in use" for `uip_arp_update()` when both 16-bit halves of its
address are not zero, and unused when both are zero. `Halved` are the addresses
in between, for which neither holds.

### FtpServer: control and data connections

State: `states` (`ftpd_data_connection_states`), `listen` (`uip_listenports`),
`conns` (the uIP blocks data connections may use), `ctl` (for each client where
the protothread of its control connection waits, `data_port`, the result code),
`lastport`, `bad`, set when a null pointer is used, and `lost`, which remembers that
a data connection was lost or closed before its transfer. One action is one callback:

| Actions | Code |
|---|---|
| `Open`, `End` | `ftpd_alloc_state()`, `ftpd_free_state()` |
| `ControlAcked`, `ControlPoll` | `ftpd_appcall()`, which resumes a handler |
| `Pasv`, `Port`, `List`, `Retr`, `Stor` (also APPE), `Quit`, `Other` | the command handlers |
| `Handshake`, `DataAcked`, `Rexmit`, `DataPoll`, `Data`, `Fin`, `LastAck`, `LateFin`, `Lost` | `ftpd_data_appcall()` with `ftpd_data_connection()` for that callback |
| `Expire`, `Reused`, `Syn` | uIP's own changes to the blocks |

A callback makes several calls, each of which may change several tables and
which read what the one before wrote. So a handler is an operator from a world (a
record of the tables) to a world, and the action says what the variables become.
`moved` in `ctl` is what became of the client's transfer: nothing yet, everything
moved, all but the tail of the last segment, or cut short by the client itself.

The client is external. It keeps the protocol: one command at a time, a transfer
command when its data connection is open, a new data connection when the last
one is closed on both sides. It may end its control connection at any time. The
constants loosen it: `Aborts` lets data connections be lost or closed before a
transfer, `HandshakeLag` lets a command overtake the last ACK of the data
connection's handshake, `Overlap` lets it ask for a new data connection while the
server still waits for the last FIN or ACK of the last one. Of a file that is
stored the model has the number of bytes that wait in `inputbuf` (`fill`): segments
of 1 to `UIP_TCP_MSS` bytes fill a buffer of `INPUTBUF_SIZE`, a full buffer is
written and the rest of the segment begins the next. The FIN comes with any
number of bytes, none included. For the rest files are abstracted to what decides
control: an open, read or write may fail at any time, a file may end at any time.

### EthDriver: the network drivers

`PacketStream` is what `driver_poll()` promises: packets that arrived, each at
most once, in order; some may be left out, none is made up. Each driver keeps
that promise in its own way, and `EthDriver` has the variable `mode` for the
driver in use. `wire` are the lengths of the packets that reached the adapter,
`up` is the number of the packet handed up last.

| Module | State `dev` | Actions and code |
|---|---|---|
| `AsixRecv` | the two halves of `recv_buf`, fill and empty pointers, `bytes_left`, `end_of_burst` | `Recv` is `asix_recv()`: the transfer, the header's check, the copy with both wraps, the padding |
| `PicoRecv` | `recv_fifo` with level and indices, `resync_count` | `Recv` is `picowifi_recv()` with the FIFO functions |
| `Rtl8019` | the adapter's pages, CURR and BNRY, the overrun flag, where the driver is | `Begin` up to the reading of CURR with the overrun's handling, `Retrieve` the rest; packets arrive in between |
| `UsbSetup` | `su`: commands still to be given, words of the address read, receiver, link, result | `Probe`, `Command`, `AskLink`, `GotInfo`; `GiveUp` and `CopyMac` are the two ends of `USBETHdev_init()` |
| `EthDriver` | `mode`, `frames` | `Setup`, `Ready`, `Arrive`, `Poll`; `Send` is `net_send()` with `uip_split_output()`, `uip_arp_out()` and `driver_send()` |

A byte in a buffer is the number of its packet and its place in it, so that a
mixture of two packets, a header read at the wrong place and bytes left from an
earlier round show. Bytes that are not a header never pass for one: both formats
carry a check that random payload meets only by chance. The page header of the
RTL8019 may be read before the adapter has written it: `Retrieve` may find its
pointer invalid, and then leaves the packet for the next poll. Each USB transfer and
control command may fail; a transfer that fails may have lost its data. The
adapters and the USB stack are external.

### HttpServer: requests on a connection

State: `conn` (the connection as uIP sees it), `st` (`httpd_state` with its
protosocket; `pc` is where `handle_connection()` is), `cb` (the flags and the data
of the callback that runs), `out` (the reply that is outstanding), `disk`, `open`
(handles and data sources), `said` (programs announced and started).

uIP calls `httpd_appcall()` once for a segment; within it the protothread runs
from wait to wait. The steps of the thread are actions of their own, while `cb` is
live nothing else of the server happens, and `Wait` ends the callback.

| Actions | Code |
|---|---|
| `ReadMore`, `ReadLine`, `ReadBody` | `psock_readto()`, `psock_readbuf_len()`, `psock_newdata()` |
| `Sent`, `NotYet` | `psock_send()` after it has sent |
| `Top`, `Continue`, `Answer`, `Next200`, `CloseExit`, `Exit` | `handle_connection()` |
| `Post`, `Write`, `Received`, `Get`, `Delete`, `Run`, `Runs` | `handle_post()`, `receive_file()`, `handle_get()`, `handle_delete()`, `handle_run()` |
| `Accept`, `Deliver`, `CloseFin`, `Broken` | `httpd_appcall()` for each callback |
| `Forgotten` | FIN_WAIT_2 running out in `uip.c`, which calls nobody |

A request line, a header line and a unit of a body are one token each; segments
may be cut between any two tokens. What a segment has left when a callback is
over stays in `uip_buf`: the next packet may overwrite it (`Stale`). The client
is external; it asks for one thing at a time, may hold back a body until it sees
"100", and may hang up or be reset at any time. `spoilt` records what happened
that the code cannot make up for (see the end of section 3): the liveness
property excepts it.

### Dhcp, Console and UdpServices: the users of UDP

`Dhcp` has the address (`host`), the configuration (`static`, `config`, `file`),
the client's protothread (`dh`) and `busy`, a program that keeps the main loop from
running. `Poll` and `Deliver` are one call of the protothread, from yield to
yield, for a poll and for a message; `ReadConfig`, `Toggle` (F1) and `Restart` are
the code in `main.c`. A config file is whole or malformed, or there is none; when
there is no memory to read it `read_config()` returns with nothing set, and the
machine has neither an address nor a DHCP client until F1 is pressed (`Unread`). A message is its type and the server it comes from; replies
stay in the network and may arrive late and repeatedly. `Accepts` is uIP's
test of the address, which the receive loop of a running program goes round.

`Console` has the key ring with its two byte-wide pointers, `pend` (the escape
sequence not yet whole), and the script. `Bconin`, `Bconstat`, `Cconout`, `Cconws`
and `Exit` are the redirected calls, `Type`, `Interrupt` and `Show` the loops of
`scripts/uip-run.py`. Packets may be lost but do not overtake each other.

The two share the receive loop that `Dhcp` has as `busy`. `UdpServices` composes
them; as neither writes what the other reads, a behaviour is about one of them.

### WebUi: the page

State: `path`, `shown` (the directory whose entries are displayed), `pending`
(REQUEST_PENDING), `asked` (listings on their way), the files being read, the
`queue`, the upload that runs, `queFinished`. One action is one callback of the
browser. The page keeps its requests concurrent: listings may be answered in any
order, and files are chosen, read and queued while others are sent.

Operators marked "wrong on purpose" in the modules are not used by any
specification. They are plausible bugs; the entries `mutants` of `PROJECT.json`
put one in the place of the definition it distorts, and the property named there
must then fail.

## 3. The runs

| Run | Question | Result | Distinct states |
|---|---|---|---|
| `tcp` | Do both streams, both ways of opening and all ways of closing keep the safety properties, with an MSS option or without? Do handshakes and closings always end, is `uip_connect()` always answered? | holds | 640,000 |
| `psock` | Does `PSOCK_SEND` keep stream, promise and the contract of `UipTcp`, and does it return? | holds for windows of zero or a full segment, with an MSS option | 290,000 |
| `psock_window` | The promise with windows in between | **violated** | |
| `arp` | One entry per address, the latest address used, ageing and eviction in order until the clock wraps | holds | |
| `arp_wrap` | Does no entry outlive its age, the wrap included? | **violated** | |
| `ftp` | One client, data connections lost at any point: is 226 never said without cause, is no transfer replied to with its data connection left open, is no state missing, and does every transfer end that was not lost? | holds | 241,000 |
| `ftp_tail` | Is nothing of an upload missing when 226 is told? | **violated** | |
| `drivers` | Does each of the three drivers implement `PacketStream`, leave nothing out without a reason, hand everything up in the end; does the set-up end, and with a whole address; do split segments fit together? | holds | 103,000 |
| `asix_end` | May the length header wrap at the end of the ASIX buffer, as its comment says? | **violated** | |
| `http` | Any two requests of nine kinds over two connections: is every request answered, by its own answer; is what is "created" stored; is nothing left open; is a program run once and only when announced? | holds | 514,000 |
| `udp` | Does the machine use the address it was given, and get one? Do keys and output stay whole? | holds | 158,000 |
| `webui` | Is every queued file uploaded or reported, and the directory asked for afterwards? | holds | 75,000 |

Deadlock is checked for the cache only: a connection that is over, a client that
has left, a console whose program has ended and a silent network may stay so
for ever.

**The violations.** (1) `psock_window`: `data_is_sent_and_acked()` does not
remember how much it sent. It takes `uip_mss()` at the time of the
acknowledgement, which `uip_process()` has just set from the window in it. If the
window was smaller when the segment was sent, bytes are stepped over and never
sent. The trace: window 1, one byte is sent, its acknowledgement opens the window
to 2, `sendptr` moves by 2. (2) `arp_wrap`: `arptime` has 8 bits and ages are
differences in `int`: when it wraps, after some 43 minutes, the entries written
in the last 20 of them have a negative age, and never reach `UIP_ARP_MAXAGE`.
(3) `asix_end`: the pointer is brought back to the start of the
buffer only when a packet reaches beyond the end. A packet that ends exactly
there leaves it at the end; the first byte of the next header is read from behind
the buffer, the check fails, and what is buffered is given up. (4) `ftp_tail`: when
the FIN of an upload comes with more bytes than `inputbuf` has room for,
`psock_readbuf_len()` takes what fits, and as the connection is closed neither it
nor the loop that writes comes round again: the rest is dropped and 226 is told.

**What the runs leave out because it fails.** These were met while modelling, and
are listed under `hazards` with their lines. Each is in the model, and the
property named excepts it, or the constant named leaves it out:

* without an MSS option `mss` may be 0; `PSOCK_SEND` then waits for the
  acknowledgement of nothing (`MssOptions` of the run `psock`);
* 226 is told without cause in three ways, which a constant of the run `ftp` leaves
  out and brings back. STOR handled before the last ACK of the data connection's
  handshake (`HandshakeLag`): `handle_stor()` does not wait for the connection, only
  for its absence, and replies at once with the default code. The client's FIN for
  the last data connection that comes during the next transfer (`Overlap`): states
  are found by port, and slots and ports are used again as soon as the control
  connection has replied, so it ends the wrong transfer. And a second client (in
  `Clients`): the sweep that its PASV starts frees the closed state of the
  other's failed transfer before its code was read, and the code is read from the
  state that takes slot and port; if none does, a null pointer is read;
* of an FTP transfer besides: the control connection waits for ever for a data connection that
  was aborted, and once one was lost the sweep may take a state that is still read
  (`lost` in `TransferEnds` and `NoNullUse`); PASV without a transfer leaks slots;
* the second half of a full segment is made from the header that is in `uip_buf`
  after the first half was sent. When the next hop was unknown that is an ARP
  request, into which length, sequence number and checksums are now written; if what
  it has for a destination is not local and the router is known, it goes to the
  router (`Garbled`; `HalvesFit` is about the TCP frames only);
* `read_config()` sets the defaults when it cannot read all 13 values, and then
  assigns the values all the same, those that were not read included (`Garbage`;
  `AddressRight` says nothing of the contents of a malformed file);
* an empty file is never answered; the data of the segment that opens a
  connection is dropped; a refused upload leaves its body to be read as the next
  request; data that comes while a reply is being sent is not read, or is
  overwritten in `uip_buf` (`spoilt` in `AnswersAll`); a form is answered with the
  string of the answer before (`RepliesInTurn`);
* a program that prints the byte 0xff ends the script; a string or the end takes
  the place of an escape sequence that is not whole (`upset` in `OutputWhole`);
* `requeFailedTransfers()` queues nothing (`.lenght`); REQUEST_PENDING stays set
  when a listing fails.

**Bounds.** Each is chosen so that the limits of the code are reached and one
step beyond them.

* `tcp`: `UIP_TCP_MSS` is 2 and the application sends 3 bytes: one full segment
  and a short one, so that a repeated acknowledgement of the first can meet the
  second. The remote host sends one byte and its FIN; windows are full; the MSS
  option is a full segment or absent. Two segments towards uIP and one from it
  at a time suffice for overtaking and repetition, because a segment is never
  used up. The retransmission limits are 1, the waiting limit 2 ticks: the code
  compares counters for equality, so what matters is reaching the limit and
  being one away from it. The retransmission timeout is 0, so that a
  retransmission is possible at any time. The 8-bit wrap of `timer` is in the
  model (`% 256`) and in the proof of `TypeOK`, but the run does not reach it;
  the proofs below have no bounds.
* `psock`: the same, with windows of zero or a full segment (all of 0..2 in
  `psock_window`), one segment towards uIP and two from it, a waiting limit of 1.
* `arp`: two entries for three addresses, so that the cache fills and evicts; the
  clock has four values and entries live for two ticks, so it wraps while entries
  are old, young and gone.
* `ftp`: two slots and two listen entries serve one client, so that a slot and
  its port are used again, and a leaked one beside it; three blocks leave room for
  an old connection, a live one and a block that another connection took.
  Sessions and commands together are at most 6: two sessions, or two transfers
  and the commands around them. A segment has one byte or two and the buffer three,
  so that segments fill it exactly, not quite, and with a byte left over. Data
  connections may be lost (`Aborts`). Ports of
  uIP's own choice lie below the passive ones and never meet them.
* `drivers`: five packets of lengths 2, 3 and 4, of which 4 is more than the
  caller's buffer; buffer halves of 8 bytes (with the header 4, a packet takes 6
  to 8, so that headers and packets wrap at every even place, are cut by the
  half, and end exactly at the end), a FIFO of 8 cells with a ring of 16, a ring
  of 6 pages of 5 bytes, of which packets take two or three with what the adapter
  adds. One transfer fails, because the state
  after a failure is that of a new start. The link is asked for twice. Segments of 2
  to 5 bytes are cut above 3, even and odd.
* `http`: two requests over two connections, so that each kind can meet what
  every other has left behind; a body of three different units in a buffer of 2, so
  that it takes a full buffer and a rest and no unit passes for another; up to two buffers to send, none for an empty
  file; one file operation fails.
* `udp`: two servers, one of which need not answer or may refuse; one F1, one
  program, one restart. Codes of 2 bytes in a ring of 4, and four keys: the ring fills
  and both pointers wrap. Four characters printed are a whole `ESC Y` sequence. One
  packet is lost.
* `webui`: two drives and a subdirectory, three files, two listings on their way,
  one request that fails.

**Fairness.** Weak unless stated otherwise.

* `tcp`, `psock`: the periodic timer and nothing else; no segment ever needs to
  arrive. The main loop serves the timer in every turn in which it has expired and
  no packet was waiting (`src/main.c`, line 397), so the assumption is that
  packets do not fill every turn. A network that does would starve all timers;
  that is the one thing these results depend on.
* `ftp`: the polls (the main loop polls every connection with nothing
  outstanding), acknowledgements and the end of the handshake, the client closing
  at the end of the file it sends, and the end of a file that is read.
* `drivers`: the set-up's next command and the poll: the main loop goes round,
  and a USB command comes back, with an error if need be. Packets need not arrive.
  Strongly, a page header of the RTL8019 is not invalid at every poll for ever: the
  adapter writes it when it has stored the packet.
* `http`: the thread goes on (it is the same call), a segment sent again and
  again arrives, the client takes what it is sent and sees a close. The client
  need not ask, send a body it holds back, or close.
* `udp`: polls, time-outs and the end of a program; one server (`Good`) answers,
  and, strongly, its reply gets in while it is waited for infinitely often. Of the
  console no liveness is claimed: UDP may lose everything.
* `webui`: the frames and the answers to listings; uploads strongly, because the
  bound on listings under way may disable their end now and then.

## 4. The proofs

`UipTcpProofs` proves `TypeCorrect == Spec => []TypeOK`, one lemma per action.

`UipTcpStreamProofs` proves `StopAndWait`, `DeliveredInOrder` and `CleanClose`
for all values of the constants: any segment size, window, retry limit, number
of bytes and of segments in the network. None of the three is inductive. What a
late segment does depends on what is still in the network, so the invariant
`StreamInv` bounds every segment there:

* `SentInv`: nothing sent by uIP reaches beyond `snd_nxt + len`, and a SYN is
  numbered 0; `AckedInv`: no acknowledgement is beyond `prcv`. Together with
  `StopAndWait` these carry the sending side: an acknowledgement is accepted only
  if it equals `snd_nxt + len`, which is at most `prcv`, which is at most
  `snd_nxt + len`.
* `OfferedInv`: nothing sent by the remote host reaches beyond `psnd`, and a FIN
  ends exactly there; `TakenInv`: nothing acknowledged by uIP is beyond
  `rcv_nxt`; `PlaceInv` relates `rcv_nxt` to what the application got, state by
  state; `EndInv`: in the states after the remote FIN nothing can follow.
* `OpeningInv`: the values before and during the handshake.

Every step of uIP is shown to be a `UipStep`, what it may do to the two streams
at all, every step of the remote host a `PeerStep`, and each of these keeps
`StreamInv`. The assumptions are `TimerAssumption` and `SizeAssumption` of
`UipTcp`: sizes are positive, the timers fit in 8 bits.

`PsockTcpProofs` extends this to the protosocket on top: `StreamIntact` and
`ReturnsWhenReceived` hold for data of any length, and `PsockTcp` implements
`UipTcp` (`HandlerKeepsContract`), so that what is proved of `UipTcp` holds with
the protosocket in the place of the general application (`HandlerStreams`). The
hypothesis is `FullWindows`: the remote host advertises a whole segment or
nothing. The run `psock_window` shows why it is needed. `HandlerInv` is the
invariant: `SizeInv`, under the hypothesis the segment size never changes;
`PointerInv`, in an open connection `sendptr` is exactly at `snd_nxt`, and what
is outstanding is `Smaller(sendlen, mss)`, which `psock_send()` computes again;
and `StreamIntact`. A connection that is closing is left alone by the handler,
but still retransmits, so there `sendptr` only stays behind what is
acknowledged.

`UipArpProofs` proves the five properties of the cache for tables, clocks and
address sets of any size. The invariant
`ArpInv` adds `EntriesLatest`, what an entry holds is what its host said last (but
for `Halved` addresses, which may have a second, older entry), and two facts about
ages: `AgesBelow`, the difference the code computes never exceeds the true age, which
is why nothing is taken early even across the wrap, and `AgesTrue`, until the
wrap it is the true age, which gives `GoneInTime` and `ThrowsOldest`.
Assumptions: `TableAssumption` and
`AddressAssumption` of `UipArp`.

`ArpTypeOK` is the type correctness of the cache.

`EthDriverProofs` proves of the three drivers, for buffers, rings and packets of
any size and any number of failing transfers, that they implement `PacketStream`
(`DriverKeepsPromise`: packets are handed up at most once, in order, none made of
two), that no index leaves its buffer (`DriverTypeOK`), and of the set-up that no
adapter is in use with a part of its address (`AddressWholeHolds`). The
invariant `DriverInv` says what lies in a buffer: from the empty pointer on, and
continued by what the adapter has not delivered yet, it is the rest of a packet
and whole packets after it, in the order of the wire and all after `up`
(`Pieces`). Every operation takes from the front of that, or drops something from
it, so both wraps of the ASIX copy, the resynchronisation of the PicoWifi FIFO and
the recovery from an overrun come down to one lemma each. `SearchInv` says that the
commands still to be given in the set-up read the words of the address still
missing. `HalvesFitHolds` is the splitting of segments of every length: each frame
carries the bytes its sequence number says, and the two halves together are all of
the segment.

`NoneSkippedHolds` is the other half of the promise: unless something was
disturbed, no packet that fits is left out. `EntireInv` is added for it: as long as
nothing was disturbed, what a driver holds begins with the beginning of a packet,
and every packet after `up` that fits the caller's buffer begins in it
(`Entire`). Taking the packet at the head then passes over longer ones only
(`NoneBetween`). That the PicoWifi ring never has to look for the next packet
follows from this and from the room for a whole transfer. The ASIX driver needs
one more part: when a burst has ended, what is in its buffer are whole packets
without the rest of the burst, and otherwise half a buffer is there, which is
a packet at least, so the check of the length never throws a packet away. The
hypothesis `~beyond` is the only one that is about the code and not about the
network: a packet that ends at the end of `recv_buf` (the run `asix_end`).
Assumption: `DriverAssumption`.

In all of this a packet takes any number of pages of the RTL8019, as long as they
are fewer than the ring has (`DriverAssumption`).

`UdpProofs` proves `AddressRight` and the types of the DHCP client for any number
of servers, late and repeated replies, restarts and changes of the configuration.
The invariant `DhcpInv`: whatever acknowledgement is in the network was granted;
the client is configured only from an acknowledgement; a machine that is not
static has no address or a granted one, and one that is static has that of its
configuration, which is that of the file if the file is whole and was read; and the waiting times go with what is waited for.

`HttpServerProofs` proves the five safety properties of the HTTP server for
bodies of any length and content, buffers of any size, any number of requests,
connections, sessions and failing file operations, and any cutting of the
stream into segments. They hang together, so they have one invariant, `HttpInv`. What is still
to be read of a connection (`Stream`) is the rest of the segment in `uip_buf`, the
data of the callback, and what the client has not sent yet.

* `OneRequest`: all of it belongs to the request the client waits for, in order
  and with the body last. So a reply is for that request (`RepliesInTurn`).
* `Follows`: what is stored, in the buffer, still to be read and held back is
  at most the body, and if it is as much and nothing in `uip_buf` was overwritten, it
  is the body. `remaining` counts it down, so that 201 comes with all of it.
* `Serving`, `Closing`, `Parked`: what is open is in the state, and the server
  asks for the end of a connection only when nothing is open. Only
  `httpd_appcall()` frees a state, and it closes what is there.
* `Matches`, `ReplyFits`: the reply outstanding is the one its place in the
  thread has given; the counts of programs told and run go with it (`RunOnce`).

Assumption: `HttpAssumption`.

`FtpServerProofs` proves `TypeOK` for any number of clients, slots, ports, blocks and
commands. The only part that is not plain is that the ports `uip_connect()`
chooses stay below the passive ones: `CountInv` bounds the last one by the
commands used up.

The other three safety properties are proved for one client (`SingleClient`), for tables
of any size, any number of sessions and commands, whichever connections are
lost (`Aborts`). With two clients they are false. The sweep that a PASV of one
starts, `ftpd_garbage_collest_data_states()`, frees every closed state, also that of
a transfer of the other which has not read its result code yet;
`ftpd_data_get_code()` then uses a null pointer. TLC finds this in 13 steps when
`Clients` has two members, and no invariant can exclude it.

The server keeps its three tables together only by port numbers, so the invariant
`FtpInv` says what a port number stands for:

* `PortsInv`: no two states have the same port; `SoleInv`: the client has one
  data connection at a time, and the server dials its own ports only. So a
  callback that looks up a port finds the state meant.
* `AgreedInv`: from the reply to PASV or PORT to the end of the transfer, all
  connections that live are to the agreed port and, unless a connection was lost,
  the state of that port is there. This is `NoNullUse`: the sweep runs only when
  nothing is agreed, and closing a connection leaves its state in the slot
  until the transfer or the next sweep takes it.
* `OwnerInv` and `StateInv`: a busy state serves the transfer its owner waits
  for; until the transfer is asked for the state waits or its connection has
  closed; an open block means a connected state.

For `Honest226` and `RepliesAtEnd`, `HonestInv` adds `TransferInv`: during a transfer
no connection is still to come, and a state that does not count as connected, or
whose protothread is through, has its outcome: it went through, the client closed,
or 452. `connected` is FALSE before the connection comes as well as after it has
gone, and the wait in `handle_stor()` cannot tell the two apart; the hypothesis
`~HandshakeLag` excludes the first. Likewise `SingleClient` means one client that
does not overlap its data connections. The end of section 3 says what happens
without these hypotheses; the code then breaks the property.
Once a null pointer was used (`bad`) the invariant of the
tables is gone; what is left, and enough, is that the state of the transfer is
not there, so its code is never told. A callback makes several calls, so each
is a lemma from world to world, and `FtpInv` and `HonestInv` are said of
a world (a record of the tables), not of the variables. That 226 means every byte of
an upload cannot be proved: `ftp_tail` is the counterexample. Assumption: the
module's `SizesAssumption`.

Model-checked only:

* liveness, which is out of the prover's reach: `HandshakesEnd`,
  `ConnectIsAnswered`, `SendEnds`, `TransferEnds`, `AllHandedUp`, `StartsUp`,
  `AnswersAll`, `GetsConfigured` and `UploadsAreListed`;
* `KeysWhole`, `OutputWhole` and the types of the console, whose functions go
  through a sequence character by character: that takes an induction over data,
  which the prover cannot do either;
* `WebUi`, whose one property is `UploadsAreListed`.

## 5. What is left

Worth proving next: a statement about several FTP clients that is true, for
instance `Honest226` while no client starts a sweep during a transfer of another.

Not modelled:

* ICMP echo, checksums, `uip_arch.c` and `uiplib.c`: pure functions of one packet.
  Fragment reassembly and IPv6 are off in `src/uip-conf.h`, and the neighbour
  table belongs to IPv6.
* `uip-fw.c` is compiled but never called.
* Paths, names and the text of listings (`common.c` and the generators of
  `httpd.c`): strings without state that lives on.
* Register accesses, EEPROM and reset sequences of the RTL8019, the clock and the
  delay loops: hardware. `picowifi_printstatus()` and the F2 display only print.
* URG segments, `uip_stop()` and `uip_restart()`: no application here uses them.
* What `handle_idle_run()` reads of its state after `httpd_free_state()`
  (`httpd.c:1046-1049`): the memory is taken to keep the path and the arguments of
  the program until it is started.
* The length of the strings the console sends: `uip.c:1956-1962` copies them without a
  bound, the model's strings fit into a packet.
* Several HTTP connections at once: they share only `uip_buf`, which `Stale`
  stands for, and the file system.
* Downloads and drawing in the page; `scripts/uip-deploy.py`, which keeps no
  state.
