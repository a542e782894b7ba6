# EtherSia in TLA+

A verification project for EtherSia, an IPv6 library for Arduino with drivers
for the ENC28J60, W5100 and W5500 Ethernet controllers. This tree adds the
active TCP client (`TCPClient`) and the emonCMS sketches that use it. Paths
below are relative to the repository.

The modules model what the code does. A statement of a comment that the code
does not keep is stated as a property too, and checked by a run that is expected
to find the violation (see *Disagreements*).

## The system

EtherSia runs on one thread. A sketch's `loop()` calls `receivePacket()`,
which puts at most one frame into one shared buffer, and then offers it to each
socket. A handler answers in place, in the same buffer. There is no heap, the library
has no interrupt handler and no queue but the controller's (one sketch, WebToggler,
has a timer interrupt). What is hard is therefore:

- the *order* in which the network, the clock and the sketch take turns;
- what is read from the shared buffer, or from a flag, *after* it has changed;
- lost, repeated and reordered packets, and timers of 8, 16 and 32 bits;
- loops inside a handler (TFTP, DNS, discovery) that hold up everything else;
- the controller, which works on between any two commands on the SPI bus;
- restarts by the watchdog, at any point.

| Component | State | Operations | Interacts with | What makes it correct |
|---|---|---|---|---|
| EtherSia core (`EtherSia.cpp`) | packet buffer, `_bufferContainsReceived`, own addresses, router, DNS server | `begin`, `receivePacket`, `prepareSend`, `prepareReply`, `send`, `rejectPacket` | driver below, ICMPv6 and sockets above | a packet is answered at most once, to its sender, from the right address; no answer to an answer |
| ICMPv6 (`icmp6.cpp`) | global address, router MAC, DNS server | NS/NA, echo, RA, error replies, `icmp6AutoConfigure`, `discoverNeighbour` | core; called by `setRemoteAddress` | the address is set once and from a valid prefix; a bounded number of solicitations, each given time |
| DNS (`dns.cpp`) | request id, counter | `lookupHostname`, encoding, parsing | UDPSocket | the answer belongs to the request; bounded; parsing stays in the packet |
| Socket, UDPSocket | remote and local address and port, write position | `setRemoteAddress`, `send`, `havePacket` | core | a packet is only accepted by the socket it is for |
| TCPClient (`TCPClient.cpp`) | connection state, sequence numbers, outstanding length, timers, flags | `connect`, `havePacket`, `send` | core; the sketch | see below |
| TCPServer, HTTPServer | none between packets (body and path pointers) | `havePacket`, `sendInternal`, `checkRequest` | core; the sketch | the reply is derived from the request alone, and acknowledges what it answers |
| TFTPServer (`TFTPServer.cpp`) | locals of a transfer | `handleRequest` and the two transfer functions | UDPSocket; the sketch's files | the copy is the file, once and in order; the server returns |
| Syslog (`Syslog.cpp`) | priority, write position | `print`, send at each newline | UDPSocket | one line, one packet |
| Drivers (W5100, W5500, ENC28J60, LinuxSocket, Dummy) | chip registers, ring buffers, register bank | `readFrame`, `sendFrame` | SPI, the core | frames come out whole and in order; buffer space is freed once |
| Pure functions (`util.cpp`, `IPv6Address.cpp`, ...) | none | checksum, parsing, comparison | everyone | equal to their definitions |

`PROJECT.json` lists the components with what is modelled of each, and the
hazards with the line where each bites.

## Modules

| Module | Models |
|---|---|
| `TCPClient` | `TCPClient.cpp` and the loop of `examples/emonCMSClient`, against *any* sequence of packets |
| `TCPClientProofs` | theorems about it |
| `TCPSession` | `TCPClient` with an HTTP server and a network that loses, repeats and reorders |
| `TCPSessionProofs` | theorems about it |
| `FileTransfer` | abstract: what a transfer of a file promises, in either direction |
| `TFTPServer` | `TFTPServer.cpp`, as actions that receive one packet each |
| `TFTPSession` | `TFTPServer` with a client and such a network; implements `FileTransfer` |
| `TFTPSessionProofs` | theorems about it, that it does so among them |
| `EtherSia` | the core, ICMPv6, neighbour discovery, `lookupHostname()` and the sockets of a sketch, over one packet buffer |
| `EtherSiaProofs` | theorems about it |
| `WebToggler` | `examples/WebToggler` with its `HTTPServer` and `TCPServer`, its timer interrupt, a client and a network that loses, repeats and reorders |
| `WebTogglerProofs` | theorems about it |
| `FrameFifo` | abstract: what the core expects of a driver |
| `Wiznet` | the W5100 and W5500 drivers with their controllers; implements `FrameFifo` |
| `WiznetProofs` | theorems about it, that it does so among them |
| `ENC28J60` | the ENC28J60 driver with its controller; implements `FrameFifo` |
| `ENC28J60Proofs` | theorems about it, that it does so among them |
| `Checksum`, `Addresses`, `Messages`, `Printing`, `RoundTrip` | functions that compute from their arguments alone |
| `Operators` | calls of those functions with every argument of bounded sets, and their reference definitions |
| `OperatorsProofs` | theorems about the checksum, the addresses of a board, the texts of addresses, the estimator, replies of name servers, the matching of requests and printing |
| `MC...` | constants for TLC, nothing else |

### TCPClient

`havePacket()` is a function with labels and some thirty gotos. Each way through it
is one action (`HaveSynAck`, `HaveFin`, `HaveOutOfOrder`, ...), and
`CheckForRetransmit` is the tail that those which jump to `drop` by way of
`check_for_retransmit` share. Everything a call does is in that one action, the
packet it sends included (`sent`). The prefix of every call is in operators of its own:
`IdleNow`, `EntryFlags` and `EntryTimer` are `_inactivity`, `_appliFlags` and
`_timer` at the point where the packet is looked at.

A loop iteration of the sketch is two steps: `Poll` (`receivePacket()` and
`havePacket()`) and what the sketch decides from the flags (`Hang`, `Connect`,
`SendData`, `Pass`). `Tick` is a period of 250 ms; it may come at any time,
also between the two. `Hang` is the `while(1)` after `tcp.reset()`, from which the
sketch's watchdog restarts the board. The sketch's condition
`remoteHostDiscover` is true: discovery takes place in `setup()`.

Ports are pairs of bytes, because the code gets a byte order wrong. Sequence
numbers are taken modulo `SeqMod`, the timer modulo `TimerMod`. The round trip
estimator is abstracted: an acknowledged segment gives `_rto` any value of
`RtoValues`; the estimator itself is in `RoundTrip`. Left out: checksums, windows, the MSS option, the counters that are only printed.

### TCPSession

The server is not in the repository. It is a TCP with a sliding window: it accepts
on a SYN, delivers in-order data, answers out-of-window segments with an
acknowledgement and segments without a connection with a RST, sends any segment
in its window at any time (so its retransmission timer is arbitrary), puts its FIN on
the last byte or sends it alone, and forgets a finished connection when it likes.
Each segment carries the identity of its payload (connection, position in the
stream), which nothing in the protocol looks at, so that the properties can tell
what has been delivered. Ports, initial sequence numbers and the requests of
consecutive connections are real: a restart of the board begins with the same
port again, with segments of the old connection in flight.

### FileTransfer, TFTPServer, TFTPSession

The server is in one of three places: the main loop (`mode = "listen"`),
`handleWriteRequest()`, or `waitForAck()` in `handleReadRequest()`. `block` is
`expectedBlock` or `block`. The time-outs are two steps, `TimePasses` and the
turn of the loop that notices it, because a late packet may come between them.
`written` is the history of `writeBytes()` calls, `finished` of transfers that
ended with their last block; the code needs neither. A transfer's socket takes
`random(20000, 30000)` as port: the model takes one not used before.
`setRemoteAddress()` may fail to find the client's MAC address, which the code
ignores; to the client it is a network that loses everything, and is covered by it.

The client is not in the repository either: RFC 1350 with a port of its own for
each transfer, locked to the server's port by the first answer, repeating its
last packet at any time, and giving up at any time.

`FileTransfer` is what both directions promise: a copy that grows by the next
block, a receiver that is done when the copy is whole, a sender that believes so
only afterwards. The refinement mapping of `CarriesOutTransfer` reads the
receiver's side from the server in a write and from the client in a read.

### EtherSia

One board, from `begin()` on. A step is a call of `sendFrame()` or `readFrame()`
with all that is done until the next one: `receivePacket(f)` is what happens to a
frame up to the return of `receivePacket()`, with the reply that ICMPv6 makes
inside. `pc` is where the single thread is: one of the three loops that wait for an
answer (`autoconfigure`, `neighbour`, `lookup`), or a part of the sketch's
`loop()`. A turn of a waiting loop is the test of the timer (`SolicitRouter`,
`SolicitNeighbour`, `SendRequest`, or `NotYet`) and a reception (`AwaitRouter`,
`AwaitNeighbour`, `AwaitAnswer`), and `TimePasses` may come before or between them.
`discoverNeighbour()` is called by `setRemoteAddress()` only: of the lookup's own
socket (`forLookup`, result ignored as in `dns.cpp:149`) or of the sketch's.

The sketch is the loop of `examples/SNTPClient` with the `TCPServer` of
`examples/MiniHTTPServer` offered each packet after its `UDPSocket`, so that three
parties look at one packet, and `rejectPacket()` as the last. The `delay(60000)` after
a failed lookup and the one in `begin()` are left out: nothing happens in them.

A frame is one record for all protocols. Advertisements have a sequence of options, each with its
length, and `ProcessRA` and `AdvertisesMac` do what the loops over the options do with it: a later
router address or DNS server replaces an earlier one, of the prefixes the first that may be used
counts, and of the neighbour's addresses the first. An option of length 0 is looked at for ever
(`Reached`, `NeverReturns`, `SearchesForEver`), and `pc` is then `"endless"`. Left out is what the loops read
behind the end of a frame whose last option is longer than what is left of it. `arrived` and `answers` are history: the last frame read, and how often it has
been answered. `asked` is what the DNS has been asked: answers may come
late, repeatedly, out of order or never, and are only of the host that was asked for.
The other frames are `Traffic`, any of which may arrive at any time. For the safety of
answers that is *any* set of frames (the theorems say so); for `RemoteIsHost`
and `MacIsNextHops` it is an honest link. Two assumptions are made about a lookup's
`random(65535)` identifier: it differs from that of the last lookup, and when an older
one is used again no answers to it are under way. The lookup's random port is the
same in every lookup, which only lets more in.

### WebToggler

A stateless server in front of state: the outputs. `HasData` is
`TCPServer::havePacket()`, `SendInternal` derives sequence numbers and flags of an
answer from the segment it answers, and what no socket takes goes to `rejectPacket()`
(`AnsweredAtOnce`). `loop()` is atomic but for two places where the timer interrupt
matters and the code has interrupts enabled: between the reads of the outputs for the index page
(`Read`, one output a step) and between `digitalRead()` and `digitalWrite()` of
`digitalToggle()` (`HandleToggle`, then `Toggle`). `CheckButtons` is the interrupt
handler, for every combination of button levels.

`Socket::write()` has no bound, so the length of a page matters: `Printed` counts its bytes, and
when they do not fit into what is left of the packet buffer behind the headers (`Fits`) the step of `SendIndex` ends in `"overrun"`. What is
written lies then over fields of the object, C++ defines nothing from there on, and neither does the model: the board stutters (`Undefined`). All other
answers are short (`ShortAnswersAssumption`).

The client is external: a TCP of RFC 793 with the checks of RFC 5961, which sends its
request in one segment or head and body in two, sends again whatever is not
acknowledged, and keeps the answer it got. `levels` is the history the properties need: the levels each output has
had since a connection asked.

### FrameFifo, Wiznet, ENC28J60

`FrameFifo` is what the core expects of a driver: frames come out whole, in order and
once (or are dropped when too large), and each frame that is sent is on the wire once at most. Its variables
`pending`, `got`, `sending` and `out` are history variables of the two driver modules, so the
refinement is the identity and what is checked is that the bytes, pointers
and counters of the controller agree with them.

`Wiznet` is one module for `w5100.cpp` and `w5500.cpp`, which differ in who wraps the pointers
(the driver, `AddressByDriver`, or the chip, `AddressByChip`), in the commands they
wait for, and in the calls of `begin()` and `end()`; `Driver` says which. Every register of more than one byte is read byte
by byte with the controller's steps in between, in either order where C leaves it open
(`wizchip_read_word`). Bytes of a frame that have been freed, or not written yet, are
wiped, so that reading one shows.

`ENC28J60` has a step for each command on the SPI bus that can interfere: `setregbank()`
reads ECON1 and writes it back in two (`BankRead`, `BankWrite`), with `then` as the place to return to, and
ERXRDPT is two bytes of which the second one takes effect. A variable with the name of a register is that
register. `begin` may come at any point: it is what the
sketch does after the watchdog has fired.

### Checksum, Addresses, Messages, Printing, RoundTrip, Operators

Strings are sequences of small numbers, bytes are modulo `ByteMod`. The loops of the code are folds or recursive functions, and
where the code reads or writes beyond the end of its argument the model is undefined, which TLC
reports, but for two places where the code does: what `checkRequest()` finds behind the NUL of a pattern is one more argument
(`behind`), and what `Socket::write()` writes behind the buffer of `PayloadSize` bytes is counted (`overrun`). `Operators` makes one call at a time with any arguments of the bounded sets and
keeps arguments and result, so that a property is an invariant that
compares them with a reference definition: the one's complement sum of RFC 1071, the address a text denotes, the
records of a message by construction, matching of a path by characters, lines, and the estimator in
integers.

## Runs

| Run | Shows |
|---|---|
| `TCPClient_loop` | the client against arbitrary packets: `TypeOK`, `OutstandingMatchesState`, `SendIsSafe`, `RetransmitBudget`, `EndIsSignalled`; and that it gives up: `PeerLossIsNoticed`, `DeadConnectionEnds` |
| `TCPSession_connections` | two connections, restart in between, responses of two bytes, with old segments in flight: `ReadsResponseInOrder`, `CloseMeansComplete`, `RequestOnce`, `SequenceAgreement` |
| `TFTPSession_transfer` | a write and a read: `InStep`, `CarriesOutTransfer` (refinement), `ServerReturns`, also at the limit of a read |
| `EtherSia_node` | a board on an honest link: `TypeOK`, `AnsweredOnce`, `AnswersGoBack`, `RejectsOnlyRequests`, `RemoteIsHost`, `MacIsNextHops`, `ConfigurationIsStable`, `CallsReturn` |
| `WebToggler_requests` | every request to a sketch with one output, whose page fits while it is on, over a bad network with the button pressed at any time: `TypeOK`, `AnswersAreTrue`, `ResetOnlyAtWrap`, `TogglesAreDebounced` |
| `Wiznet_frames` | both W drivers: `SizeIsReal`, `FramesIntact` (refinement), `CallsReturn` |
| `ENC28J60_frames` | `EconKept`, `BanksAgree`, `PointersAreRight`, `FramesIntact` (refinement) |
| `Operators_functions` | `ChecksumIsAccepted`, `AddressesAreRead`, `SolicitationsReach`, `AnswerIsFound`, `RequestIsMatched`, `PrintedIsSent`, `EstimatesAreReal` |

and those listed under *Disagreements*.

What three of the properties say, and what they do not:

- `CallsReturn`: the three loops that wait end, whatever arrives, but for a frame with an option of length 0. That exception is the
  run `EtherSia_options`.
- `RequestIsMatched` is exact for requests whose path ends within `maxlen`: a path is matched if it is as long as the pattern and begins as
  it does up to a `#`, or, with a `#`, if it is longer *and the byte at the place where it ends, which lies behind the pattern, happens to be
  NUL*, which is not what `HTTPServer.h:33` says. The body begins behind the
  first line that is empty or has one character: that is how `\r\n` is recognised, and a line `x` is taken for it as well.
- `PrintedIsSent` says when a socket sends what was printed, for texts that do not begin with a line
  break, and exactly when `write()` goes behind the buffer.

**Bounds.** In `TCPClient` sequence numbers are modulo 4 and the set `Packet`
contains every combination of the flags, numbers, ports and lengths that a test in
`havePacket()` distinguishes, with one packet for each check that drops it. Three
bytes' worth of timer (`TimerMod = 6`) are enough for the back-off to be cut off and the
wrap at zero to be seen; retransmission budgets of 1 and 2 differ, as the code's 5 and
8 do. `InactivityTimeout` is longer than all retransmissions of
a request together and the reconnection interval is shorter, as with the code's values
(600 s, at most 285 s, 30 s). In the sessions the run leaves the last packet sent and the shared buffer out of the
states it tells apart (`VIEW`): no step or property of it reads them, but for the destination in the
buffer, which decides the source of a packet only on a board with a global address (`OneSource`). `SeqMod = 16` is more than the
numbers two connections use. `Capacity` 2 (3 for TFTP) packets in flight is
enough to have an old packet, a new one and a loss at once: a segment that finds no
room is lost. The second of two connections is followed until its server sends a FIN
(`LastUnfinished`), the first to its end. `MaxConnections`, `MaxSessions` and the number of transfers bound the
behaviour, not a single transfer; what exceeds them is not started. Files have
three blocks, so there is a first, a middle and a last one. `Retries` of 1 gives each
of: first attempt, repetition, giving up.

In `EtherSia` there are two routers with different prefixes, a DNS server and a host on the
link and one beyond it, and of each kind of frame one for each test it is put to: so an
advertisement of the wrong prefix or the wrong neighbour, and an answer to the lookup
before, can arrive in each loop. Options come in either order, twice, and with one of length 0 before or behind what is looked for. Attempts are 1, 2 and 1: first, another, and one too many.
Two identifiers are the least with which consecutive lookups differ.

In `WebToggler_requests` there is one connection and one output, and a buffer of 522 bytes, which the page of an output that is on just fits and the page of one that is off, two bytes longer, does not, so
that both ends of `SendIndex` are seen; the request is any of those the sketch
distinguishes and some that it does not, `DebounceCount` 1 and `IgnoreCount` 2 (3 and 8 in the code) are enough for a
press to be too short, a release to be too short, and a toggle; `SeqMod` 16 exceeds the bytes of a
request and its answer, `RandomSeq` {5, 14, 15} has the answer begin in the middle of the numbers, at their end, and
across it, and `Capacity` 2 has one old segment and one new.
In the drivers' runs the rings are a few frames long, so that each frame wraps at some time, frames
are of even and odd length and one is larger than the buffer, and 16 bit pointers wrap after a few turns of the ring. In
`Operators_functions` the buffer has four bytes, so that texts and lines do not fit, and each set has, for each test a function makes of its argument, one argument on either
side of it; the lists are in `MCOperators`. Round trips are up to 31 ticks, where the estimator stops being exact.

**Deadlock** is checked in every run but one. `TFTPSession_transfer` ends when the client has
used its transfers, so it does not check it; that the server returns is
`ServerReturns`.

**Fairness.** TCP: `loop()` is called for ever (`Poll`, `Loop`), and the clock
advances; the watchdog is a step of `Loop`. `LiveSpec` also takes a turn of `loop()`
to be shorter than the 250 ms period (`TimelyTick`): it neither waits nor delays, and
only then can the retransmission timer be compared with the inactivity timer. TFTP: the time-outs pass and the
loops notice it. EtherSia: the thread runs (`Turn`), and the clock advances (`TimePasses`);
both are the processor's, which never sleeps. Wiznet: a call that has begun goes on (`Step`), and
the controller does what it has been told (`Chip`); `CallsReturn` excepts a board that
is restarted for ever, because `begin` may come at any time. The other modules claim nothing that needs fairness. Nothing is assumed of the network, the peer or the client: they may
stop at any time.

## Proofs

`TCPClientProofs` proves, for every value of the constants that satisfies the
assumptions in `TCPClient` (any set of packets, width of numbers and ports, budget
and interval):

- `TypeCorrect`: `Spec => []TypeOK`;
- `Safety`: `Spec => [](OutstandingMatchesState /\ SendIsSafe /\ RetransmitBudget)`, and from it
  `SendSafe` and `BudgetKept`;
- `EndSignalled`: `Spec => EndIsSignalled`.

None of the three invariants is inductive alone. `IInv` joins them with what relates
the flags to the state *between* calls: the flags found by the sketch are those of the
call before, `CONNECTED` is only set with nothing outstanding and by the call that
entered the state, `REXMIT` only with something outstanding, and a retransmission
counter is below its limit whenever one more will be counted. `connect()` and `send()`
leave the flags standing, so this is needed for `pc = "app"` only; that the next call
to `havePacket()` clears them is what makes `SendIsSafe` hold. The proof of a
step has one lemma per group of exits of `havePacket()` and one per step of the sketch.

`TCPSessionProofs` proves, for every length of request and response, window, size of the network
and number of connections, with segments lost, repeated and reordered and the board restarted at any time:

- `ResponseRead`: `Spec => []ReadsResponseInOrder`;
- `ResponseComplete`: `Spec => []CloseMeansComplete`;
- `RequestReadOnce`: `Spec => []RequestOnce`;
- `NumbersAgree`: `Spec => []SequenceAgreement`

(`Spec` is `SessionSpec`). They have the hypothesis `Ordinary`, which `MCTCPSession` evaluates for the instances that TLC
checks: the request is as long when it is sent again as it was (the code lets a sketch do otherwise, `TCPClient.cpp:398`); both
streams are shorter than the sequence space; the streams of different connections have no number in
common; and the server sends no bare ACK before its SYN|ACK is acknowledged, because the code
takes that for a SYN|ACK, which is what the run `TCPSession_synack` shows.

None of the four is inductive, nor are they together: what a segment does depends on what its numbers mean, and
segments of earlier connections are still in flight. `SessionInv` therefore says which number belongs to which byte of which
connection. `ClientRight`: the client stands at the byte after the last it has read, and its request is unsent,
outstanding or acknowledged. `NetRight`: a segment carries a byte at that byte's number, and acknowledges no
more than the server has received. `ServerRight`: what each control block has received and
sent, and that the block of the open connection has not been reset. As different connections have
different numbers, what `havePacket()` finds in order is the next byte of *this* connection,
an acknowledgement means that the server has the request, and a RST never meets the block of the open
connection. There is one lemma per case of `havePacket()` and per step of the server.

`EtherSiaProofs` proves, for any set of frames that may arrive and any addresses, ports
and numbers of attempts:

- `TypeCorrect`: `Spec => []TypeOK`;
- `OneAnswer`: `Spec => []AnsweredOnce`;
- `AnswersCorrect`: `Spec => [](AnswersGoBack /\ RejectsOnlyRequests)`, and from it `RejectsRequests`;
- `ConfigurationStable`: `Spec => ConfigurationIsStable`.

`AnsweredOnce` needs that a packet which still counts as received has not been answered
(`Unanswered`), and `AnswersGoBack` that it is the one that arrived last
(`BufferIsArrived`): every reply is made from the buffer. The steps are of four kinds,
with a lemma for each: nothing is sent (`QuietKeeps`), a packet of the board's own is
(`OriginateKeeps`), the buffer is answered (`AnswerKeeps`), or a frame is read
(`ReceiveKeeps`). Types are split into flags and values because no single prover does both.
These proofs assume nothing of the link. Two more have the hypothesis `HonestLink`: neighbours
advertise what belongs to them (whatever `AdvertisesMac` reads in their options), answers of the DNS are to what it has been asked, and no node has an
address in the subnet of `::`, which counts as ours until there is a global one:

- `FindsHost`: `Spec => []RemoteIsHost`;
- `FindsNextHop`: `Spec => []MacIsNextHops`.

`NameInv` says that each request under way with the identifier of the lookup is for its host, and
that whoever is looking something up has no server yet, so that the flag cannot be found cleared
half-way. `MacInv` adds that an address the sketch has discovered stays in the subnet: the configuration
only changes from `::` on. In `AwaitAnswer` that is what tells an address beyond the router from the
neighbour found before.

`ENC28J60Proofs` proves, for every size of ring and memory and any frames:

- `NoBitLost`: `Spec => []EconKept`;
- `BanksSelected`: `Spec => []BanksAgree`;
- `PointersStayRight`: `Spec => []PointersAreRight`;
- `Implements`: `Spec => FramesIntact`, the refinement of `FrameFifo`.

For the first two the inductive invariant is about ECON1, the driver's copy of the bank and the place in the
code only. `EconKept` needs `TransmitsInWait`: TXRTS, the one bit of ECON1 that the
controller changes, is set in the loop at the end of `sendFrame()` only, so that nothing
changes between the read and the write of `setregbank()`. `BanksAgree` needs `SwitchesRight`, that a
call of `setregbank()` under way selects the bank that is relied on where it returns to, and that the
places in between (`"header"`, `"frame"`) stay in the bank. That `begin` may come
anywhere costs nothing: it leaves a place that relies on no bank.

The other two are about the ring and have an invariant of their own, `RingInv`. It counts positions over two
turns of the ring, so that a frame that wraps is a piece like any other. `FramesLie`: there is a list of positions, from the byte after
ERXRDPT to ERXWRPT, at which the frames not yet freed lie whole, each at an even place and with the
pointer to the next in front. `ReaderRight`: at every place of `readFrame()` the read pointer is at a known place of the first, and what
has been read so far is its length and the pointer to the next, or the frame. `SenderRight`: the frame to send lies outside the
ring and is what `sendFrame()` was given. A frame that arrives is written behind the last position and
stops short of ERXRDPT, so it leaves the others alone; the errata 14 value of ERXRDPT is the byte before a frame, odd because frames are even.

`WiznetProofs` proves, for both controllers, every size of their memory, of a byte and of pointers, and
any frames:

- `SizeStaysReal`: `Spec => []SizeIsReal`;
- `Implements`: `Spec => FramesIntact`, the refinement of `FrameFifo`.

`IInv` counts positions from the last RECV on, as pointers wrap at another size than the buffer does. `FramesLie`,
`ReaderRight` and `SenderRight` are like those of the ENC28J60; a frame is written at less
than a buffer from the last RECV, which is why it misses the one that is being read.
`SizeRight` is what `SizeIsReal` needs: the bytes read so far are of values the register had, in that order, and the
size only grows while it is being read, so two equal readings in a row are a value it had in
between. In both modules the steps that `FrameFifo` sees are the arrival of a frame, the return of a
whole one, the call of `sendFrame()`, the transmission and `begin()`; all others stutter.

`TFTPSessionProofs` proves, for any number of transfers, retries, sessions and packets in flight,
under the hypothesis `Short`, that no file has a block number twice (32 MB with the code's
`uint16_t` and blocks of 512 bytes; a longer file can take an old packet for a new one, in any TFTP):

- `Implements`: `Spec => CarriesOutTransfer`, the refinement of `FileTransfer`;
- `StayInStep`: `Spec => []InStep`.

The invariant joins five parts: types; `CopiesRight` (a copy is a beginning of its file, and known to be whole when it
is); `NetOK` (what each packet in flight says is still true: a block has its number's contents, an
acknowledged block has been received); `ClientOK` and `ServerOK` (where the two counters are). The hard case is a
request that is repeated, or late, when its transfer is already under way, so that the server begins
the same write again with block 1 expected while the copy is longer. No block ever comes to such a session, because the
client is locked to the port of another one: that is `Abandoned`, and why `NetOK` follows the ports of
data in flight. The proof has a lemma per kind of step for the invariant, and one for each of the four steps that
are visible in `FileTransfer` (`WritesBlock`, `ReadsBlock`, `EndsRead`, `EndsWrite`); all others stutter.

`WebTogglerProofs` proves, for any number of outputs, connections and segments in flight, any set of
requests, limits of the counters and random numbers, and buttons pressed at any time:

- `TypeCorrect`: `Spec => []TypeOK`;
- `AnswersTrue`: `Spec => []AnswersAreTrue`;
- `ResetsMissTheWindow`: `Spec => []ResetOnlyAtWrap`;
- `Debounce`: `Spec => TogglesAreDebounced`.

`Debounce` needs only the buttons: `ButtonInv` says how each counter and the samples it stands
for go together, and no other step touches them. The rest is one invariant, `SessionInv`. Its part about the
network (`SegmentOK`) says that an answer in flight is true, that what comes from a client is a
piece of its own request, and that a RST has number 0. `LoopOK` follows a request through `loop()`: what has been
read so far are levels since the client asked, and the page has each output once and in order.
What was true of an answer stays true (`AnswersKept`), since `levels` only grows and a
client never changes its request. The assumptions on the constants are that there are
outputs, nine at most, and requests, more than four sequence numbers, and a buffer that holds the short answers. `AnswersTrue` is of the answers that are sent: a board
that has written behind its buffer sends none in the model, so of a page that does not fit the theorem says nothing, and the
sketch, with four outputs and 600 bytes, has such a page (`WebToggler_overrun`).

`OperatorsProofs` proves, of the functions:

- `ChecksumRight`: `Spec => []ChecksumIsAccepted`, for addresses and payloads of any length;
- `BoardsAreFound`: `Spec => []SolicitationsReach`, for any MAC addresses and prefixes;
- `TimeoutIsReal`: `Spec => []EstimatesAreReal`, for any number of samples;
- `RequestsMatched`: `Spec => []RequestIsMatched`, for requests and patterns of any length and whatever lies behind a pattern;
- `PrintedRight`: `Spec => []PrintedIsSent`, for texts of any length and a buffer of any size;
- `AnswersFound`: `Spec => []AnswerIsFound`, for replies with any names and answers;
- `AddressesRight`: `Spec => []AddressesAreRead`, for any groups of an address, its "::" anywhere.

`ChecksumRight` has the hypothesis `RealPackets`: payloads have room for the checksum, and length and
protocol make one word, as they do for a packet of less than 64 KB. The one's complement sum is congruent to
the sum in integers modulo `WordMod - 1` (65535) and, because the length is not 0, is never 0; so `isValid()` is true exactly of the packets
whose sum in integers is a multiple of it. What `sendInternal()` stores makes it one, and another value of one byte changes it by less than
65535, at either place of a word. The sums are compared by induction on the length of the data; since
an induction principle with an operator parameter cannot be used, the step takes the least
index where the claim fails (`LeastNumber`, from the well-foundedness of `<` on the naturals).
`TimeoutIsReal` has the hypothesis `ShortRoundTrips`, at most 31 ticks: from 32 on the estimator does overflow
(see below). Its invariant bounds the scaled mean by 255 and keeps the deviation in 3 .. 127.

`RequestsMatched` has the hypothesis `RealRequests`: texts and patterns consist of characters other than
NUL, and `maxlen` is a remainder. `MatchFrom` says from which characters on a request matches; up to the
end of its path it does so if each character fits and the pattern has its NUL where the path ends, and there
is only one such place (`MatchPathIs`); how that depends on a `#` is `PatternMatches`. `PrintedRight` has the
hypothesis `RealTexts`, that what is printed are characters, and the buffer has a size. `SocketHolds` and `SyslogHas` are the invariants over the characters of
a text, of the latter: the packets sent are those of the lines that have ended, in order, and the payload is
the header and the line that has begun, if one has. Both are inductions of the same kind.

`AnswersFound` has the hypothesis `RealReplies`: the labels of names are not empty and shorter than a
pointer byte, a name ends in a 0 or a pointer, and there are fewer answers than a byte counts. Three
inductions carry it. `skipOverName()` goes from label to label and ends behind the name (`NameIsSkipped`); the
host that `encodeName()` writes is such a name (`HostIsName`); and where an answer lies in the message, those
after it lie behind its data (`PiecesLie`), so that from the first answer on, by the number of answers
left, `FindAddress` reads each from its own place (`AddressIsFound`).

`AddressesRight` has the hypothesis `RealAddresses`: groups and digits are values, and the text of a
MAC address has 17 characters. The first loop of `fromString()` counts one colon less than there are groups behind the
"::" (`GroupsCount`, `WrittenCount`), so `colon_count` is the place of the first of them. The second stores n groups of a text at n places in
succession, whatever stands elsewhere (`GroupsAreRead`); this is used for the groups before the "::", for those after
it, and for all eight of a printed address. Of a MAC address the digits before each character are those of the text
(`DigitsAreRead`), and it is read to its end exactly if each character fits (`MacIsRead`).

`MCOperators` evaluates all six hypotheses.

Only model-checked is liveness (`CallsReturn`, `ServerReturns` and the like): `ENABLED` and fairness are out of the
prover's reach. Every invariant and every action property of the runs is a theorem. What the recursive
functions of `Addresses`, `Messages`, `Checksum` and `Printing` compute is proved from their equations, and that there are
functions with these equations by the same induction on the least counterexample (`ColonCountsIs`, `SkipLabelsIs` and so on).

## Disagreements

Statements of comments that a run refutes; `PROJECT.json` quotes them.

| Run | The code |
|---|---|
| `TCPSession_synack` | a bare ACK is taken for a SYN\|ACK (`TCPClient.cpp:233`) |
| `WebToggler_race` | a button press between the read and the write of `digitalToggle()` is lost (`WebToggler.ino:115`) |
| `WebToggler_overrun` | the index page is longer than the packet buffer (`WebToggler.ino:158`, against `EtherSia.h:27`) |
| `EtherSia_options` | an option of length 0 keeps `receivePacket()` or `discoverNeighbour()` in a loop for ever (`icmp6.cpp:188`, `:210`, against `EtherSia.h:230`) |

Seen while modelling, and not worth a run each. The models contain all of these but those
marked *, which are outside their bounds or in what they leave out.

*TCPClient.* The retransmission timer is a byte and wraps at zero when the call that brought it there, and
each one up to the next period, left by an exit that does not look at it, which delays the retransmission by 64 s
(`TCPClient.cpp:84`, against the comment at `:82`). A RST goes to the byte-swapped port (`TCPClient.cpp:158`). A resent SYN or FIN takes its
source address from the destination of an unrelated packet (`:325`). `payloadLength()` is 0 once
`havePacket()` has built its ACK (`:295`, against `TCPClient.h:54`). A SYN is
sent `1 + UIP_MAXSYNRTX` times (`:308`, against `TCPClient.h:155`). `connect()` restarts
the inactivity timer (`:46`), so a sketch that reconnects to an unreachable server every
30 s never sees `reset()`. The request that is repeated on `rexmit()` need
not be as long as the outstanding one (`:398`). The estimator is exact for round trips of at most 31
ticks; from 32 on its bytes overflow, and `_rto` can come out as 0 * (`:208`).

*TFTP.* After 65535 blocks the server does not acknowledge the
block before the expected one again (`TFTPServer.cpp:63`), and a read ends after 65534
full blocks without its last one (`:101`). A repeated ACK makes the server resend at once and
counts as a retry (`:146`).

*Core, ICMPv6, DNS.* Five Router Solicitations and four DNS requests are sent, where the constants say four
and three (`icmp6.cpp:258`, `dns.cpp:151`). The DNS answer that
`lookupHostname()` has used still counts as received, and the SNTPClient loop rejects it
with Port Unreachable when the host is not a neighbour. As long as there is no global
address, `::` counts as ours (`EtherSia.cpp:54`). A RST is rejected with a RST
(`:151`), and so is the ACK that ends every handshake of the server (`:153`). After the last solicitation or request there is one look for an answer
(`icmp6.cpp:287`). `skipOverName()` does not skip the root name *, a reply with fewer records than its `ancount` is read behind its
end *, and a host with a dot at its end is
encoded with an empty label more * (`dns.cpp:57`, `:11`). A UDP checksum of 0, which means none, is sent as it is
(`UDPSocket.cpp:66`). `IPv6Address::fromString()` accepts any text *.

*HTTP and printing.* A `#` in a pattern matches the rest of a path only by chance: where a longer path ends, `checkRequest()` wants to see the
NUL of the pattern and finds what lies behind it in memory (`HTTPServer.cpp:92`, against `HTTPServer.h:33`, "If the path
contains a '#' it will match the rest of the path"). A line break that is the first character printed to a socket is written in front of the payload,
into the header, and not sent (`Socket.cpp:184`, against `Socket.h:215`, "in the normal way, like any other character"). `maxlen` is a byte, so
a request whose length is that of the method and 1 modulo 256 matches any path *; a request that ends
before a white space matches if it is a prefix. The body of a request alone is answered with 404, and its cumulative
acknowledgement hides a head that was lost. A toggle that is sent again is executed
again. A FIN with data acknowledges the data and drops it (`TCPServer.cpp:35`). A line of one
character ends the head of a request (`HTTPServer.cpp:118`).

*Drivers.* `sendFrame()` of the W drivers returns 65535 on a time-out where `EtherSia.h` says bytes
transmitted. ENC28J60's `reset()` ends with the controller in bank 0 and the driver's copy at 3, which is harmless
because every access selects a bank first (`BanksSelected`). That TXRTS always clears is the controller's promise; errata 12, for which it does
not, is not handled *. `MACAddress.cpp:56-70` contains conflict markers of an unfinished merge, so only one side of it can be what is
built.

## Not modelled

The LinuxSocket and Dummy drivers (I/O for the tests); the layout and wording of headers, pages and
Syslog lines; access to header fields; the setters of configuration that a sketch calls before
`begin()`; the W5500's PHY configuration, which nothing calls; the sketches other than emonCMSClient,
SNTPClient and WebToggler, which only show the use of one component; the AVR libraries; and `ApplicationMonitor`, a third-party
watchdog library in a sketch's directory, of which the models have the effect, a restart at any time.
Not composed: two boards, and a socket with a driver; the interface between them is `FrameFifo`, from which the
modules of the sockets only take that frames arrive whole.

## Plan

Done: all modules above, and the proofs of all safety properties. Left, in this order:

1. `TCPSession` with requests that are sent again with another length.
2. Two boards, which must fall silent after a rejection.
