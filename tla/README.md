# A TLA+ model of QNEthernet_WIFI

QNEthernet is a C++ network library for microcontrollers: an Arduino-style API
(`EthernetClient`, `EthernetServer`, `EthernetUDP`, ...) over a vendored lwIP
stack, with drivers for several network chips; this repository adds a WiFi
driver for the CYW4343W. There are no threads. Concurrency comes from
`Ethernet.loop()`, which processes received frames and timers and so makes
lwIP call back into the library: from `yield()`, and in the middle of most API
calls. What a call has read before it calls `loop()` may be gone after.

This directory models that: what callbacks do to the objects of a program
between, and inside, the program's own calls. Below the library, the drivers
share memory with hardware that works on its own (DMA, an interrupt, a chip
behind SPI), and are modelled the same way, cut at every access.

## 1. Inventory

| Component (under `src/src/qnethernet/`) | State | Operations | Hard part | Correct when |
|---|---|---|---|---|
| `internal/ConnectionManager`, `ConnectionHolder.h`, `ConnectionState.h` | `connections_`, `listeners_`; per connection `connected`, `state` (PCB and buffer), `remaining`, `accepted` | `connect`, `listen`, `find...`, `write`, `flush`, and the callbacks `connectedFunc`, `recvFunc`, `errFunc`, `acceptFunc` | pointers to PCBs that the stack frees by itself; refused data and FIN | the list, the holders and the PCBs' arguments agree; no byte is lost, repeated or reordered |
| `QNEthernetClient`, `util/PrintUtils` | `conn_`, `pendingConnect_`, timeouts | `connect`, `connectNoWait`, `close`, `stop`, `abort`, `closeOutput`, `read`, `available`, `connected`, `write`, `writeFully`, `flush` | `loop()` in the middle of a call | as above; the peer gets what `write()` counted; `writeFully()` returns |
| `QNEthernetServer` | `listeningPort_` | `begin`, `end`, `accept`, `available`, broadcast `write`, `flush` | connections that come and go before `accept` | each connection is accepted at most once |
| `QNEthernetUDP` | `pcb_`, `listening_`, group, receive ring, packet read and packet built, counts | `begin`, `beginMulticast`, `stop`, `recvFunc`, `parsePacket`, `read`, `beginPacket`, `write`, `endPacket`, `send`, moves | failing paths, PCB pool, use counts of groups, callbacks by address | queue is the newest packets in order; PCBs are owned by one socket and never leak |
| `internal/CircularBuffer.h` | vector, `size_`, `head_`, `tail_` | `put`, `get`, `setCapacity`, `clear` | resize while wrapped | is a bounded queue that drops its oldest element |
| `QNDNSClient` | requests on the heap, variables of blocking calls | `getHostByName` (callback, blocking), `dnsFoundFunc` | an answer after the call that waited for it has returned | no late write; calls return |
| `QNEthernetFrame` | ring, frame read and frame built, counters | `recvFunc`, `parseFrame`, `read`, `beginFrame`, `write`, `endFrame`, `send`, `clear`, `setReceiveQueueCapacity` | `loop()` inside `parseFrame`, loopback inside `endFrame` | queue, counters and position agree |
| `QNEthernet` (`EthernetClass`), `lwip_driver` | `netif_`, `mac_`, DHCP flags, `s_mac`, netif added | `begin`, `start`, `end`, `setMACAddress`, `setDHCPEnabled`, `setLinkState`, `joinGroup`, `setMACAddressAllowed`, `loop` | restart, failure half-way | flags, addresses and filter agree with the netif |
| `QNMDNS` | `slots_`, `s_netifAdded` | `begin`, `end`, `addService`, `removeService` | slots here against lwIP's | the slots agree |
| `drivers/driver_teensy41` | receive and transmit rings, `s_rxNotAvail`, `s_pRxBD`, `s_pTxBD` | `init`, `proc_input`, `poll`, `output`, the interrupt | DMA and interrupt beside the loop | no frame lost, taken twice or left behind |
| `drivers/driver_w5500`, `internal/ByteBuffer.h` | `s_inputBuf`, pointers of the chip, `s_lastSendTxWr` | `init`, `deinit`, `proc_input`, `output`, `restartSocket` | registers that are out of date, 16-bit pointers | frames stay whole and in order; sends do not overlap; waits end |
| `drivers/cyw4343w` join, event, `WIFI_init` | `event_info` (join, link), `join_ticks` | `join_start`, `join_state_poll`, `join_event_handler`, `pollEvents` | events lost or taken elsewhere; one timer with three uses | attempts end, are spaced and go on; a lost link is noticed |
| `drivers/driver_CYW4343W` | init state, link state, `poll_ticks` | `init`, `deinit`, `poll`, `proc_input`, `output` | two readers of one frame queue | link state follows the join state |
| `drivers/cyw4343w` SDIO, ioctl, scan | request id, interrupt flag, scan table | ioctls, `scan` | unbounded waits, table bound | an ioctl ends; the table is not overrun |
| `QNPing`, `Ethernet.ping` | raw PCB, reply | `send`, `recvFunc` | late and foreign replies | a reply is for its request |
| `entropy` | the generator's registers | `get`, refill | none of its own | never reads past the pool |

Interaction: the API classes call lwIP; lwIP calls the static `...Func` of the
classes with a pointer it was given; `EthernetClass::loop()` calls
`lwip_driver`'s `proc_input()` and `poll()`, which call the driver.
`PROJECT.json` lists every component with its status, and the hazards with
their lines.

## 2. Modules

```
LwipTcp <- ConnectionManager <- TcpSockets <- MCTcp            (TLC)
                                           <- TcpSocketsProofs (TLAPS)
TcpTransmit (TLC) <- ClientProofs                              (TLAPS)
CircularBuffer <- CircularBufferProofs                         (TLAPS)
CircularBuffer <- EthernetUDP <- MCUdp                         (TLC)
                              <- EthernetUDPProofs, with
                                 CircularBufferProofs          (TLAPS)
CircularBuffer <- EthernetFrame                                (TLC)
                              <- EthernetFrameProofs, with
                                 CircularBufferProofs          (TLAPS)
DropOldestQueue <--(refined by)-- EthernetUDP
LwipNetif <- EthernetIf <- MCEthernet                          (TLC)
                        <- EthernetIfProofs                    (TLAPS)
Teensy41Driver (TLC) <- Teensy41Proofs                         (TLAPS)
ByteBuffer <- W5500Driver (TLC) <- DriverProofs                (TLAPS)
WifiJoin (TLC)  <- DriverProofs                                (TLAPS)
DNSLookup (TLC) <- ClientProofs                                (TLAPS)
```

**LwipTcp** is the part of lwIP's TCP that the library can see: a pool of PCBs
with their state, callback argument, refused data and pending FIN; what close,
shutdown and free do to one; and which can still call back. Freed slots keep
their fields, as in `memp_free()`, since stale pointers to them are what the
model is about. The default build (`LWIP_ALTCP` 0) is modelled.

**ConnectionManager** has the list, the holders and one action per callback,
each with the event of the stack that makes it. Bytes are numbers in the order
the peer sent them; `hist` remembers what was sent and read.

**TcpSockets** adds the program: clients and a server. A call that uses its
objects again after `Ethernet.loop()` is two actions, and `call` is the call in
between; callbacks can happen in either place. `strayCall` records that a call
has acted on a PCB that belongs to another connection by then. Left out because
unreachable with raw lwIP: callbacks with an error code other than `ERR_OK`
and a pbuf. After a stray call a callback with a null argument has no defined
outcome, and the model does not take it. A connection in `SYN_RCVD` is not seen by the
library and is part of `acceptFunc`.

**TcpTransmit** is the other direction, for one established connection.
`write()` and `writeFully()` are cut at each of their `loop()` calls (`call.at`);
`unacked` and `unsent` are one queue of which the first `flight` elements are
unacked, as a retransmission moves them back. How much `tcp_output()` sends is
left open (Nagle, congestion window, segment sizes, the driver); that
the slow timer sends something when nothing is in flight is not. The peer may
lose segments and acknowledgements, close its window, send data, reset, close
or fall silent. A broadcast of the server is a second writer to the queue.

**CircularBuffer** is the ring as operators on a record with the C++ fields.
**DropOldestQueue** is what it promises: a bounded queue; put drops the oldest
element when full, a smaller capacity keeps the newest; and when the object that
has it is moved, another one takes it over (`TakeOver`).

**EthernetUDP** has the sockets, the pool of UDP PCBs with ports and reuse
flags, and the use counts of groups. `begin()` and `stop()` are functions on a
state (`Begun`, `Stopped`) because `beginMulticast()`, the failing paths and the
destructor are made of them. No UDP call reads state before its `loop()` that
it uses after, so calls are single actions. Moved-from objects are a state of
their own; `MoveOpen` says whether a socket with a PCB may be moved.
`QueueSpec` follows the queue of `TheSocket`, any one of them.
Move assignment is not modelled.

**EthernetFrame** uses the same ring, with `clear()`. `parseFrame()` is two
actions, since it calls `loop()` between taking the frame and setting the
position; `endFrame()` may bring its own frame back in through
`lwip_driver`'s loopback.

**LwipNetif** is the interface as lwIP keeps it: flags, address, DHCP client,
groups with use counts, mDNS host and slots, and the hash filter of the MAC with
its bookkeeping of collisions. **EthernetIf** has `EthernetClass` and
`MDNSClass` on top of it, the cable and the DHCP server. Operations are
functions on the interface record, because `begin()` is made of `start()`, which
is made of half of the others.

**Teensy41Driver** interleaves the MAC's DMA, the receive interrupt and the main
loop at every read and write of a descriptor. Frames are numbers in the order
the MAC stores them. The search of `rxbd_next()` looks at one descriptor per
step.

**ByteBuffer** and **W5500Driver**: the local ring of bytes with its wrap, and
the driver one SPI access after another, against a chip that stores and sends
meanwhile. A received byte is the frame it belongs to and its place in it, so
that mixing two frames shows. The length the chip puts before a frame may be wrong
(`says`, `WrongLens`): below two, which makes the driver restart the socket, or more
than the chip can hold. A wrong length that fits would make the driver take bytes of
several frames for one; that is left out.

**WifiJoin** has `has_hardware()`, which starts the chip and joins at each call until
`init()` has been called (`hardwareStatus()` before `begin()` is one more start, and
`asked` remembers that it came between two attempts), `join_state_poll()` with its branches, the event handler as
the set of values it can leave in `event_info.link` (all of them where it
stores an uninitialized variable), the loop of `WIFIinit()`, the driver's
`proc_input()` and `poll()` in turn, and `deinit()`, which stops the chip without
telling the state machine. The card is taken to be there. The chip is external: it queues frames in
order. An ioctl drops a prefix of the queue. `poll()` runs the state machine
only when `EVENT_POLL_USEC` is over: it may at any turn and must after a tick
(`due`).

**DNSLookup** has requests, the stack frames of blocking lookups and a clock
that wraps. A request outlives its frame when a call times out. A blocking
lookup may begin while another one waits.

## 3. What is checked

`tlc -config <cfg> <module>`; each passing run takes under three minutes.

| Run | Bounds | States | Shows |
|---|---|---|---|
| `tcp` | 2 PCBs, 2 holders, 2 clients, 1 port, window 2; with 1 byte for one of the connections, or 3 bytes while 1 PCB and 1 client are in use | 835,815 | `ListIsExact`, `CallbacksFindHolder`: across every reuse of PCBs and holders; `StreamIntact` (of what a connection's holder has, whoever refers to it), `HolderIsConsistent` |
| `tcp_transmit` | send buffer 2, window 0..2, 1 retransmission, 3 bytes and 1 of a broadcast | 69,466 | `StreamExact`, `WriteFullyReturns`, `QueuedArrives` |
| `udp` | 1 socket, capacities 0..3, 6 packets; or 3 sockets, 2 PCBs, 2 ports, 2 groups, use count 2, no packets | 70,617 | `QueueIsNewest`, and `QueueSpec`: the ring implements `DropOldestQueue`; `PcbsAreOwned`, `GroupsAreHeld` |
| `raw_frames` | frames of 2 sizes, capacities 0..3, 5 frames | 222,525 | `QueueAddsUp`, `ParsedOnce`, `PositionFits` |
| `ethernet_if` | 2 MACs, a group and an address that share a bit of the filter, 2 services, 2 slots | 163,016 | `StaticIsSafe`, `ClientIsKnown`, `FilterAdmits`, `ServicesAreKnown`, `EndCleansUp`, `RemovesNamed`, `FlagKept`, `AddressComes` |
| `teensy41` | rings of 2, 6 frames in, 3 out | 73,853 | `FramesTakenOnce`, `RingsMeet`, `NoFrameWaits`, `DmaIsTold`, `TxInOrder`, `OutputReturns`, `RxDrains` |
| `w5500` | frames of 2 sizes, one too long, chip 6 bytes, ring 5 bytes, lengths 0 and 7 as wrong ones, pointers mod 7, 3 frames in, 2 out | 236,959 | `WholeFrames`, `EndToEnd`, `SendsAlone`, `LoopReturns`, `SendReturns`, `ChipDrains` |
| `wifi_join` | try 3 ticks, retry 2, 3 frames | 150,219 | `OffBetweenAttempts`, `RetriesAreSpaced`, `AttemptsGoOn` |
| `dns` | 2 requests, 2 calls, timeouts 0 and 1, clock of 3 values | | `LateAnswersAreIgnored`, `CallsReturn` |
| `wifi_rejoin` | try 2 ticks, retry 2, 2 frames | | `LostLinkIsRejoined` is violated, see below |
| `tcp_pending` | 1 PCB, 1 holder, 1 client, window 1, 1 byte | | `BufferedIsKept` is violated |
| `ethernet_restart` | as `ethernet_if` | | `DhcpFlagAgrees` is violated |

Why the bounds are enough. *TCP*: two slots and two holders let a stale
holder and the new owner of its slot exist together, and two clients share
a connection or hold one each; a window of two with a
stream of three makes data be refused, moved to the front and split between
buffer, `remaining` and the stack. *Transmit*: three bytes do not fit a buffer
of two, so that `writeFully()` takes several turns and waits for room, and a byte
of a broadcast can be in its way; one retransmission is enough to requeue and to
give up. With four bytes (136,275 states), or two bytes of broadcasts
(181,156), nothing else happens. *UDP queue*: six packets wrap a ring of
three at every offset, with every change of capacity at each. *UDP sockets*:
three sockets and two PCBs exhaust the pool with two sockets bound. *Raw
frames*: as the UDP queue, with a longer frame before a shorter one. *Interface*:
every order of `begin`, `end` and the changes between them is possible without
a bound. *Teensy*: with rings of two a
pass of four frames can be cut by its limit, and six frames wrap the ring three
times; a ring of three was checked too (218,005 states). *W5500*: a chip and a ring
that hold two frames at most wrap at every offset, and pointers modulo seven
wrap against both. *WiFi*:
three frames are the events of one attempt that succeeds and is lost; different times
for try and retry keep the uses of the timer apart (with four frames, 620,673 states,
the result is the same). *DNS*: with a clock of three values
and lives of two ticks every lookup can span a wrap, and a frame can be reused
while an old request still refers to it.
`tcp` and `udp` look at states of two kinds (`CONSTRAINT Small` of `MCTcp` and `MCUdp`): of
everything a little, or all of the data in one place. What both leave out, two connections
with much data or a queue beside other sockets, is covered by the proofs, which all of
their properties have (section 4).
Where a run uses symmetry (model values in sets that nothing orders) it checks
no liveness; `MCTcp`'s view drops the contents of holders nobody refers to, and of the
way a connection ended all but whether it was a FIN.

Fairness. In all of them the program calls `Ethernet.loop()` again and again
(an Arduino sketch's `yield()`), and code that runs goes on.
`WifiJoin!JoinFairSpec`: time goes on; nothing is assumed of
the chip, so that attempts must end and go on without any event. The waits
without a limit inside an ioctl (`cyw43_T4_SDIO.cpp:1408` and `1487`) are
taken to end; see the hazards. `DNSLookup!DnsFairSpec`: time passes, and lwIP
gives every request an answer in the end (its table
entries expire). `TcpTransmit`: lwIP's timer runs, because `loop()` runs it; of the
peer it is assumed only that it does not answer probes with a window of zero
for ever (strong fairness of `WindowOpens`), since lwIP keeps such a connection.
It also takes a route to be there: with the link down and nothing in flight no
timer of lwIP runs, and `writeFully()` waits until the link is back.
`Teensy41Driver`: the MAC sends what is ready and the interrupt is taken; strong
fairness of `proc_input` and `netif_input` because other calls of the program
can come in between each time. `W5500Driver`: the chip finishes what it has
begun; strong fairness of `loop` for the same reason. `LoopReturns` and `ChipDrains` hold
only for a chip that receives nothing more at last, and say so (`<>[][~ChipReceive]_vars`;
the bound `MaxFrames` makes it true in the run): `proc_input()` ignores its `counter`
(`driver_w5500.cpp:899`), and both loops around it go on while frames arrive. `EthernetIf`: `poll()` runs,
and a DHCP server that is asked and can be reached answers.

Deadlock is not checked where a model may stop: when every frame or byte of the
bound has been used nothing has to happen.

Each property has a mutant, a small change of a definition, defined beside it,
that breaks it.

### Disagreements between code and documentation

`wifi_rejoin`: `proc_input()` takes the event of a lost link from the queue that
`pollEvents()` reads; the state machine stays in `JOIN_OK` for ever.

`tcp_pending`: the peer accepts a `connectNoWait()`, sends and closes before the program
asks for the first time. `recvFunc()` has moved the data to `remaining` and removed the
state; `watchPendingConnect()` (`QNEthernetClient.cpp:159`) looks only at the state and drops
the connection, and the data with it. `README.md:1206`: "any buffered data will still be
available via the client API". `StreamIntact` does not see this: the data is still in the
holder, which nobody refers to any more.

`ethernet_restart`: with DHCP active, `begin(mac)` with another MAC address and without
`end()` replaces the interface and with it lwIP's client, while `dhcpActive_` stays set, so
that `maybeStartDHCP()` starts none and no address ever comes. `CHANGELOG.md:1235` says that
`end()` is not needed, and `test_ethernet/test_main.cpp:472` makes that call and asserts the
flag. `FlagKept` shows that this is the only way the flag goes wrong, and `AddressComes`
is about a client that runs.

The following were seen while modelling. The models have them; they have no run of
their own.

TCP
- `connections_` can grow past the PCB pool: `close()` leaves the state in the list
  if the stack frees the PCB without a callback (refused data, the last
  acknowledgement, the end of `TIME_WAIT`). `Len(connections_) <= Cardinality(Pcbs)`
  is violated in `TcpSockets` with one PCB and two holders.
  `ConnectionManager.cpp:561` asks to verify the opposite.
- What a server's connection received is lost to the program if the connection ends before
  `accept()`: `findUnacknowledged()` and `findAvailable()` pass over it, since it has no
  state any more.
- A `connect()` that times out leaves its attempt in the stack and in the list,
  because `pendingConnect_` is false in a waiting call (`QNEthernetClient.cpp:141`).
- `writeFully()` after `closeOutput()` spins until the peer closes: `operator bool()`
  is still true and `altcp_write()` always fails. `WriteFullyReturns` excludes it.
- A broadcast returns its whole size, whatever was queued (`ConnectionManager.cpp:512`).
- Output that is queued is lost if the program closes with refused data, or if
  the peer sends data after `close()`: lwIP resets both (`lost`).

UDP
- `beginMulticast()` twice on a port, then `stop()`: a group stays joined
  (`QNEthernetUDP.cpp:208`, against `README.md:1309`).
- A moved listening socket: the PCB still calls the old object, whose destructor
  frees it (`QNEthernetUDP.h:50`); with `MoveOpen` TRUE `PcbsAreOwned` is violated.
- Packets dropped by a smaller queue capacity are not counted (`QNEthernetUDP.cpp:103`).

Raw frames
- Frames dropped by a smaller queue capacity are not in `droppedReceiveCount_`, although
  `QNEthernetFrame.h:195` calls them dropped and `QNEthernetFrame.h:211` says that the count is of
  all dropped frames. `QueueAddsUp` counts them apart.

Interface
- After the link was down, the DHCP client is asking for its old address ("rebooting") and
  the interface still has it. `end()` leaves clearing it to `dhcp_release_and_stop()`, which
  does so only for a bound client; the address outlives `end()` (`QNEthernet.cpp:533`), against
  `CHANGELOG.md:852`. `~eth.netif_ => n.ip = "any"` is violated in `EthernetIf`; `EndCleansUp`
  has what `end()` does clean up.
- A `begin(mac)` that fails in `dhcp_start()` restores `mac_`, while the driver and the
  hardware keep the new address (`README.md:256`).
- `setMACAddress()` with a static address loses it and starts DHCP; with `MDNS`
  running it loses the mDNS host; `end()` drops the groups of open sockets.
- Disallowing an address that was never allowed can clear the bit of a joined
  group. The model's program does not do so.

Drivers
- Teensy: frames can be taken out of order if the MAC fills `s_pRxBD` and the next
  descriptor between two reads of one search. A frame that is dropped ends
  the pass with the flag consumed; frames behind it wait for the next interrupt
  (`ended = "error"` in `NoFrameWaits`).
- W5500: a wrong length of two or more that exceeds what was read (`driver_w5500.cpp:861`)
  ends the scan with nothing read; `while (readAndScan())` finds it again for ever, against
  `lwip_driver.cpp:260` ("will return NULL at some point"). `at = "call" ~> at = "idle"` is violated
  in `W5500Driver`; `LoopReturns` and `ChipDrains` except it (`Stuck`). A length below two
  restarts the socket and does no such harm.
- W5500: `restartSocket()` does not reset `s_lastSendTxWr`, so that a send may wait
  for a pointer that never comes (`reopened` in `SendReturns`). Frames in `s_inputBuf`
  survive `end()` and are delivered after the next `begin()`. With an interrupt pin
  (not the default) `init()` sets `s_sendNotDone` under a comment "Clear the flags"
  (`driver_w5500.cpp:763`), and the first send would wait for ever.
- `enet::output_frame()` returns an `err_t` as a `bool`, false on success, for drivers
  whose `output_frame()` ends in `send_frame()`.
- WiFi: `hardwareStatus()` before `begin()` makes `join_start()` run twice, since
  `has_hardware()` does not set `s_initState` (`driver_CYW4343W.cpp:105`). If the first attempt
  failed, the chip is asked for the network while the state machine waits in `JOIN_FAIL`;
  if it succeeded, the state machine stays in `JOIN_OK` with the old bits while the chip
  joins anew. `WIFIinit()` returns after a failed attempt, since `join_check()` takes
  `JOIN_FAIL` (3) for `JOIN_OK` (2). After `Ethernet.end()` the state machine still
  believes in its connection, and after `begin()` nothing rejoins unless the firmware
  reports the loss; in `JOIN_FAIL` or `JOIN_IDLE` it rejoins even after `end()`.
  `join_event_handler()` stores an uninitialized value for a frame that is no event
  (`join.cpp:184`). In the scan, `removeDuplicates()` compares with the entry past the
  last (`scan.cpp:119`), and `scan_count` has no limit (`scan.cpp:64`).

## 4. What is proved

The proofs hold for every value of the constants, under the assumptions named
in the modules: `NULL` is none of the identities, the window is positive,
times are positive, rings have a descriptor, frames have a byte. Every safety property
that a run expects to hold is proved, invariants and action properties alike.

**TcpSocketsProofs**: `TypeCorrect`,
`ListCorrect`, `CallbacksCorrect` and `HoldersCorrect` are `[]TypeOK`,
`[]ListIsExact`, `[]CallbacksFindHolder` and `[]HolderIsConsistent`. They follow from
`Invariance`, whose invariant adds what makes them inductive:

- `ArgIsOwner`: a PCB's argument is a holder whose state is that PCB. A holder
  may point to a PCB that is not its own any more; the converse never happens.
- `FinIsLate`: a FIN is kept for later only in the states after it arrived, so
  that the retry that delivers it closes a PCB that calls back no more.
- `AttemptIsQuiet`: the PCB that reaches a holder which is not connected is still
  in SYN_SENT, or free; so `close()` of a pending attempt frees it and it needs no
  argument any more.
- `ReachedUnlessStray`: a PCB that can call back has an argument, unless a
  call has strayed.
- `ProgInv`: the call that is inside `loop()` has the client, holder and state
  its second half uses.

The proof goes action by action; the lemmas before it say what `tcp_close()`,
`tcp_free()` and the destructor do to a PCB, what each callback does to a holder
and what erasing does to a list without repetitions.

`StreamCorrect` is `[]StreamIntact`, on top of it. It is about what a connection's holder
has, whether or not a client still refers to it: that the program can read it does not
follow, and does not hold (`tcp_pending`). `StreamInv` says, for each holder,
that read, buffered and refused data are the stream in this order for a PCB in
*any* active state: `StreamIntact` names three of them, but a FIN that came with
refused data moves the PCB on to CLOSING or LAST_ACK before the retry delivers it.
It adds that a holder whose peer has closed has no state (nothing is received
after the end), and that a holder without a state has no buffer: otherwise old bytes
would follow what remained. Each callback and each read is then one of two cases: the
program's view of every stream stays (`StreamKept`), or one holder's grows by the
next bytes (`StreamOfOne`).

**Teensy41Proofs**: all five safety invariants of the run, for rings of any size
and any number of frames: `TakenCorrect`, `MeetCorrect`, `NoneWaits`, `ToldCorrect`,
`TxCorrect`. Since `rxbd_next()` moves `s_pRxBD` by one wherever it found a frame,
nothing says that the frames in the ring lie side by side, and the usual
invariant of a ring does not hold. `Invariance` has instead:

- `Stamped`: a frame's number follows from its distance to `dmaRx`, so that
  frames in different descriptors differ. This makes `FramesTakenOnce` inductive.
- `Counted`: `s_pRxBD` is behind `dmaRx` by the number of full descriptors (less
  the one in hand), modulo the ring. `RingsMeet` is the case of none.
- `PassSeesAll`: as long as nothing has arrived since the flag was taken, what the
  search has passed is empty, and frames taken and frames left are together
  no more than the ring holds. So the limit of `2 * kRxSize` is not
  reached, and a search that comes full circle has seen an empty ring:
  `NoFrameWaits`.
- `TxRing`: what is ready lies from `dmaTx` to `s_pTxBD`, in order.

**ClientProofs** has what an `EthernetClient` rests on: the transmit path, and the
lookup of the name it connects to.
`TransmitCorrect` is `[]StreamExact`, for any send buffer, window and number of
bytes. `StreamExact` alone is not inductive. `TInv` adds:

- `QueueFits`: the peer has no more than was queued, so that the stream is what
  it has and the rest of the queue; after the end the queue is empty.
- `Whole`: the queue is thrown away only with its PCB (`lost` exactly then), and a FIN
  is in the stream only once the PCB says so; otherwise bytes could follow a FIN.
- `CallInStep`: a call has counted bytes that it has not returned only when it is
  `"done"`, so that the next byte it queues is the one behind `pos`.

Each step either appends to the stream (`ExactBytes`, `ExactCasts`, `ExactFin`), moves
the boundary between the peer and the queue, or cuts the stream where the peer is
(`ExactPrefix`).

`LateAnswersCorrect`, for every clock longer than the lives of
requests. The code compares differences of a wrapping clock; `AgesAreTold` says that
they are the true ages, `ServedInStep` that a call's wait began no earlier than its
request, and `OrphansAreOld` that a request whose call has returned is past its timeout,
so that `dnsFoundFunc()` drops the answer. `MaxLife < ClockSize` is assumed (a lookup
lasts less than 2^32 ms), and that requests and stack frames are different things.

**DriverProofs** has the W5500 and the joining of a network.

`SendsCorrect` is `[]SendsAlone`. The only thing that keeps sends apart is the comparison
of two pointers that wrap, so `SendInv` says (`Pointers`) that while the chip sends,
`Sn_TX_RD` and `Sn_TX_WR` differ and `s_lastSendTxWr` is the one to reach: a frame is
shorter than `Words`, so a pointer that moves on by its length never comes back to where
it was (`PointerMoves`). `Sent` says that frames are numbered in order.

`EndToEndCorrect` and `WholeFramesCorrect` are about bytes in a ring that wraps and in a
memory that is read again and again. Both follow from `RxInv`:

- `InOrder`: what lwIP has been given with the pbuf, the local ring, and what has not
  been scanned of the chip's memory, are chains of whole frames, each chain before the
  next; together they are the frames received without the lost ones. It says what a
  chain is by the place of every byte, not by parsing the sequence from its start, so
  that no recursion is needed: a chain loses its first frame or gains one at its end.
- `Ring`: `head_` is `size_` behind `tail_`. `RingWrite` and `RingRead` show that
  `write()` appends to the contents and `read()` takes from their front, in one piece or
  in two.
- `Scanned`: what the scan has passed is still in the chip's memory, whatever arrives
  meanwhile, and that memory is smaller than what the pointers tell apart, so that
  `Sn_RX_RD` names the byte it should.
- `Holding`: there is a pbuf exactly from `proc_input()` to the stack, also while the
  stack sends in between.
- `Sound`: no frame with a wrong length gets into the ring, so that every length read
  out of it is one of a frame. A length is right or is none that fits (`Headed`), which
  is what the assumption on `WrongLens` says.

Frames have at least one byte (`Sizes \subseteq Nat \ {0}`), as every frame on an Ethernet
has; an empty one would leave a pbuf of no bytes, which `p` does not tell from none.

`JoinTypesCorrect`, `JoinOffCorrect` and `JoinSpacingCorrect`, for any
`JOIN_TRY`, `JOIN_RETRY` and queue length. `OffBetweenAttempts` excepts the time
after a `join_start()` that came in `JOIN_FAIL` (`asked`). `RetriesAreSpaced` needs
`JoinTimerCounts`: in `JOIN_FAIL` the timer is not ahead of the time since
`join_stop()`, and `JOIN_IDLE` is only reached when `JOIN_RETRY` is over.

These two modules extend two specifications each. They share no state; `DNSLookup`
and `WifiJoin` have prefixes (`DnsSpec`, `JoinSpec`, `CYW4343W_poll`) where their names
would meet those of the other one.

**CircularBufferProofs**: what the ring's operations do to its elements as a
sequence, for every capacity and wherever it wraps: `PutContents` (append, and drop
the oldest if full), `GetContents`, `SetCapacityContents` (the newest that fit),
`NewRingContents`. `IsRing` is what they need and keep: `head_` is `size_` behind
`tail_`, modulo the vector; `Wrap` replaces the `%` of an index by a case split. Both
users of the ring cite these lemmas.

**EthernetUDPProofs** has two inductive invariants.
`QInv`, for every program: each live socket's ring holds packets numbered up to
`arrived`, the last one parsed is older, a PCB calls back only for a socket that
has it (`ArgsKnown`), and a socket without a life has no PCB. The last two are
needed so that a packet never reaches an object that does not exist. It gives
`TypeCorrect`, `QueueCorrect`, and `QueueRefinement`: `Spec => QueueSpec`, where each step
is mapped by `RingStep`, the seven things a step can do to a ring.
`Good`, for a program with `~MoveOpen`: what a socket's fields say is what its PCB is
(`Owns`), owners are distinct, no PCB leaks, ports are exclusive *between PCBs*, as
`udp_bind()` compares them, and use counts cover the sockets of a group. It is a
predicate on the state that `begin()` and `stop()` pass through, so that each of the
functions `Stopped`, `WithPcb`, `Bound`, `Joined` is shown to keep it once and the calls
are compositions. `PcbsCorrect`, `PortsCorrect` (ports
are exclusive, which has no run) and `GroupsCorrect` follow. That
`listening_` implies a bound PCB with the socket's own `listenReuse_` is why ports
cannot be compared between sockets alone: a socket that only sends has a PCB too.
The hypothesis is necessary: with `MoveOpen` TLC violates `PcbsAreOwned` (section 3).
Assumed of the constants: `NULL` is no identity, and there are finitely many sockets.

**EthernetFrameProofs**: `QueueCorrect`, `ParseCorrect`, `PositionCorrect`. The invariant
`Consistent` adds to them that what was parsed is older than all of the queue
(without it the next frame could repeat one), and that in the middle of
`parseFrame()`, while `loop()` runs, everything but the position holds already.
Assumed: sizes and capacities are natural numbers.

**EthernetIfProofs**: `StaticCorrect`, `FilterCorrect`, `ServicesCorrect`, `EndCorrect`, the action
properties `RemovalCorrect` and `FlagCorrect`, and `ClientCorrect`, all for every program.
`ClientCorrect` is `[]ClientIsKnown`: lwIP's client never runs while `dhcpActive_` is false. The
converse does not hold (`ethernet_restart`); `FlagCorrect` says that it is lost only in a
`begin()` that replaces the interface. `Admits` says that the marks of collisions cover every bit that two
entries share, which is what makes clearing a bit safe, for every hash function;
`InStep` that flags, MAC addresses and netif agree between calls; `Flags` how `dhcpActive_`
follows the client; `NoStaleBelow` that `slots_` has no leftover below a service that
is announced, so that the first match `removeService()` finds is never such a leftover
while the service itself has a later slot.

Only model-checked: liveness, which the prover does not reach (`AttemptsGoOn`,
`CallsReturn`, `OutputReturns`, `RxDrains`, `AddressComes`, `LoopReturns`, `SendReturns`,
`ChipDrains`, `WriteFullyReturns`, `QueuedArrives`).

## 5. Not modelled

- Most of lwIP (third-party, and much the largest part of the sources together with
  the firmware images, register definitions and wireless headers), beyond what the
  library's own state depends on.
- SDIO, SPI, PHY and MAC registers, pins, clocks and firmware download: hardware
  access with no state the library shares.
- The W5500's interrupt mode (compiled out by default) and its link settings;
  `driver_unsupported`.
- `Ping` (one raw PCB, and a wait like that of the blocking lookup), the WiFi scan (a
  helper for examples), the entropy pool (the generator's registers).
- Formatting, hashing and the HAL; the TLS and ALTCP adapters (not in the default
  build); examples.
- Of the modelled components: `renewDHCP()`, waits for an address or a link (loops
  around `loop()`), setters of single addresses, `output()` of the WiFi driver,
  `abortAll()`, several servers at a time.

## 6. Plan

1. `TcpTransmit` on the PCB pool of `TcpSockets`, so that a broadcast meets PCBs that
   have been freed.
2. `IoctlPoll` (request ids, interrupt flag, waits) under `WifiJoin`.
3. `Ping` on the pattern of `DNSLookup`.
