# A verification model of tpm2-proxy-framework

TLA+ modules that model the proxy framework of `packages/tpm2-proxy`, the TLC
runs that check them and the proofs TLAPS checks. Paths below are relative to
`packages/tpm2-proxy` unless they start with `README.md`, which is the
repository's.

## 1. The system

The framework sits between a program that uses a software TPM (the client, for
instance QEMU) and the software TPM itself (swtpm). Either side has a *control*
channel, with the commands of the swtpm protocol, and a *data* channel, with
TPM 2.0 commands and responses.

    client === swtpm_proxy ====== SwtpmProxyDriver - Tpm2Proxy - SwtpmUpstreamDriver ====== swtpm
       control,   (C++ child)  sockets     (one Node process)                     sockets
       data fd

`swtpm_proxy` is a child process that speaks the client's protocol, in which the
client hands over its data connection as a file descriptor, and copies bytes
to two sockets of the Node process. There, control messages are copied through,
and data is cut into TPM packets which the user's handlers see, may change, and
write to the other side.

### Inventory

| Component | State | Operations | Interacts with |
|---|---|---|---|
| Receive buffer, `src/tpm2/utils.ts` | array of 65536 bytes, position | push, getLength, peek, pop | called by ProtocolReader |
| TPM framing, `src/tpm2/tpm2-tcti.ts` | a receive buffer | push, parse, serializeTpm2Packet | called by Tpm2Proxy |
| Proxy event loop, `src/proxy.ts` | two readers, pending handler promises and setImmediate callbacks, the capture stream | listeners for 'data' and 'control' of both drivers, handleUpstreamData, handleDownstreamData, writeToUpstream, writeToDownstream | events of the drivers, promises of the handlers, writes to the drivers |
| Upstream driver, `src/driver/swtpm-upstream.ts` | two sockets, the state of connect(), `_closed` | connect, resume, writes, close, socket listeners | sockets to swtpm; events and promises to Tpm2Proxy and the user |
| Downstream driver, `src/driver/swtpm-proxy.ts` | two servers, two sockets, a child process, the state of listenAndWait(), `_closed` | listenAndWait, resume, writes, close, server and socket listeners | the child; events and promises |
| Control command receiver, `native/src/swtpm_protocol.cc` | bytes received, deadline | swtpm_ctrlchannel_recv_cmd | called by the loop of `main.cc` |
| swtpm_proxy process, `native/src/main.cc`, `utils.cc` | five file descriptors, the epoll set | the epoll loop, handleFrontControlChannel, forward_by_read | client, Node process |
| Capture file, `src/pcap` | a Transform stream with a queue before it and chunks behind it, the file | generatePacket, the constructor's header, _transform | written by Tpm2Proxy, piped into the file |
| Addresses, `src/driver/utils.ts`, `parseSwtpmAddr`, `parseSocketAddr` of `main.cc` | none | parsing, formatting of the child's arguments | connect, listenAndWait, the child's start |
| Constants, examples, build | none | none | none |

What is hard, and what makes each part correct:

- **Receive buffer and framing.** The stream is cut anywhere. Correct: packets
  come out once, unchanged, in order.
- **Event loop.** Handlers are promises of any duration; a chunk starts another
  one while the last is still at work, and a driver may close meanwhile.
  Correct: each direction forwards packets in order; none is left unseen in a
  buffer; a failure is not silent; what is forwarded has been handed to the
  capture.
- **Drivers.** Two sockets that get ready, fail and close in any order, behind
  one promise; a user who closes at any time; data that must wait for resume().
  Correct: the promises settle, and rightly; no listener throws; 'close' is
  emitted when a connection is lost; a child that finds its connections ended
  does not stay behind.
- **Control receiver.** Partial reads, a deadline and a buffer that a command
  may exceed. Correct: a whole command or an error; a cut one at least reaches
  the back end piece by piece.
- **Capture file.** Nobody waits for the stream, which holds packets back when
  the disk is slow. Correct: every packet gets into the file, in order, and a
  reader of the format gets back what was captured, whatever its length.
- **Addresses.** Four parsers and writers with defaults of their own, and calls
  that throw half-way. Correct: the child dials what the servers listen on; the
  promise settles.
- **swtpm_proxy.** One thread, edge-triggered events with one read for each,
  data connections that come late and are replaced. Correct: no byte is lost,
  everything is answered, the process ends with its client and with its back
  end.

## 2. The modules

| Module | Models | Kind |
|---|---|---|
| `FifoBuffer` | the receive buffer | operators on a record |
| `Tpm2Tcti` | framing: header, parse, serialize | operators |
| `PacketChannel` | abstract: packets are delivered once, unchanged, in order, all of them | abstract specification |
| `ProtocolReader` | ProtocolReader between a peer and the proxy | state machine, implements `PacketChannel` |
| `TpmExchange` | abstract: client and TPM as if connected to each other: one command at a time, one response to it, both unchanged | abstract specification |
| `Tpm2Proxy` | the event loop between two drivers, with peers and handlers | state machine, implements `TpmExchange` |
| `SocketParams` | address texts: the three parsers and the arguments of the child | operators |
| `SwtpmUpstreamDriver` | the upstream driver, with `SocketParams` | state machine |
| `SwtpmProxyDriver` | the downstream driver and its child, with `SocketParams` | state machine |
| `PseudoUdp` | generatePacket and its checksums, over bytes | operators |
| `PcapGenerator` | the capture: format and stream, with `PseudoUdp` | state machine |
| `ControlChannel` | swtpm_ctrlchannel_recv_cmd | state machine |
| `FrontControl` | handleFrontControlChannel with `ControlChannel` | composition |
| `SwtpmProxyProcess` | the loop of swtpm_proxy between client and Node process | state machine |
| `MC...` | constant definitions of the TLC runs | instances |
| `Tpm2TctiProofs`, `ProtocolReaderProofs`, `Tpm2ProxyProofs`, `SwtpmUpstreamDriverProofs`, `SwtpmProxyDriverProofs`, `PcapGeneratorProofs`, `FrontControlProofs`, `SwtpmProxyProcessProofs` | lemmas and theorems | proofs |

Some definitions are named as mutants, in the comment above them: each is a
definition as a plausible mistake would have made it, and is used by nothing.
With it in the place of the real one a property of a run fails, which shows
that the property depends on that piece of code.

### How state and actions correspond to the code

**FifoBuffer, Tpm2Tcti.** The buffer is a record of `buffer` and `position`;
`Push`, `Peek`, `Pop` map records to records. Header fields, 2 to 4 bytes wide,
are one cell each, so a header is 3 cells. Two facts of the code are kept
literally: `Buffer.copy` drops what does not fit while the position advances,
and `pop` passes the *reduced* position to `copyWithin` as the end of the range
to move (`utils.ts:23-24`).

**ProtocolReader.** `Send` is the peer, `Receive(n)` a chunk of n cells that is
pushed, `Parse` a call of parse() that returns a packet.

**Tpm2Proxy.** The code is written twice, for upstream and downstream; the
model has a side `s`. One action is one callback: `OnData`, `OnControl` (the
listeners), `HandlerWrites`, `HandlerResolves`, `HandlerRejects` (the user's
handler and its promise), `OnImmediate`. `OnData` captures, pushes, parses and
starts the handler in one step, as the listener does. The handler is that of
README.md:47-54: it writes the packet to the other side and returns the promise
of the write. An exception in a listener or a rejection without catch() makes
`alive` false: from Node 15 on both end the process.

**SwtpmUpstreamDriver, SwtpmProxyDriver.** One action per listener and method.
A field set to `undefined` is `held[c] = FALSE`, or `closed` where all are
cleared together; a method call on it throws and makes `alive` false. `OnSocketClosed`
of the upstream driver is parameterised by what it finds in `this`. A socket
that is paused still notices that it closes. The child of the downstream
driver connects to control, then data, may exit at any time, and exits when it
finds the end of a connection; `kill(0)` does nothing. It reads once for each
event (`ChildReads`), so when bytes and the end of a connection come together it
may take the bytes and miss the end: `outbound` says so. A child that has read
an address it cannot use connects to nothing.

**SocketParams.** A text is its prefix and its options, cut at commas, and an
option its words, cut at `=`; a number is its numeral, and `NaN` is no port.
`LastValue` is a loop that assigns a field for every option: what stays is the
value of the last one that matches. `Connect` and
`ListenAndWait` take any of a set of texts, parse them with these operators, and
begin the sockets or servers up to the call that throws (`Begun`): net.connect or
listen() for a port that is none, unlinkSync() for what is stuck at a path. An
exception inside the promise's executor rejects it without setting
`state.rejected`.
`StartProcess` writes the child's arguments with `ChildArgument` from what
`server.address()` says and reads them with `ParseSocketAddr`, the child's own
parser, which looks for `tcp:` anywhere in a text (`LooksTcp`); the child connects
only if the result is the address of the server.

**PseudoUdp, PcapGenerator.** Headers are built byte by byte, since sums are taken
over them; in the stream a chunk is a record that says of which packet and
which part it is, and `Bytes` gives its contents. `Write` is write(): _transform
at once, or a place in the queue while the callback is withheld. `Pipe` is one
chunk taken by the file and, when less than the high water mark is left, what
the callback that is called then transforms. A chunk that flows through
directly is `Write` and then `Pipe`. The bytes handed to write() are what
`Tpm2Proxy` records in `captured`.

**ControlChannel.** `Call` resets the deadline; `Read` is one recvmsg or read
with the test that follows; `PollReady` and `PollTimesOut` are poll().
`DeadlinePasses` may come at any time in a call. A full buffer ends the loop in
`PollReady`, and a command that is longer is returned cut. A command code is two
cells wide so that the stream can be cut inside it.

**FrontControl.** Extends `ControlChannel`: the step of a call that returns is
also the handler's (`HandleCommand`): it sets the data connection, after which
epoll_ctl or the answer may fail, or forwards the bytes as they are, to a back
end that may have left (`BackEndLeaves`). A call or a handler that fails ends the
process. The client waits for its answers. The first cell of CMD_SET_DATAFD has
the file descriptor attached to it.

**SwtpmProxyProcess.** `EpollWait` fills `events`, in any order, with the
descriptors that have had an edge; one `Handle...` action is one turn of the inner
loop. Bytes are counted. `Forward` is forward_by_read: one read of at most
`ReadSize`, the process stops at the end of a stream, and a failed write is not
reported. A write to a connection whose peer has gone raises SIGPIPE or is
lost and comes back as an edge. Two histories record what the code does not:
`lost`, the sides for which something was read that did not get there, for want
of a connection or by a failed write; and `clean`, the back-end connections that
had nothing unread when the back end left.

## 3. The runs

| Run | Expect | Properties | States |
|---|---|---|---|
| reader_lockstep | pass | TypeOK, InOrder, ImplementsChannel | 761 |
| reader_pipelined | violation | InOrder | |
| proxy_failures | pass | TypeOK, OneUnwritten, CapturedBeforeForwarded, ImplementsExchange, CommandsAnswered, LossIsFatal | 207,988 |
| proxy_pipelined | pass | NoStall | 1,470,276 |
| upstream_connect | pass | TypeOK, ResolvedAfterBoth, NothingBeforeResume, ThrowsOnlyAfterClose, ConnectSettles, WritesSettle | 6,565 |
| upstream_close | violation | CloseIsReported | |
| downstream_listen | pass | TypeOK, ResolvedAfterBoth, CloseReportedOnce, SafeWhileChildLives, ChildDialsServers, ListenSettles, LossIsReported, CloseStopsChild | 109,416 |
| control_receive | pass | TypeOK, ExactUnlessLate, FailsOnlyIncomplete, BackEndSeesClient, CallReturns | 1,748,978 |
| control_timeout | violation | TimeoutIsError | |
| control_unlisted | violation | WholeUnlessLate | |
| process_exchange | pass | TypeOK, NothingDropped, Conserved, PacketsAnswered, CommandsAnswered, ClientLossEnds, BackendLossEnds | 269,077 |
| capture_file | pass | TypeOK, InWriteOrder, Readable, Drains | 3,357 |

`ImplementsExchange` is the strongest of them: with drivers that close, handlers
that reject, chunks cut anywhere and captures that throw, every step of the
proxy is a step of `TpmExchange` or a stutter, under the mapping of the sent
and written packets of both sides to its four histories. `CommandsAnswered` is the
liveness that goes with it: unless something fails, each command gets to the
TPM and its response back. `captured` in `CapturedBeforeForwarded` is what was
handed to the stream's write(), which may still wait there (`PcapGenerator`): a
packet can be at its peer before it is in the file.

Three properties state the code's behaviour with the exception it has, since
without it they fail. `ExactUnlessLate` says what becomes of a command that is
longer than the buffer. `CloseStopsChild` leaves a child that has missed both
ends, and `BackendLossEnds` is about a back end that left nothing unread on one
connection.

What the passing runs show is stated above each property in its module. The
four violations are disagreements of the code with what is written about it:

- **reader_pipelined.** Two packets in the buffer at once: `pop` does not move
  the whole rest to the front, and the second comes out garbled. It takes a peer
  that sends ahead, or a socket that joins a packet with the next; with the
  turn-taking of TPM clients it cannot happen, which is `LockstepInOrder`.
- **upstream_close.** The upstream driver's 'close' event (`driver/base.ts:10,
  14`) never comes: the listener is passed unbound and acts on the socket.
- **control_timeout.** A call that receives a part of a command after its
  deadline returns the part as a success, where the comment promises an error.
  `BackEndSeesClient` of the run control_receive is the other half of this: the
  caller forwards the part, and what follows it, so the back end still gets the
  client's stream, unless it is a CMD_SET_DATAFD that was cut off.
- **control_unlisted.** CMD_SET_BUFFERSIZE has a body in `swtpm_ioctl.h` but no
  length in the receiver: cut behind the code, it is returned without its body. A
  client that writes the command in one piece on a local socket will hardly see
  it.

### Bounds, and why they are enough

- `Capacity` 8 instead of 65536 cells: the longest packet is 6 (4 for the
  proxy), so several packets lie in the buffer when peers send ahead. In
  `proxy_pipelined` it is 6, so that a push also runs past the end. Packet
  lengths differ, so what lies behind a popped packet may be shorter or longer
  than it, and `copyWithin` moves some of it or nothing. The proofs drop the
  bound. `MaxCapture` is 3 in `proxy_failures`: a chunk that is a whole long
  packet cannot be captured.
- `MaxPackets` 2 (4 for the reader): the second exchange starts from the state
  the first left behind, and the two overlap in the handlers.
- `MaxChunks`, `MaxWrites` 2 per channel: one in flight and one behind it.
- `MaxCommands` 2: a call that finds what the last one left. `BufferLen` 4: of
  the commands of the four kinds the longest fill the buffer exactly, and two
  commands exceed it. One more command is longer than the buffer by two cells,
  and these read as the code of CMD_SET_DATAFD.
- `MaxPackets` 2, `MaxControl` 3, `DataFds` 2, `MaxClients` 2 for the process:
  set a data connection, exchange, replace it or send another command, exchange
  again over the new one or the old. A second
  client connects and is never accepted, since the server's event is one-shot.
  `PacketSize` = `ReadSize` = 2: a packet is cut or whole, and a read may
  take all. A packet above `ReadSize` is excluded by an assumption: with one read
  per edge the rest of it would be stuck (section 5).
- `MCParams` and `MCBackends`: each driver gets one pair of well-formed texts per
  family and mixture, with options in another order, options it ignores and
  paths with a `=`, and one text for every way to throw, for the first or the second
  of the two calls. Among `MCBackends` are the two addresses the child
  misreads, an IPv6 one and a path with `tcp:` in it; what is stuck at a path is
  any set of the two.
- The capture: `HighWater` 100 bytes instead of 16384 and four packets of 33 to
  257 bytes in the file: the stream withholds its callback after one packet or
  two, and up to three queue up. The chunks have an odd length, an even one, and
  contents whose sums carry. Two of the four time stamps have a
  fraction, which the proxy's never have but the exported class allows.
- All counters named Max... are guards of the actions of the environment only.

Deadlock checking is off in all runs: the peers may stop sending, and the
processes may end.

### Fairness

Weak fairness stands for: an event loop that runs the callbacks that are due, a
kernel that ends a connection attempt and delivers what was written, poll()
returning at its timeout, a user's handler that settles and a user who resumes
what resolved (README.md:57-67). Peers need not send, with two exceptions
written in the modules: the TPM answers a command, and a client finishes a
packet it has begun. No fairness is assumed of failures, of close(), of
connecting clients or of the clock. In `PcapGenerator` the disk takes what it is
given, and packets need not come. In `SwtpmProxyDriver` the child reads what is
written to it, and exits when its read finds the end of a connection or it
cannot connect (`ChildOrphaned`, main.cc:309-325, 381-402); a child that has missed
an end owes nothing for it. That the child's own writes to its client do
not block for ever is assumed.

## 4. The proofs

| Theorem | Says | Checked by the run |
|---|---|---|
| `ProtocolReaderProofs!TypeCorrect` | SafeSpec => []TypeOK | reader_lockstep |
| `ProtocolReaderProofs!LockstepInOrder` | Pipelined = FALSE gives SafeSpec => [](InOrder /\ OneOutstanding) | reader_lockstep |
| `ProtocolReaderProofs!LockstepImplementsChannel` | Pipelined = FALSE gives SafeSpec => Channel!SafeSpec | reader_lockstep |
| `Tpm2ProxyProofs!ProxyTypeCorrect` | SafeSpec => []TypeOK | proxy_failures |
| `Tpm2ProxyProofs!PumpNeverStalls` | SafeSpec => []NoStall | proxy_pipelined |
| `Tpm2ProxyProofs!HandlersTakeTurns` | Pipelined = FALSE gives SafeSpec => []OneUnwritten | proxy_failures |
| `Tpm2ProxyProofs!ProxyImplementsExchange` | Pipelined = FALSE gives SafeSpec => ImplementsExchange | proxy_failures |
| `Tpm2ProxyProofs!CapturesFirst` | Pipelined = FALSE gives SafeSpec => []CapturedBeforeForwarded | proxy_failures |
| `SwtpmUpstreamDriverProofs!UpstreamTypeCorrect` | SafeSpec => []TypeOK | upstream_connect |
| `SwtpmUpstreamDriverProofs!ConnectsToBoth` | SafeSpec => []ResolvedAfterBoth | upstream_connect |
| `SwtpmUpstreamDriverProofs!ThrowsOnlyWhenClosed` | SafeSpec => []ThrowsOnlyAfterClose | upstream_connect |
| `SwtpmUpstreamDriverProofs!HeldBackUntilResume` | SafeSpec => []NothingBeforeResume | upstream_connect |
| `SwtpmProxyDriverProofs!DownstreamTypeCorrect` | SafeSpec => []TypeOK | downstream_listen |
| `SwtpmProxyDriverProofs!ClosesAreReportedOnce` | SafeSpec => []CloseReportedOnce | downstream_listen |
| `SwtpmProxyDriverProofs!ResolvesAfterBoth` | SafeSpec => []ResolvedAfterBoth | downstream_listen |
| `SwtpmProxyDriverProofs!NothingThrows` | SafeSpec => []SafeWhileChildLives | downstream_listen |
| `SwtpmProxyDriverProofs!ChildDialsWhatIsServed` | SafeSpec => []ChildDialsServers | downstream_listen |
| `FrontControlProofs!ReceiverTypeCorrect` | FrontSafeSpec => []TypeOK | control_receive |
| `FrontControlProofs!WholeIsNotGivenUp` | FrontSafeSpec => []FailsOnlyIncomplete | control_receive |
| `FrontControlProofs!CallsAreExact` | every m in Commands with Len(m) = Needed(m) gives FrontSafeSpec => []ExactUnlessLate | control_receive |
| `FrontControlProofs!BackEndSeesTheStream` | FrontSafeSpec => []BackEndSeesClient | control_receive |
| `SwtpmProxyProcessProofs!ProcessTypeCorrect` | SafeSpec => []TypeOK | process_exchange |
| `SwtpmProxyProcessProofs!NothingIsDropped` | SafeSpec => []NothingDropped | process_exchange |
| `SwtpmProxyProcessProofs!BytesConserved` | SafeSpec => []Conserved | process_exchange |
| `PcapGeneratorProofs!CaptureTypeCorrect` | SafeSpec => []TypeOK | capture_file |
| `PcapGeneratorProofs!FileInWriteOrder` | SafeSpec => []InWriteOrder | capture_file |
| `PcapGeneratorProofs!CaptureReadable` | SafeSpec => []Readable | capture_file |
| `PcapGeneratorProofs!OneCarryIsEnough` | for every p in Packets, the header of Datagram(p) without its checksum, and the checksum as a number, sum to all ones; as written it does so only if the checksum's bytes are the same | none |

So every safety property of a passing run is a theorem, for every value of the
constants.

### What they assume

The specifications above are those without fairness. The assumptions are the
named ASSUMEs of the modules, which TLC evaluates in the runs, and two
hypotheses. Those that say more than the type of a constant:

- Packets are well formed and fit the buffer (`PacketsAssumption` of the reader
  and the proxy). A packet of swtpm_proxy fits one read (`SizeAssumption`).
- `Pipelined = FALSE`: peers that take turns, as TPM clients do. Without it the
  conclusions are false (run reader_pipelined, section 3). A peer that sends
  ahead is still covered by `TypeCorrect`, `ProxyTypeCorrect` and
  `PumpNeverStalls`.
- Commands are at least as long as what the receiver waits for
  (`CommandsAssumption`), of any length and also longer than its buffer, as
  swtpm_ioctl.h:308-312 allows; the lengths it knows are those of
  the two tables of the code, each code in one (`CodesAssumption`). For
  `CallsAreExact` no command is longer than the receiver knows, which excludes
  the unlisted command of the run control_unlisted; the other three theorems
  about the receiver include it.
- CMD_SET_DATAFD is the command that begins with the descriptor, has nothing
  behind its code and no body of another length (`SetDataFdAssumption`).
- What the downstream driver is to listen on is an address or a path that is not
  empty, or text it does not understand (`BackendsAssumption`, section 5).
- A captured chunk fits a datagram, its seconds fit 32 bits, and a quotient
  without a remainder is not rounded (`PacketsAssumption`, `RoundingAssumption`
  of `PcapGenerator`). Else the code throws a RangeError; a captured chunk that
  does is `MaxCapture` of `Tpm2Proxy`.

### How they go

- `Tpm2TctiProofs` has the lemmas on the operators: what Push, Peek, Pop and
  parse return and preserve. `PushContents` says where the pushed cells are. The
  lemmas on joined sequences are shared by the proofs about the proxy and the
  receiver.
- **InOrder** is not inductive: it says nothing of the bytes under way. The
  invariant is the type invariant, InOrder and `OneOutstanding`: the buffer
  followed by the wire is exactly the one packet not yet parsed. From it the
  buffer holds at the moment of parse a whole packet and nothing else, so what
  `pop` leaves behind does not matter; that is the place where the turn-taking
  is needed. Each action preserves it: Send by the turn, Receive by
  `PushContents`, Parse by the header being the packet's.
- **LockstepImplementsChannel**: Send is Send, Receive a stutter, Parse is
  Deliver, because InOrder in the next state fixes what was appended.
- **PumpNeverStalls**: NoStall is inductive together with TypeOK. A listener or
  a callback that leaves a packet in the buffer has just started a handler; a
  handler that resolves leaves a callback; a callback that finds nothing leaves
  no packet to wait for. That a rejection ends the process is needed: a
  rejection that was caught would stop the pump.
- **TypeOK** of the proxy includes that no position or count goes below zero;
  parse pops no more than there is, even with garbled headers.
- **OneUnwritten, ImplementsExchange.** `TurnsInv` adds to them where the one
  packet is that may be under way. The four histories of `TpmExchange` are a
  chain, each at most a little behind the one before (`Chain`), and a side that
  is behind has its packet in one place (`Lane`): on the wire and in the buffer
  (`Streaming`, which is `OneOutstanding` again), in the one handler call that
  has still to write (`Called`), or gone with a failure. The refinement then
  maps SendPacket and HandlerWrites to the four steps of the exchange and all
  other actions to stutters. Handler calls that have written and wait for their
  promise may be any number; they disturb nothing.
- **CapturedBeforeForwarded** rests on `AllCaptured`, as long as the process
  lives: what was captured, followed by what is on the wire, is everything sent.

- **The upstream driver.** `DriverInv` ties promise, flags and sockets together:
  `state.rejected` means a rejected promise, `state.resolved` that both sockets
  have been ready, and a socket that still connects is held unless close() was
  called. The last is why nothing else makes a listener throw. `PauseInv` is the
  reason for NothingBeforeResume: an open socket flows only after resume(),
  since the 'ready' listener pauses it in the step that opens it, unless that
  listener throws. `CountInv` bounds the sums of chunks that come in and are
  emitted, and of writes begun and settled.
- **The downstream driver.** `CloseInv` counts 'close' events whether or not the
  process is alive. `PromiseInv` says that `state.rejected` means a rejected
  promise (not the reverse: listen() may throw), and adds to the promise that a
  connection comes from a server that has listened, so that no server is left to
  fail, and to set `state.rejected`, once both connections are there. `SafeInv`
  says why nothing throws: a server that has listened is there until close() or
  a rejection takes it away, the child is started when both have listened, and a
  driver that closed by itself has lost its child.
- **ChildDialsServers.** `AddressInv`: the child was told of the servers' own
  addresses, and those are what `parseSocketParam` can give. What is left is
  that `ParseSocketAddr` undoes `ChildArgument` on such an address, up to the
  loopback it puts in the place of an IPv6 address; that follows option by
  option from `ValueAtLast`.

- **The receiver.** Its properties relate what calls return to what the client
  sent, so the invariant needs a name for what is under way: `Held` is the cells
  of the last command that no call has returned, whether in the buffer of the
  call that runs, on the wire or not yet sent. `ReceiveInv`: they are the end of
  that command, a call that reads has room, since a full buffer ends the loop,
  and a call that waits has not got all of it; so when it gives up it has not
  got a whole command. `ExactInv`, as long as no call was late and no returned
  command was longer than the buffer: the commands were returned one by one
  and the last is held whole or not at all. A longer one is returned as what
  fits, and the invariant ends there. `BackInv`, late or not, longer or not: what
  was forwarded, followed by what is held, is the client's stream without its
  CMD_SET_DATAFDs (`Whole`), and a prefix of it once the process has ended or
  the back end has left.
- **swtpm_proxy.** `IInv` has five parts besides the properties. `LoopInv`: an
  event refers to a connection that is watched and is reported once, so that
  handling one event does not take what another was for. `ControlInv`: before
  the client's connection is known, no command has been read, so the back end
  has nothing to say; this and `DataInv` are why NothingDropped holds although the
  globals may be unset and the connection written to may be one that was
  replaced. `DataInv`: the loop writes to the connection the client uses, and
  bytes lie on no other. `CountInv`: where the bytes of a command and its
  response are, also after somebody has left, when Conserved says nothing any
  more. The proof has one lemma per handler; a step of the other side between
  epoll_wait and the handler is the case each of them is about.

- **The capture, its order.** InWriteOrder says nothing of what is still in the
  stream. `StreamInv` places it: `ChunkAt(i)` is the chunk that belongs at the
  i-th place of the file, `readable` holds the chunks that come right after
  those in the file (`ReadableInv`), and `queue` the packets right after those
  (`QueueInv`); nothing is queued unless the callback is withheld. A packet
  written goes behind all of them and moves no other place (`HistoryGrows`), and
  a refill turns the head of the queue into the chunks of the same places
  (`RefillContinues`), however many packets the callback takes.
- **The capture, its contents.** With the order, TypeOK and Readable are
  statements about `RecordHeader(p)` and `Datagram(p)` of any packet p, as
  OneCarryIsEnough is by itself. `PacketIs` and `PacketTells` say what bytes a
  datagram consists of and what is read at their places, `RecordTells` and `TimeIsTold` the same of
  the record. For the time, digits behind the sixth are cut one at a time as
  long as the first six make a number above 100000 (`CutToSix`), which is the
  condition in `Told`. For the sum, the words of the header but the checksum add
  up to at most 71362 whatever the length (`RestIsSmall`), so that there is one
  carry at most and adding it gives no other (`OneCarry`); turning the two bytes
  of the checksum round changes the sum by 255 times their difference, which is
  no multiple of 65535 unless they are equal (`TurnedIsWrong`).

### Induction over data

The induction theorems of the library take an operator as a parameter, which the
provers cannot instantiate. What these proofs need is induction over the natural
numbers, and that can be had for a set: `NatSubset` says that a set with 0 and
every successor of a member has all numbers, and follows from `WFMin`, that a
nonempty subset of a well-founded order has a smallest member. From it comes
`RecursionExists`, that a function defined by recursion over the numbers exists,
and so what `SumOfWords`, `Number` and `MakeLessThanAMillion` compute
(`SumOfWordsIs`, `NumberIs`, `LessIs`). In `SocketParams` the words the code
writes are named one by one beside STRING (`Word`): the provers do not know that
a literal is a string.

### Only model-checked

All liveness: CommandsAnswered and LossIsFatal of the proxy, ConnectSettles and
WritesSettle, ListenSettles, LossIsReported and CloseStopsChild of the drivers,
CallReturns of the receiver, PacketsAnswered, CommandsAnswered, ClientLossEnds
and BackendLossEnds of the process, and Drains of the capture. Fairness and ENABLED
are out of the prover's reach. No module has a RECURSIVE operator of its own.

## 5. Limits of the models

- The peers are well behaved: headers give the packet's length, packets fit
  the buffer and one read of swtpm_proxy, control commands are answered before the
  next. What `Push` and `parse` do beyond that is in their definitions,
  but nothing is claimed of it. More than 4096 bytes that arrive at once on a
  connection wait for the next edge.
- When a back-end connection delivers data and its end together, the one
  edge-triggered read takes the data and the end is never seen. "The back end
  leaves, so the process ends" fails when this happens on both connections, and
  so does "a closed driver leaves no child behind": after close() the child may
  stay. `BackendLossEnds` and `CloseStopsChild` state what is left of the two.
- A control command that is longer than the buffer of 4104 bytes is returned cut
  as a success, while swtpm_ioctl.h:308-312 sets the limit of its data at
  0xffffffff. `ExactUnlessLate` and `CallsAreExact` say so; `BackEndSeesClient`
  shows that the pieces are forwarded in order, unless a piece reads as
  CMD_SET_DATAFD, which then comes without a descriptor and ends the process. In
  `SwtpmProxyProcess` a command is one unit, so this is in `FrontControl` only.
- A child that exits before it has connected leaves the promise of
  listenAndWait() pending for ever, since nothing listens to its 'exit'
  (`swtpm-proxy.ts:87, 110`). `ListenSettles` leaves the case out. A resume() after a
  connection was lost throws, which `SafeWhileChildLives` leaves out as well.
- Control and data are independent channels, from the client to swtpm: a
  control message waits for no handler and may overtake a TPM command that
  does, as a command that cancels another is meant to. Nothing in the repository
  states an order, and none is checked.
- Addresses: a unix text without a path is left out (listen() would take a free
  TCP port). An IPv6 address is written for the child as it is, which cannot read
  it, dials the loopback address and exits; a path with `tcp:` in it is taken for
  a TCP address with a wrong option, and the child exits too. `ChildDialsServers`
  states both. A path longer than the child's buffer, or with `unix:` or a key
  in it, is not modelled.
- The capture file, as the code writes it, and what no run claims: the words of a
  checksum are summed in one byte order (`pseudo-udp.ts:12`) and written in the
  other (`:68`), so that a reader sees both checksums with their bytes swapped (the
  sample header in `test-app.ts:9-10` has its bytes in the right order). The
  theorem `OneCarryIsEnough` states this for the IPv4 header. The checksum of
  the UDP part leaves out the pseudo header of UDP, and with one addition of the
  carries may lose another. The destination stands before the source, which nobody sees as both are 127.0.0.1. A
  time stamp with a fraction of fewer than six digits is misread (1.5 is
  5 microseconds), a million microseconds passes the test for less, and
  `snapshotLength` is written and not enforced.
- Left out: short writes, failures of the file, logging.

### Not modelled

- **Set-up of swtpm_proxy before its loop** (`main.cc:30-90, 268-335`): options,
  bind, listen and connect, in a row, without concurrency, each failure an exit with
  an error. Its outcomes are the initial state of `SwtpmProxyProcess` and, for
  the downstream driver, `ChildExits`; the address parser is `ParseSocketAddr`.
- **test-app.ts**: an earlier version of the proxy that does not fit the drivers
  any more. It imports `TpmControlPayload` and `hexdump`, which do not exist, and
  reads `payload.raw` of events that now carry a Buffer. A program that does
  not run has no behaviour to model; its successor is `Tpm2Proxy`.
- **tpm2.ts**: an enumeration of tags, which are numbers in the models.
- **simple-proxy, build files, lint rules, the vendored package manager**: no
  code of the program.

## 6. Plan

Done: the packet path (`FifoBuffer`, `Tpm2Tcti`, `ProtocolReader`, `Tpm2Proxy`) and
its abstract specifications, the drivers with their addresses, the native
process and its receiver, the capture file. Left:

1. `ProxySession`: the user's sequence connect, listenAndWait, resume with both
   drivers composed, and closes on either side.
2. Theorems about `ProxySession`: that the proxy's peers in `Tpm2Proxy` are what
   the two drivers make of the sockets, once both are resumed.
