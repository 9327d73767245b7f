# Verification of networks-cpe464

This directory holds TLA+ models of the programs of this repository, the TLC
configurations that check them on small instances, and proofs that the TLA+
proof system checks for every instance. All five programs are modelled:
`rcopy-program3`, a file transfer over UDP with a sliding window and selective
reject; `chat-program2`, a chat server and its clients over TCP;
`socket-programming/handin`, a TCP echo server and client;
`udp-sendtoerr-lab`, a UDP echo over the course's error library; and
`trace-program1`, which prints the headers of a capture file.

    tlc -workers 2 -config MCWindow.cfg MCWindow          model-check a run
    tlc -workers 2 -config MCSession.cfg MCSession
    tlapm WindowProofs.tla                                check the proofs of a module

`PROJECT.json` lists the runs, the source lines behind every definition, a
faulty variant of the code that each property rejects, the hazards of the code
and the properties that watch them, the disagreements found between the code
and its documentation, and the theorems.

## 1. The system

### rcopy-program3

| part | state it keeps | operations | who it talks to |
|---|---|---|---|
| window library `window.c` | global `win`: `lower`, `curr`, ring `paneBuff` of panes (packet, seqNum, ack) | initWindow, freeWindow, addPane, markPaneAck, slideWindow, resendPane, windowOpen, getters | called by the server child; `resendPane` calls `sendBuff` |
| packet buffer library `buffer.c` | global `pb`: `nextSeqNum`, `storedPackets`, ring `buffer` of packets with a `written` mark | initPacketBuffer, freePacketBuffer, addPacket, flushBuffer, bufferOpen, needFlush, getNextSeqNum | called by rcopy; `flushBuffer` writes the destination file |
| server `server.c` | `serverSock`; per child: state of the loop, `nextToSend`, `eofSent`, static `retryCnt`, file offset | serverTransfer (fork per FNAME packet), reapZombies on SIGCHLD, clientControl and its state functions | rcopy, by datagrams through a socket of its own per child; children, by fork and SIGCHLD |
| rcopy `rcopy.c` | state of the loop, a socket per attempt, static `expectedSeqNum`, static `retryCnt`, destination file | transferFile and its state functions | server child, by datagrams |
| packet layer `srej.c`, `networks.c` | none but the sockets | sendBuff, recvBuff, processSelect, selectCall | both programs; `sendtoErr` below |
| sendErr library `libcpe464` | per process: settings (from the environment, then from `sendErr_init`), random generator, message number, lists of constant and of chance events, the seed of the next child | constructors, sendErr_init, sendto_Err (count, run constant events, throw dice for a chance event: drop or flip one byte, send), forkMod | every packet of rcopy, of its server and of the UDP lab |

One transfer: rcopy sends FNAME (file name, window size, buffer size); the
server forks a child that answers FNAME_OK or FNAME_BAD from a new socket and
then sends numbered DATA packets while its window is open. rcopy acknowledges
in-order packets (ACK_RR, cumulative), buffers packets past the expected one
and asks for the expected one (SREJ). The child resends on SREJ, resends the
lowest packet when a closed window stays quiet for a second, and ends with
END_OF_FILE / EOF_ACK.

### The other programs

| part | state it keeps | operations and interaction |
|---|---|---|
| chat server `chat-program2/server.c`, `handleTable.c` | list of (handle, socket), poll set | register, broadcast, message, multicast, list, disconnect; one loop over poll |
| chat client `chat-program2/cclient.c`, `shared.c` | its handle, how many of a handle list are still to come | registration handshake, commands from the keyboard, the packets built from them, messages from the server |
| TCP PDU framing `pdu.c`, `pollLib.c`, `safeUtil.c`, the same files in `chat-program2` and `socket-programming/handin` | poll set | length-prefixed send and receive over a byte stream; the lowest ready descriptor first; exit on any error |
| TCP echo `socket-programming/handin/server.c`, `cclient.c` | poll set | each line a PDU, sent back by a server that serves one PDU at a time |
| UDP echo lab `udp-sendtoerr-lab/rcopy.c`, `server.c`, `pdu.c` | the client: its sequence number, what is left of a line | one datagram per line, sealed with a checksum, sent back as it came; through sendErr both ways, no timeout |
| packet trace `trace-program1/trace.c`, `checksum.c` | the place in the file | Ethernet, then ARP or IP, then ICMP, TCP or UDP, with the IP and TCP checksums |
| earlier versions, test drivers, given examples (`*_old.c`, `windo-old.c`, `test*.c`, `my*.c`, `trace_struct.c`, `* copy*.c`) | | not part of the built programs |

### What is hard here

* Both ends work on a window of numbers and store it in rings indexed by
  `seqNum % winSize`. A bound that is off by one goes unnoticed until the
  window is full and then overwrites an unacknowledged packet.
* The network drops, corrupts, repeats, delays and reorders, both ways, so any
  old acknowledgement or data packet may arrive in any later state.
* The server keeps two numberings, `nextToSend` for what it sends and
  `win->curr` for what it stores, ignores `addPane`'s result, and rewrites one
  from the other on every acknowledgement.
* The receive buffer is re-based whenever its count is zero, and the count is
  reset by a flush that may have stopped at a gap.
* Timers: a resend may race the acknowledgement of the same packet; one retry
  counter serves data and END_OF_FILE and is never reset.
* Failures in the middle of a step: a write that fails inside a flush.
* In the chat, descriptors are the server's only name for a connection and are
  reused at once; clients come, type before they are registered, and disappear
  at any moment; a send to one that has just gone can end the server.
* Children of the server are made by whoever asks, end at any time, and raise a
  signal that is not counted; an impatient rcopy makes several.
* TCP cuts PDUs anywhere and connections end inside them, while the server, one
  thread, waits in `recv` for the rest.
* Each program's errors are a deterministic sequence of draws; the settings that
  govern them come from two places, and equal seeds make programs fail together.
* Bytes are found by offsets that depend on earlier bytes: IP options, handles of
  variable length, an odd byte at the end of a checksum.
* Limits that differ by one between the functions that share a value: a handle of
  100 characters fits one array and not the next, a builder refuses what the parser
  has let through, a packet may be longer than the buffer it is received in.

What would make each part correct: for the window, that it behaves as a map
from outstanding numbers to packets; for the buffer, that each packet stays in
its own cell and a flush starts with the packet it should; for the transfer,
that chunks keep their numbers, that the server never discards what rcopy still
needs, that both ends stop, that completion is agreed on, and that the file is
copied; for the chat, that handles and live connections are one-to-one, that
messages reach whom they name and nobody else, that lists are whole, and that a
departed client's handle is freed; for the set-up of a transfer, that a bounded
number of requests makes children that each serve one socket, and that none is
left a zombie; for framing, that PDUs stay whole however they arrive; for the
checksum and for sendErr, that damage is always seen and that settings mean what
they say; for trace, that its verdicts are right.

## 2. Modules

| module | models | state and actions |
|---|---|---|
| `Ring` | the ring arithmetic of both libraries | constant `WinSize`; `Slot(seq)` is `seq % winSize` |
| `Window` | `window.c` | a window is a record value (`live = FALSE` is `win == NULL`); one operator per function, whose value is the window after the call. A rejected call returns its argument |
| `WindowAPI` | `window.c` under an arbitrary caller | `win`, `resent`; one action per state-changing function with any argument |
| `SlidingWindow` | abstract: what `window.c` promises, without a ring | `base`, `next`, `held` |
| `PacketBuffer` | `buffer.c` | a buffer is a record value; one operator per function. `FlushBuffer(b, n)` takes the number of writes that succeed |
| `PacketBufferAPI` | `buffer.c` under an arbitrary caller | `pb`, `outFile`, and the history `writeFailed` |
| `Channel` | `sendBuff`, `recvBuff`, what `sendto_Err` and UDP do to them | the environment of the transfer, one sequence of packets per direction, the open sockets, faults so far |
| `ServerFSM` | a server child, `clientControl` | `sstate`, `win`, `nextToSend`, `eofSent`, `retryCnt`, `filePos`; one action per path through a state function |
| `RcopyFSM` | one attempt of rcopy, `transferFile` | `rstate`, `pb`, `expectedSeqNum`, `output`, and the history `gotEof` |
| `Session` | both over the channel | all of these; the two processes interleave freely |
| `FileCopy` | abstract: what a transfer is for | `copied`, `status` |
| `Connect` | how transfers come about: rcopy's attempts, `serverTransfer`, the children, `reapZombies` | per rcopy its state, socket, `retryCnt` and whom it answers; the server's `lib`, the children, the signal; requests and answers on their way |
| `Checksum` | `in_cksum`, over bytes of `Byte` values | operators only |
| `SendErr` | `libcpe464`: SettingsManager, PacketManager, the events, `sendErr_init`, `forkMod` | the library's state is a record; one operator per function |
| `UdpEcho` | the UDP lab, over `SendErr` | each program's library, the draws known of each seed, the clients, the datagrams; histories of sends and losses |
| `TcpEcho` | the TCP echo programs, `pdu.c`, `pollLib.c`, `safeUtil.c` | byte streams both ways (on the wire, and in the receiver's buffer), the poll set, the descriptor being served |
| `Trace` | `trace.c` | the file, the packets printed; one packet per step, one operator per layer |
| `HandleTable` | `handleTable.c` | a table is a sequence of entries, head first; one operator per function |
| `ChatPdu` | `parseUserCmd`, `shared.c`, and the fields of a packet by their offsets | operators only, on sequences of bytes |
| `ChatNet` | `sendPDU`, `recvPDU`, `accept`, `close`, and the processes' ends | a queue of PDUs each way per client, the server's descriptors, clients gone, whether the server is up |
| `ChatServer` | chat `server.c`, `pollLib.c` | `table`, `pollSet`; one action per turn of `serverControl`'s loop, the cases of `processClient` as disjuncts, and its exit when standard input hangs up |
| `ChatClient` | `cclient.c` | per client `phase`, `clientHandle`, `expectingHandleList`, `remainingHandles`, and the histories `refused` and `oversize`; one action per user event and per PDU |
| `Chat` | all of it, and the users | their composition, and the properties |
| `Registry` | abstract: what the handle table is for | `holds` (pairs of a client and its handle), `left`, `up` |
| `MCWindow`, `MCPacketBuffer`, `MCSession`, `MCConnect`, `MCUdpEcho`, `MCTcpEcho`, `MCTrace`, `MCChat` | instances for TLC | |
| `RingProofs`, `WindowProofs`, `PacketBufferProofs`, `SessionProofs`, `ConnectProofs`, `ChatProofs`, `TcpEchoProofs`, `ChecksumProofs` | theorems, and lemmas about the operators | |

`ServerFSM` uses the operators of `Window` on its variable `win`, and
`RcopyFSM` those of `PacketBuffer` on `pb`, so what is checked and proved of a
library is about the very operators the transfer is made of. In the same way
`Connect` and `UdpEcho` use the operators of `SendErr`, and `SendErr` and `Trace`
those of `Checksum`. `Session` begins where `Connect` ends: with a child and the
socket of one attempt.

Every action is the whole of one call of a state function, with the library
calls, the receive and the send it makes. That is atomic enough: a process
touches no state of the other but the two directions, and a step makes at most
one receive and one send.

Definitions named `Mut...` are the faulty variants of `PROJECT.json`; nothing
in the models uses them.

### Abstractions

* A packet's payload is the number of the file chunk it carries; 0 is a zeroed
  cell. The last chunk of a file may be short in the code; length plays no part
  in the control and is left out.
* In the transfer a corrupted packet is a packet that `recvBuff` reports as
  CRC_ERROR. That `in_cksum` sees every byte `errorFlipBits` inverts is checked on
  bytes by `ServerShowsSent` (the same library) and `VerdictsRight`.
* A direction of the network is a sequence. A packet in it is either in flight
  or in the socket; the receiver takes the oldest, or with a `reorder` fault a
  later one. A timeout of `selectCall` is therefore possible while packets wait
  (they were late), except in a timely environment, below. A packet to a closed socket
  vanishes.
* `bufferOpen` compares an `int` count with an unsigned size, so a negative
  count is not "open"; the model keeps this. A failed flush can produce one.
* In `Session` an attempt of rcopy that returns to START is over. The next attempt
  uses a new socket and a new child; `Connect` is about those. There, in turn, a
  child that serves sends one data packet and ends some time.
* In `Connect` what is on its way is a bag: any packet may arrive next, so order
  is no part of it, and a duplicate is a second copy.
* `Connect` takes `signal` to keep its handler and to resume `recvfrom` (section 6).
* A draw of `drand48` is one of `Draws`, known from then on for its seed, so that
  two programs with one seed see the same sequence. A draw may be
  exactly 0, one in 2^48; `sendto_Err` then throws a chance event whatever the rate
  is, as it compares with `<=`. A program has no drops at all only with a drop list
  that names no message, such as "0".
* In `TcpEcho` bytes are bytes. Streams deliver any prefix of what is under way;
  a sender that ends may lose what was on the wire.
* In `Trace` fields that are only copied to the output are left out. A capture file
  holds frames of real bytes as they were sent, framed by the RFCs' rules
  (`Framed`), and what was captured of each: the same, but for one byte at most,
  which is none of those that tell headers apart or give lengths (`DamagedOnce`).
  An IP packet is whole: `trace.c` does not look at the fragment offset and prints
  "Incorrect" for the TCP checksum of any fragment, damaged or not.
* The chat's PDUs are whole: one `send` each, received with `MSG_WAITALL`; that
  this is sound is what `TcpEcho` shows of the same files. A PDU is a sequence of
  bytes, with the offsets of the code, but for the count of a handle list, one
  byte for four. `buildHandleListReq` cuts the last character off.
* A handle of `MAX_HANDLE_LENGTH` characters fills the array of its table entry, and
  the socket that `addHandle` writes next replaces its null (`handleTable.c:38-39`).
  What `strcmp` and `strdup` find from then on goes on with the socket's bytes
  (`Stored`): one, for a descriptor below 256.
* What a builder refuses is `NoPacket`: its -1 is taken for a length by `sendPDU`,
  which ends a client (`PacketFaults`) or, for an empty handle in a list, the server
  (`Faults`). `buildErrPacket`'s refusal is checked by its caller (`NoSuchHandle`).
* A PDU longer than `MAXBUF` ends its client or is sent; which of the two depends on
  what lies behind its array. The server drops a client it gets one from (`ReceiveError`).
* The server's standard input may hang up at any time, which ends it (`StdinHangsUp`).
* A line a user types is what `strtok` finds in it (`ChatPdu`). Words that
  `parseUserCmd` copies to an array for handles are no longer than a handle.
* The server may be killed by a send to a client that has gone: by the first
  after the client's end is known to be abortive, otherwise by the second
  (`MayKill`). `safeSend` exits on any error, so the `cleanupClient` calls after
  a failed `sendPDU` are never reached and have no action.
* `pollCall` reports the lowest ready descriptor, and the listening socket is
  the lowest (`Polled`). `accept` returns the lowest free one.
* A chat client that writes to a connection the server has closed is killed
  sooner or later; `Interrupted`, which may happen at any time, stands for it.

## 3. Runs

| run | instance | checks |
|---|---|---|
| `window` | 3 panes, numbers up to the bound in the module, any calls | `TypeOK`, `WindowInv`, `OpenIsSpan`, `ImplementsSlidingWindow` |
| `buffer` | 3 cells, any calls, any write may fail | `OwnCell`, `CountIsLowerBound`, `HeadIsNext` |
| `session` | window 3, 4 chunks, 2 retries, fair, in four environments: *hostile* (2 faults of any kind in either direction, failing reads and writes, refused requests), *lossy* (2 drops or flips anywhere, any delay), *bad way back* (faults of any kind on rcopy's packets only, I/O errors), and one of rcopy's packets lost on a timely network | `SessionTypeOK`, `WireFaithful`, `NextIsCurr`, `NeverSlidPast`, `FitsReceiver`, `FeedbackExpected`, `CompletionIsShared`, `Termination` everywhere; `CanBuffer`, `ImplementsFileCopy`, `Completion` in the environments they name |
| `connect` | 2 rcopies, 2 requests each and more after corrupted answers, names of 96, 97, 100 and 101 characters, in six cases: everything may go wrong once; drops and flips twice; slow answers, with and without the file; quick answers, to names of 96 and 97 and of 100 and 101 characters | `OneChildPerSocket`, `RequestsBounded`, `ChildSeedsDistinct`, `ZombiesNoticed`, `NamesAnswered` |
| `chat` | 3 clients, 3 descriptors, a table of 2; two clients may share a handle, and handles may be empty, of the greatest length, or too long; 2 commands of any kind, right and wrong, one with a PDU longer than the buffer, typed at any time; standard input may hang up; server fair | `TableSound`, `AddressedOnly`, `DropExplained`, `ListComplete`, `HandleFreed`, `ImplementsRegistry` |
| `udp_echo` | a server and up to 2 clients, up to 3 lines each, six ways to start them: equal rates, a server that errs alone, drops switched off by the list "0", a drop list, seeds and rates from the environment, a flip list | `ServerShowsSent`, `EchoRestored`, `DropListExact`, `StuckMeansDropped`, `Answered` |
| `tcp_echo` | 2 clients, 3 lines in all, streams cut anywhere, anybody may end at any byte | `EchoesExact`, `NobodyDropped`, `DeathExplained`, `Answered` |
| `trace` | a TCP, TCP with options, UDP, ICMP and ARP frame, any one byte damaged | `VerdictsRight`, `PortsRight` |
| `lost_chunk`, `early_eof`, `ack_unsent`, `long_name` | the smallest instance that shows the disagreement | section 5 |

What the passing runs show:

* **The window is a map.** Whatever order `window.c` is called in, at most
  `winSize` packets are outstanding, each owns its cell, every other cell is
  free (`WindowInv`); the second test of `windowOpen` never disagrees with the
  first (`OpenIsSpan`); and every call is one operation of a map with no ring
  (`ImplementsSlidingWindow`), so `resendPane` sends exactly the packet added
  under the number asked for. The last point is delicate: `resendPane` lets
  `seqNum = curr` through its range check, and with a full window that cell
  holds the lowest outstanding packet; only the pane's own number saves it.
* **The buffer keeps packets in place.** No packet is off its cell (`OwnCell`),
  the count never exceeds what waits, even after a failed write
  (`CountIsLowerBound`), and until a write fails a flush starts with the packet
  `nextSeqNum` names (`HeadIsNext`).
* **The server's two numberings agree** (`NextIsCurr`), though not by the rule that
  the documentation gives (section 5), and so every data packet
  on the wire, first sent, asked for or repeated, carries the chunk of its own
  number (`WireFaithful`), although `addPane`'s result is ignored.
* **Nothing needed is discarded.** The server's lower bound never passes
  rcopy's expected number (`NeverSlidPast`), and every data packet on its way is
  inside the receiver's window (`FitsReceiver`), whatever arrives late, twice or
  out of order.
* **The branches marked "should never happen" do not** (`FeedbackExpected`), and
  the server believes a transfer complete only after rcopy does
  (`CompletionIsShared`).
* **With drops and flips only, rcopy never gives up over its buffer**
  (`CanBuffer`). This does need packets not to overtake each other: if packets 3
  and 2 arrive in that order while 1 is missing, `addPacket` has based the
  empty buffer on 3, refuses 2, and `recvData` stops the transfer
  (`rcopy.c:250`). A network that reorders is outside the documentation's
  promises, so this is a limit of the property and not listed as a finding.
* **Both processes exit** whatever is lost (`Termination`).
* **While the packets towards rcopy arrive, the copy is a copy**
  (`ImplementsFileCopy`): timeouts, repeated packets and any fate of rcopy's
  answers included, and in time it completes (`Completion`).
* **An rcopy hears one child** (`OneChildPerSocket`): an rcopy that asks again makes
  a second child while the first still serves, but from a new socket, so their
  packets never mix, unless the network duplicates a request. It asks a bounded
  number of times (`RequestsBounded`): once more than it waits for, since
  `processSelect` counts before it compares and `start_state` has sent by then;
  the last child answers a closed socket.
* **Children differ and are reaped.** The children of one server throw different
  dice (`ChildSeedsDistinct`), and however many exit at once, or while the handler
  runs, none stays a zombie that no signal is pending for (`ZombiesNoticed`).
* **A name of up to 96 characters is answered** on a perfect network
  (`NamesAnswered`). Longer ones are not, up to the 100 that rcopy accepts: `filename`
  takes off one of the two fields in front of the name before it compares
  (`long_name`, section 5).
* **The strings in the table and the connections are one-to-one** (`TableSound`),
  although descriptors are reused at once and `removeHandle` removes one entry only;
  hence **messages reach only whom they name** (`AddressedOnly`). This rests on
  `cclient` registering once per connection: the server itself would accept a
  second registration on the same socket and later leave it behind. A string is
  its client's handle, unless that has the greatest length: then it goes on with
  the socket, and a second client gets the same handle (section 5).
* **The table is a registry of who is called what** (`ImplementsRegistry`): with
  descriptors read as the clients behind them, a handle goes to a client that asked
  for it, while there is room and nobody has it, and is taken back only from a client
  that has ended or has sent what the server cannot receive; no step of the chat moves
  a handle from one client to another. `TableSound` alone would allow a living client
  to lose its handle. "Nobody has it" is true of handles shorter than the greatest
  length (`Exclusive`). When the server ends, it is for nobody to say: of a write to a
  client that has ended, of a list with an empty handle in it, or of its standard
  input.
* **A refused client learns why** (`DropExplained`) before it finds its
  connection closed, even if its user has typed commands meanwhile, and those
  are not obeyed. One client is dropped without a word: the one whose `%C` with
  long handles makes a PDU that does not fit the server's buffer.
* **What is read was typed** (`AddressedOnly`): the handle and text a client prints,
  found by `getMsgIdx` behind fields of any length, are those of a command that
  its sender's user types.
* **Handle lists are whole** (`ListComplete`): the client's count is exactly zero
  at the end of each list that it reads to the end, whatever else it receives, so the
  exit at `cclient.c:367` (`ListCutShort`) is never taken. The one at
  `cclient.c:340-345` is (`ListedTooLong`): by a client that asks for a list while
  somebody has a handle of the greatest length.
* **Handles are freed** (`HandleFreed`) unless the server dies. The server does
  die: of sends to departed clients, of lists with an empty handle, and when its
  standard input hangs up. No document says otherwise, and the hazards are recorded.
* **PDUs survive any cut of the stream** (`EchoesExact`, `NobodyDropped`): clients get
  back their own lines, whole and in order, and are never dropped for a PDU that
  arrives in pieces. **The server dies for two reasons only** (`DeathExplained`):
  standard input hangs up while the poll set has an unused entry, whose descriptor
  is 0; or it writes to a client known to be gone. Otherwise every line is
  **answered** (`Answered`), though `recv` blocks the only thread: a client that
  ends inside a PDU ends the wait.
* **No flipped byte passes the checksum** (`ServerShowsSent`), in datagrams of even
  and odd length: the server prints what was sent. The client may print what was
  not, if the same datagram was flipped on both ways. **A drop list means what it says** (`DropListExact`), **one drop
  and nothing else stops a client for good** (`StuckMeansDropped`), and with
  drops switched off by a list all lines are answered (`Answered`).
* **With equal seeds the lab's errors cancel** (`EchoRestored`): both programs are
  started with `RSEED_OFF`, draw the same numbers in step, and so the server flips
  the very byte the client's library flipped: the echo comes back intact though
  the server has called it corrupted, and the server never drops what reached it.
* **trace's verdicts are right** (`VerdictsRight`): "Incorrect" is printed exactly when a byte
  under the checksum was damaged, with IP options, padding and odd lengths, and the
  ports are read behind the options (`PortsRight`). This is about IP packets that
  are not fragmented.

### Bounds

* A window of 3 is the smallest with a cell that is neither the lowest nor the
  highest; the numbers exceed it, so every ring wraps. A window of 4 is used
  where a packet must be left behind by two successive flushes, and 1 and 2 where
  the question is about a window that closes at once.
* `NumPackets` is larger than the window, so the window slides and closes, and
  END_OF_FILE is met both with outstanding packets and without.
* `MaxTries` is 2 or 3 for 10. Nothing depends on its value but how long both
  ends persist; 2 lets the counter be spent half on data and half on END_OF_FILE.
* `env.limit`, the number of faults in a transfer, is 1 to 3. `sendto_Err` has no
  such bound, it is what makes the state space finite; each finding needs at
  most 3. The four environments share one run: each is a choice made once, and the
  properties that hold in some of them only say in which.
* In `connect`, `MaxTries = 1` lets an rcopy ask twice, so that two of its children
  run together; a corrupted answer makes it ask again.
* In `udp_echo` a byte has 4 values and a datagram 6 to 8 bytes, so checksums carry
  and wrap; `ChecksumProofs` is about bytes of any range, and `trace` runs the same
  operators on real ones. `Draws` are three values of a die of 14,
  0, one below the rate of 7 and one above it, and all below 14; as second and third
  draws they pick different events and bytes.
  `MAXBUF = 3` lets a line of 3 characters be cut.
* In `tcp_echo` one client sends two lines and the other one, so that a second PDU
  meets a reader in the middle of the first, and both clients compete for the
  server.
* In `chat` the greatest length of a handle is 3 (100 in the code), so that the test
  handles have every length from 0 to one too many; of a text 5 (200), of a destination
  list 2 (9) and of a PDU 14 (1024), which the longest multicast exceeds as it
  does in the code.
* Three chat clients are a sender, a receiver and one who takes over a handle or
  a descriptor; a table of 2 is full while a third registers. Two commands let a
  list meet a broadcast, or be asked for twice. With finitely many commands the
  poll order cannot starve anybody: `HandleFreed` is about that case, and
  endless traffic on low descriptors is outside it.
* `MaxFile` and `Args` bound the file and the arguments of the buffer run.

Deadlock is checked for the libraries, the session and the chat: a session or a
chat that is over takes `Finished` steps for ever, any other state must have a
step. For the chat, over includes that a server which is up has dropped every
departed client. It is not checked for `connect`, `udp_echo`, `tcp_echo` and
`trace`: there programs end, users stop typing, and a client of the lab may wait
for ever; `StuckMeansDropped`, `Answered` and `NamesAnswered` say when they may.

### Fairness

`FairSpec` gives each process weak fairness as a whole. In the code each is a
loop whose only blocking call is `select` with a time limit, so it always takes
another step until it exits. Nothing is assumed of the network: a packet may be
late for as long as timeouts last.

The chat's `FairSpec` gives the server weak fairness: it is a loop that takes a
turn when `poll` reports something. Nothing is assumed of clients and users; a
client that hangs does not keep others' handles from being freed.

`Connect` is fair to each rcopy, to the server process and to its children, all
of which wait for a limited time or for one another. A serving child may end at
any time (`ServiceEnds`), and does in the end: `Termination` of `session`.
`UdpEcho` is fair to the server and to a client with an answer to read, `TcpEcho`
to the server, to the reading side of the clients and to TCP's delivery of bytes.
Users are nowhere fair.

A timely environment (`env.timely`), used for `Completion` and by the
disagreements about the transfer, says that a packet is received and answered within a second: a
server timeout happens only with nothing in flight, and rcopy's one and ten
second limits pass only once the child has exited. `case.timely` of `Connect` says
the same of a request, for `NamesAnswered` and `long_name`. It excludes counterexamples that are only about a slow
network; it is an assumption about the network and the ratio of the timers
(`SHORT_TIME`, `LONG_TIME` in `srej.h`).

## 4. Proofs

`RingProofs` proves, for every window size, what `seqNum % winSize` guarantees:
every number has a cell (`SlotType`), numbers of one window never share one
(`SlotInjective`), and numbers a window apart do (`SlotPeriod`). The step is
`SlotApart`: if two numbers share a cell their difference is a multiple of the
window size, and the only multiple below it is zero (`NoMultiple`).

`WindowProofs` proves of `WindowAPI!Spec`, for every window size, set of
packets and set of arguments:

| theorem | statement |
|---|---|
| `WindowTypeCorrect` | `Spec => []TypeOK` |
| `WindowSafe` | `Spec => []WindowInv` |
| `WindowOpenIsSpan` | `Spec => []OpenIsSpan` |
| `WindowImplements` | `Spec => ImplementsSlidingWindow` |

Assumptions: `WinSizeAssumption` (the window size is positive, as `checkArgs`
of rcopy enforces) and `CallerAssumption` (packets are not 0, arguments are
naturals).

The inductive invariant `IInv` is `GoodWindow(win, Pkts)` and the type of
`resent`. `GoodWindow` is the type together with `WindowOK`: the span is
bounded, every outstanding number owns its cell, every other cell is free.
`WindowInv` alone is not inductive without the type, and without its last part
(`OthersFree`) `addPane` could land on an occupied cell and `markPaneAck` could
mark a stale one. There is one lemma per function (`AddPaneGood`,
`SlideWindowGood`, ...) saying it keeps a window good; each uses `SlotInjective`
to tell the cell it touches from those of the other outstanding numbers.

The refinement maps `win` to `lower`, `curr` and the map `HeldIn(win)`. One
lemma per function (`HeldAfterAdd`, `HeldAfterSlide`, `HeldAfterMark`,
`ResendIsHeld`) says what it does to that map, and each step of `Next` is then
the abstract operation or a stutter. `RInv` adds that a window that is not live
is exactly the one `freeWindow` leaves.

`PacketBufferProofs` proves of `PacketBufferAPI!Spec`, for every window size and set
of arguments, and whichever writes fail:

| theorem | statement |
|---|---|
| `CellsOwned` | `Spec => []OwnCell` |
| `CountBounded` | `Spec => []CountIsLowerBound` |
| `FlushStartsAtNext` | `Spec => []HeadIsNext` |

What is true of the operators of `PacketBuffer` whoever calls them is in `RingProofs`.
The inductive invariant is the three together with the shape of `pb`. A packet is
stored in a cell that was not waiting, so the cells that wait are one more, as the
count. A flush blanks `n` cells in a row: all of them wait, and they are `n`
different cells as they are at most one window (`CellsInARow`, from
`SlotInjective`), so after a failed write the count has come down by no less than
the cells. That there is a run for `flushBuffer` to find (`RunWaits`) needs a least
element of a set of naturals, which `LeastElement` takes from the library's
well-foundedness of strict inclusion of finite sets. `HeadIsNext` holds because an
empty count is re-based on the packet that arrives, a packet that arrives later gets
another cell than the head, and a flush leaves a count of zero or a failed write.

`SessionProofs` proves of `Session!Spec`, for every window size, file, `MaxTries` and
set of environments, however many packets they lose, flip, repeat or reorder:

| theorem | statement |
|---|---|
| `NumberingsAgree` | `Spec => []NextIsCurr` |
| `WireIsFaithful` | `Spec => []WireFaithful` |
| `ServerHoldsExpected` | `Spec => []NeverSlidPast` |
| `DataFits` | `Spec => []FitsReceiver` |
| `FeedbackIsExpected` | `Spec => []FeedbackExpected` |
| `CompletionShared` | `Spec => CompletionIsShared` |
| `SessionTypes` | `Spec => [](SessionTypeOK /\ ChunksOnly)`: the types, and that what is on its way or buffered is a chunk of the file |
| `BufferAlwaysTakes` | `Spec => []CanBuffer` |
| `TransferCopies` | `Spec => ImplementsFileCopy` |

No one of the first six is inductive; one invariant, `IInv`, carries them all, because
each end relies on what the other has put on the wire. `ServerInv` says that each pane carries
the chunk of its own number (`WinInv`), that `filePos = curr - 1`, and which states
have `eofSent`: without the last, `handleFeedback` would move `nextToSend` back behind
END_OF_FILE. `RcopyInv` says that a buffer which needs a flush starts no lower than
`expectedSeqNum`: so `expectedSeqNum` never falls. `LinkInv` says what may be on the
wire: data within `expectedSeqNum + WinSize` under its own number and END_OF_FILE only
once it is sent, new chunks below `nextToSend` and repeated ones no higher than
`expectedSeqNum` (`Down`); acknowledgements below `expectedSeqNum`, SREJ no higher, and
EOF_ACK only once rcopy is done (`Up`). A data packet fits when it is sent, since the server has not slid
past what rcopy expects, and fits ever after since `expectedSeqNum` only grows
(`LinkGrows`); an acknowledgement in transit can only lag. The channel's part is that
what is received was sent, or was flipped (`ReceiveKeeps`, `SendKeeps`), whatever its
order. The assumptions are `WinSizeAssumption`, `EnvironmentsAssumption` and
`ServerAssumption`. `IInv` does not say that the packets behind `expectedSeqNum` were written, and they need
not have been (section 5).

The other three theorems add an invariant each to `IInv`:

* `TInv`, for the types. `SessionTypeOK` bounds chunk numbers by the file, which is
  inductive only with the places chunk numbers travel through: the packets on the wire
  (`Carrying`), the panes and the cells that wait (`HoldsChunks`). The fault counter
  stays in range because a step counts every fault it makes (`TransmitCost`).
* `ArrivalInv`, for `CanBuffer`, of environments that at worst drop or flip rcopy's
  packets. First-sent chunks then come in ascending order (`Ascending`), and a
  packet past the expected one is always a first-sent one, by `IInv`: the server
  repeats only what rcopy was missing when it asked, or has. So there is a number `h`
  (`Highest`) at or above all that is buffered and below every new chunk still to come,
  and the buffer holds no more packets than there are numbers from `expectedSeqNum` to
  `h`. The next one to come is above `h`, so past all that are stored, and
  `IInv` has it inside the window: there is room, and the base is not above it.
* `WholeInv`, for the refinement, of environments without faults on rcopy's packets.
  The answer to the file name comes first (`Greeted`); every chunk read and not yet
  written is on its way, ahead of any repeat of it, and END_OF_FILE is behind all of
  them (`InSequence`). So what rcopy finds at the head of the queue is the chunk it
  expects, or nothing new (`HeadOfWhole`), its buffer stays empty, `expectedSeqNum` is
  one more than the chunks written, and a step of rcopy that writes is `Deliver`, one
  that accepts END_OF_FILE is `Finish`, one that gives up is `Fail`, and the others
  stutter (`StepCopies`). This includes writes that fail and every fault on the way
  back.

`ConnectProofs` proves of `Connect!Spec`, for any number of rcopies, names, faults,
attempts and children:

| theorem | statement |
|---|---|
| `NoZombieForgotten` | `Spec => []ZombiesNoticed` |
| `SeedsDistinct` | `Spec => []ChildSeedsDistinct` |
| `ChildPerSocket` | `Spec => []OneChildPerSocket` |
| `AskingEnds` | `Spec => []RequestsBounded` |

The invariant has two halves. The server's (`ServerInv`) adds to the first two
properties that its library has no override of the seed, which would be handed to
every child (`LibTyped`), and that every seed handed out is below the next
(`SeedsBelow`): without it the next child could get the seed of an earlier one.

The other half (`NetInv`) is about what is on its way. `Addressed`: nothing comes
from or goes to a socket that does not exist yet, and a packet goes to the client of
the child that sent it; so what an rcopy hears on a socket comes from the child of
this socket. `RequestsApart`: unless packets are duplicated, the request of a socket
is on its way, or has a child, or is lost, and is one of these only; a fork takes it
from the network, so the socket gets no second child. `Asked` is the budget: sockets
used so far against `retryCnt` and the rounds that corrupted answers have earned.
A fault counts when the packet is corrupted, but earns its round when rcopy reads the
packet; in between (`Rejected`) it must not count for the rcopy that waits for it,
or a timeout before the answer is read would use the round twice (`Spent`).
The assumptions are those of `Connect` on its constants.

`ChatProofs` proves of `Chat!Spec`, for any number of clients, any handles and lines
they may use, any table size and any bounds on lengths:

| theorem | statement |
|---|---|
| `TypesHold` | `Spec => []ChatTypeOK` |
| `HandlesUnique` | `Spec => []TableSound` |
| `NobodyMisled` | `Spec => []AddressedOnly` |
| `HangUpsExplained` | `Spec => []DropExplained` |
| `ListsEnd` | `Spec => []ListComplete` |
| `HandlesRegistered` | `Spec => ImplementsRegistry` |

One inductive invariant, `IInv`, carries them, with one lemma per step of the server,
the clients and the users (`RegisterStep`, `MulticastStep`, `ReceiveStep`, ...). Its
parts and what each is for:

* `Connections`: a client has one connection at most, in the backlog or under one
  descriptor, and a client that has ended has nothing coming.
* `TableSound` with `Stored`: strings and sockets are one-to-one. A new entry's string
  differs from all others although `addHandle` has compared the handle and not the
  string (`StoredApart`): if they are the same, so are the sockets at their ends.
* `Queues`: until a client is registered, the first PDU it has sent is its handle and
  every later one is what its user typed; afterwards all are. So the server never
  registers a client twice, which is what `TableSound` rests on, and whatever it
  forwards can be read back as the line it came from.
* `Told`: a client that the running server has dropped has its answer, or it is on
  its way, or has sent a PDU that is too long; `Sized` says that such a PDU comes from a
  client in `oversize`. `Answers` adds the flags a client can receive.
* `Lists`: the rest of the list that has begun to arrive is first in the client's
  queue, and every other has its number in front; a message never gets between,
  because a list is sent within one turn of the server's loop.
* `Meant`: every message on its way was typed by a client that had started, for the
  client it goes to. A client that has not started has no handle yet, hence `Started`.

`HandlesRegistered` is a step simulation: `Register` maps to the registry's (`RegisterMaps`),
a disconnection to `Release` or to nothing (`DropMaps`), the end of a client, or a PDU it
sends that is too long, to `Leave`, what ends the server to `Die`, and everything
else to a stutter; in particular
`Refuse`, which calls `removeHandle` for a client that has no entry, and `AddNewSocket`,
whose descriptor is in no entry (`AcceptFinds`). It needs `IInv`, and `Chosen`: what a
client registers is a handle it may have. That a handle shorter than the greatest
length is nobody's when it is given rests on `AddRefused` comparing it with strings
that are then the handles themselves.
`TypesHold` bounds the table and gives every variable its type; the run leaves it to
the theorem.

`ChatProofs` begins with what is true of the operators whoever uses them: what the
community module's `FlattenSeq` keeps, by an induction over an interval written out as
a least element; that a lookup by handle or by socket finds the entry, and adding and
removing keep entries different; that `FirstDest`, `DestHandles`, `SrcHandle` and
`Printed` find in a packet what `BuildMsgPacket` put there, for handles and texts of
any length; and what a step sends to each client. The assumptions are those of the
modules on their constants. `NetAssumption` says that descriptors suffice: if `accept`
has none the program exits (`networks.c:87`), so no further state is left out.
`UsersAssumption`, `LengthAssumption` and `MaxHandlesAssumption` give types only.

`TcpEchoProofs` proves of `TcpEcho!Spec`, for any number of clients and descriptors, any
lines of 1 to 1024 bytes and however TCP cuts the streams:

| theorem | statement |
|---|---|
| `EchoesAreExact` | `Spec => []EchoesExact` |
| `NobodyIsDropped` | `Spec => []NobodyDropped` |
| `ServerDiesExplained` | `Spec => []DeathExplained` |

What a stream of bytes says about lines is stated by a cut: a function that gives the
place where each PDU ends (`CutAt`, `Frames`), so that no recursion over the lines is
needed. Adding a PDU extends the cut (`FrameAdded`), and reading one shifts it
(`FrameTaken`). `Carries(stream, lines)` says that the bytes still to be read are those
of the PDUs, or a beginning of them if the stream has ended (`Begins`): a sender that
goes away may lose the last bytes. The central lemma is `PDURead`: once `recv` does not
have to wait, `recvPDU` returns the next line whole and leaves a stream that carries the
others, or the stream has ended. Its arithmetic is that of the length field
(`LengthField`, `PDUBytes`), which holds for 1024 bytes with two to spare.

The inductive invariant, `IInv`, says of each client that there is a number `n` of lines
answered: those behind `n` are on their way to the server, and those between the
echoes printed and `n` are on their way back (`Echoing`). `EchoesExact` alone says
nothing of what is on its way. `Open` says that a client that has not ended has not
ended its stream, so what the server takes for an end is one, hence `Kept`, and with it
`NobodyDropped`. `Connections` says that `pollSet` has exactly the descriptors in use,
so an entry that polls in vain is standard input's (`DeathExplained`), and that no client
is in the backlog or at the descriptors twice, so `accept` finds a descriptor
(`AcceptFinds`). The assumption `TcpEchoAssumption` gives finitely many clients,
descriptors enough for them, and the lines' lengths, as `MAXBUF` of `cclient.c` does.

`ChecksumProofs` is about the two programs that rest on `in_cksum`. It proves of
`UdpEcho!Spec`, for any number of clients, any set-ups, lines and dice, and bytes of
any range, and of `Trace!TraceSpec`, for any capture files of whole packets:

| theorem | statement |
|---|---|
| `ShowsSentOnly` | `Spec => []ServerShowsSent` |
| `EchoesAreRestored` | `Spec => []EchoRestored` |
| `DropListsAreExact` | `Spec => []DropListExact` |
| `WaitsExplained` | `Spec => []StuckMeansDropped` |
| `TraceVerdicts` | `TraceSpec => []VerdictsRight` |
| `TracePorts` | `TraceSpec => []PortsRight` |
| `DamageDetected` | a balanced packet that has changed in one byte is not accepted |

The checksum comes first. `FoldSums` says that the library's `FoldLeft` with addition
has the last of the partial sums as its value; it needs that the function the library
folds with exists (`AdderExists`), by an induction over an interval (`IntervalInduction`).
So the total of a packet has one summand per word, and changing a byte changes the total
by the difference, times `Byte` if the byte is the high one of its word (`ByteWords`). Folding
keeps a total modulo `Word - 1` and yields a word, as long as there are no more words
than a word has values (`FoldReduces`, `ShortSum`); a sealed packet has a multiple
of `Word - 1` for its total (`SealedBalanced`, `AcceptedBalanced`), which a changed
byte moves by less than `Word - 1` and by more than 0. So no packet with a changed byte
is accepted (`DamageDetected`), the checksum's own bytes and the odd last byte included.

The inductive invariant of the lab, `IInv`, is the types, the two properties that are inductive
with the rest (`EchoRestored`, `DropListExact`), and:

* `Libraries`: a program's settings are those it has started with, its library counts
  what it sends, and the draws it has made are known. `DropListExact` rests on it, with
  what the library makes of a drop list (`StartedFresh`, `ListedIs`).
* `Conversation`: the datagram of a client that waits is on its way to the server, on
  its way back, or lost, and in one of these places only. `StuckMeansDropped` says no
  more than this of a single state; the step of the server needs that there is one.
* `Delivered`: what the server will receive is the client's PDU, or that with one byte
  flipped, and the PDU is balanced.
* `Lockstep`, when one client and the server have been started alike: the client's
  library is at the end of the draws that are known; the server's is at the same place,
  or, while a datagram is on its way to it, it may throw what the client threw and
  would then do to the PDU what the client's library did. `ServerFollows` says that it
  must; flipping the same byte twice restores it (`FlipsBack`).

The assumptions are those of the modules on their constants. `MaxBufAssumption`
says that a datagram has no more words than a word has values (43 for 65536 in the
code), so that the two folds of `in_cksum` suffice. `SeedsAssumption` gives a type only.

The trace's inductive invariant, `TraceInv`, says that what has been printed is the
file, packet by packet; the work is in what is printed of one packet. `Layout` shows that
the captured bytes give the types and lengths that were sent, that a header has 20
to 60 bytes, so that keeping `header_len` in 8 bits and the segment's length in 16
loses nothing, and that everything `trace.c` reads is inside the frame. `IpVerdict` and
`TcpVerdict` then apply `DamageDetected` to the header, and to the pseudo header
with the segment: `ProtectedBytes` tells which byte of the frame each of their bytes is,
and no byte of the frame is there twice, so one damaged byte is one changed byte.
`FilesAssumption` says what a capture file holds, as above: a TCP packet holds
its whole segment, so the theorem says nothing of fragments. `Files` may be
empty, so it restricts neither the bytes nor anything else of the lab.

Model-checked only: all liveness (`Termination`, `Completion`, `NamesAnswered`,
`HandleFreed`, `Answered`), which is out of the prover's reach.

## 5. Disagreements between code and documentation

Four are runs whose property states what the documentation says, and which TLC
violates. The traces are short; those of the transfer need one to three dropped
packets, and `long_name` none.

* `lost_chunk` (`rcopy.c:265`). When the expected packet arrives and packets
  are buffered, `recvData` flushes the buffer and acknowledges, but the packet
  that arrived is not written. `README:48` says it is written first.
* `early_eof` (`rcopy.c:234`). END_OF_FILE is accepted with data missing. A
  packet dropped shortly before the end is never repaired and both ends take
  the transfer for complete. `README:16`, `README:40`.
* `ack_unsent` (`rcopy.c:268`, `buffer.c:234`). A flush that stops at a gap sets
  `storedPackets` to 0 while packets still wait behind the gap. A later flush
  writes them as packets of higher numbers, and rcopy acknowledges a packet the
  server has not sent. `README:56` says the acknowledgement is for the last
  in-order packet received, and `buffer.h:28` that the count is of the packets
  stored.
* `long_name` (`server.c:199`). A FNAME packet has two 4-byte fields in front of the
  name, and `filename` takes off one. A name of 97 characters is one of more than 100
  to it, and it takes the branch of which `server.c:201` says that it "should never
  happen", without an answer; rcopy sends names of up to 100 (`rcopy.c:125`).

In four places the code does otherwise than a document says and what is checked
holds of the code:

* `NextIsCurr` (`server.c:382`). `README:86` says that `seqNum` becomes RR + 1 or the
  number of the SREJ, and `README:98-100` that sending takes it from there. The code
  sets it to `getCurrSeqNum` on an RR and leaves it alone on a SREJ; the documented
  assignment is commented out on line 383. The property's mutant is the documented
  rule, and with it the window's numbers and those on the wire part.
* `ServerShowsSent` (`libcpe464/checksum.c:75`). The NOTE at lines 37-41 says that the
  length must be even and that an odd one is read one byte past its end; lines 75-79
  add the last byte on its own. The run's datagrams have even and odd lengths.
* `ImplementsRegistry` (`handleTable.c:38`). `server.c:164` refuses a handle that is a
  duplicate; one of 100 characters is given twice, since the table's copy of it is not
  found. `Exclusive` is the set of handles for which it is true.
* `DropListExact`, `Answered` (`libcpe464/PacketManager.cpp:161`). `network-hooks.h:61`
  says of the error rate that 0 means no errors; the comparison is `<=`, and
  `drand48` may return 0.

## 6. Not modelled

* Allocation failure, short writes, and errors of `select`, `sendto` and
  `recvfrom`, on which the programs exit.
* Wrap-around of the 32-bit sequence numbers, which needs a transfer of 2^32
  packets.
* Argument checks. They give the assumptions on the constants.
* In the chat: PDUs that `cclient` never sends, words longer than a handle, which
  `parseUserCmd` copies past the end of an array, and, as in the TCP echo, send
  buffers that fill up when a client does not read, which would stop the server.
* The end of a user's standard input. `readFromStdin` of the chat client takes EOF
  for characters and the client goes on for ever.
* In trace: fields that are only printed, fragments of IP packets, and headers whose lengths lie, which make
  it read past the captured bytes.
* `pdu.c`, `pollLib.c` and `safeUtil.c` of `rcopy-program3`, which the transfer does
  not use; the programs listed in section 1 as not part of the built ones.

Things seen while modelling that no property contradicts, because no document
promises otherwise:

* `buildMsgPacket` refuses texts of 199 characters, handles of 100 and an empty
  sender, which `parseUserCmd` and `regHandle` let through; its -1 is then used as a
  length and the client faults (`PacketFaults`). `buildHandleListReq` refuses an empty
  handle, and the server faults when anybody asks for a list (`Faults`).
* Nothing checks the length of a multicast against the 1024 bytes of its array in
  `cclient` or of the server's buffer (`PacketFaults`, `ReceiveError`).
* A handle of 100 characters that is asked about in a list is one of 101 or more to
  the client, which exits (`ListedTooLong`).
* For an unknown destination of a multicast the error names the sender
  (`Multicast`).
* The empty text in `CPE464_OVERRIDE_ERR_DROP` or `_FLIP` asks for random errors
  even where the program has switched them off (`LoadDrop`, `LoadFlip`).
* A flip list with a number disables flips altogether (`LoadFlip`).
* `signal` keeps its handler, and interrupted calls resume, only outside
  `-std=c99` with glibc. The Makefile asks for c99, but `gethostbyname.c` does not
  compile that way there, so the model keeps the handler (`Signalled`).

## 7. Plan

Done, in order: `Ring`, `Window`, `WindowAPI` against `SlidingWindow`;
`PacketBuffer`, `PacketBufferAPI`; `Channel`, `ServerFSM`, `RcopyFSM`, `Session`
against `FileCopy`; `RingProofs`, `WindowProofs`; `HandleTable`, `ChatNet`,
`ChatServer`, `ChatClient`, `Chat`; `Checksum`, `SendErr`, `UdpEcho`; `Connect`;
`TcpEcho`; `ChatPdu`; `Trace`; `ConnectProofs`,
`PacketBufferProofs`, `SessionProofs`.

Then `ChatProofs`, `TcpEchoProofs`, `ChecksumProofs`.

Last, `Registry`, which `Chat` implements.
