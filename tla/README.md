# EthTransfer in TLA+

EthTransfer is a single-threaded C program for a Raspberry Pi with an ENC28J60
Ethernet chip on its GPIO pins. It brings its own ARP, IP, ping and TCP and a
small web server that hands out one file or takes one upload. This directory
holds its TLA+ models, the TLC configurations that check them on small
instances, and TLAPS proofs of what matters most for every size.

Paths of the form `ip_stack.c:379` are relative to `src/` of the source tree.

## 1. The system

| part | state it keeps | operations | modelled in |
|---|---|---|---|
| TCP connection (`ip_stack.c`) | the one `tcp_conn`: `state`, ids, receive and send rings with their counters, segment table, `ack_timeout` | `handle_tcp_packet`, `add_segment`, `send_tcp_packet`, `open_tcp`, `read_tcp`, `write_tcp`, `shutdown_tcp`, `close_tcp` | `TcpConnection` |
| ring buffers (`ip_stack.c`) | none of their own | `copy_to_circle_buffer`, `copy_from_circle_buffer` | `CircleBuffer` |
| segment merge (`ip_stack.c`) | `rx_segments`, `segment_count`, `rx_write` | the loops at the end of `add_segment` | `SegmentMerge`, `SegmentSet` |
| poll loop (`ip_stack.c`) | the local `i` | `ip_stack_poll`: receive, then send | `WebServer` (actions `Poll...`), `WebLink` |
| web server (`web_server.c`) | locals of `main`: `connection_id`, `read_count`, `http_header`, `required_length`, `complete` | loop of `main`, `send_response`, `send_http_file`, `shutdown_close` | `WebServer`, `WebLink` |
| HTTP text (`web_server.c`) | `read_buffer` and what was found in it | `header_scan`, `split_header`, `header_value`, `find_needle`, `parse_http_content` | `HttpText` |
| TCP options (`ip_stack.c`) | the pointer of the scan | `scan_options`, its use in `handle_tcp_packet` | `TcpOptions` |
| ARP, IP, ping (`ip_stack.c`) | `identification_counter` | `handle_rx_packet`, validation, the answers | `IpStack` |
| checksums (`ip_stack.c`) | none | `ip_checksum`, `ip_checksum_init`, `_add`, `_final` | `Checksum` |
| Ethernet driver (`eth_driver.c`) | none between calls; the chip's registers are its state | `init_ethernet`, `get_packet`, `send_packet`, `close_ethernet` | `EthDriver` |
| register banks (`gpio_spi.c`) | `current_bank`, `bank_stack` | `push_bank`, `pop_bank`, `set_bank` | `EthDriver` |
| SPI bus (`gpio_spi.c`) | levels of the pins | `spi_write_byte`, `spi_read_byte`, the register and buffer calls | `SpiBus`, `RegisterFile` |
| GPIO (`gpio_spi.c`) | `gpio_mmap`, user ids, pin functions | `init_gpio_spi`, `drop_root`, `init_spi`, `close_gpio_spi` | `Gpio` |
| command line (`web_server.c`) | `ip_addr`, `max_size`, `filename` | the loop over `argv` | `CommandLine` |
| `tests/eth_driver_test.c`, Makefile | | | no |

How they interact. `main` calls `ip_stack_poll` at the top of its loop, and so do
`write_tcp`, `send_http_file` and `shutdown_close` while they wait. Only
`ip_stack_poll` handles packets (`handle_rx_packet` -> `get_packet`, dispatch by
type) and sends them (`send_tcp_packet` -> `send_packet`). The server and the
stack share `tcp_conn`: the stack moves `rx_write`, `tx_acked`, `remote_window`
and `state`; the calls of the server move `rx_read`, `tx_write`, `tx_fin`, and
free the record. The program is one thread, but it is not alone: the chip stores
and transmits frames between any two register accesses, and the client and the
network act between any two polls.

What is hard:

* the network loses, repeats, delays and reorders; the client may cut the same
  bytes differently when it sends them again;
* packets are handled in the middle of `write_tcp` and `shutdown_close`: what the
  server checked before a poll may no longer hold after it (reset, close, the
  next client in the same `tcp_conn`);
* the timeout moves `tx_sent` back; acknowledgements arrive after it, and
  carry windows that are older than the ones known;
* `get_now` (`ip_stack.c:759`) counts whole seconds, so a timeout of 20 ms may
  fire at the very next poll;
* all counters are unsigned and compared after subtraction or addition;
* the segment table and the rings are finite, and every register access needs the
  right bank;
* nothing of the server repeats itself but its timeout: what is lost must come
  again from the client, or nobody moves;
* a request is text that arrives in pieces, and its end must be seen in time;
* the chip sees the pins later than they were set.

What makes each part correct:

* **TCP, receiving**: `read_tcp` returns the client's stream of that connection,
  in order, without gaps; end of stream is reported at its end only; the window
  offered never exceeds the room.
* **TCP, sending**: what goes out at a position is the byte written there, now
  and at every retransmission; FIN follows the last byte; no unsigned difference
  wraps.
* **TCP, life of a connection**: one connection's data or calls never touch
  another one; a reset is final; a blocked `write_tcp` keeps its connection.
* **Web server**: uploads are saved complete, each connection is served once,
  shutdown follows the whole answer, an accepted upload fits the buffer.
* **Server and client together**: over a link that loses packets the client gets
  its whole answer, and the server is free for the next client.
* **Request text**: the header ends in one place however it was cut; the file that
  is found is the file that was sent; nobody waits for what is already there.
* **Packets**: each ARP request and ping gets its own answer; checksums satisfy
  their receiver; options and padding do not shift the data.
* **Driver**: frames come out whole and in order while others arrive; driver and
  chip agree where the next frame is; every access is made in its bank.
* **SPI and GPIO**: the bit-banged calls are a register file; root rights are gone
  before the pins are used.

`PROJECT.json` lists each hazard at its line with the properties that cover it.

## 2. The modules

```
TCP and server    CircleBuffer, SegmentSet  <- used by -  TcpConnection
                  SegmentMerge              - checks the loops against -> SegmentSet
                  WebServer                 - extends ->                  TcpConnection
                  WebLink                   - extends and implements ->   WebServer
                  TcpStream                 - TcpConnection implements -> ByteStream
text and packets  HttpText                  - extends ->                  CommandLine, HttpRequests
                  IpStack     - extends ->  TcpOptions - extends -> Checksum - extends -> HostPackets
hardware          EthDriver                   (alone)
                  SpiBus                    - extends ->                  Gpio
                  SpiBus                    - implements ->               RegisterFile
proofs            DataLemmas, TcpStream <- TcpConnectionProofs <- WebProofs
                  DataLemmas <- HttpTextProofs, IpStackProofs, EthDriverProofs, SpiBusProofs
                  SegmentMergeProofs
```

`MC...` modules hold the instances TLC runs. `ByteStream` and `RegisterFile` are
abstract specifications, written from what a caller may rely on; nothing in them is a
line of the code.

### CircleBuffer
`CopyTo` and `CopyFrom` are the two `memcpy` branches (one piece or two) of the
ring copies; a ring is a function on `0 .. size-1`, size being the mask plus one.

### SegmentSet and SegmentMerge
`SegmentMerge` walks the loops of `add_segment` (`ip_stack.c:465-484`): `table`,
`count`, `i`, `j`, `updated` are the variables of the code, one action per branch
of the inner loop and one for the next pass. `SegmentSet` says the result in one
step: `rx_write` moves to the first position no segment covers (`MergedTo`), and
segments beyond it are kept (`Ahead`). `TcpConnection` uses that one step; the
run SegmentMerge shows it equal to the loops.

### TcpConnection
The variables are the fields of `struct tcp_conn` under their names. Besides them:
`app_id` and `wlen` are the server's connection id and what is left of a
`write_tcp` under way; `delivered`, `syn_acks`, `sent`, `fins`, `rx_edge` record
what was returned and what went out; `peer_...` is the client.

| action | code |
|---|---|
| `HandleSyn` | `handle_tcp_packet`, LISTEN and SYN (319-365) |
| `HandleRst` | the RST branch (311-317) |
| `HandleSegment` with `AddSegment` | the rest of `handle_tcp_packet` (367-422), `add_segment` (424-487) |
| `SendTcpPacket` | `send_tcp_packet` (489-640), with the rollback of a timeout |
| `Tick` | the clock passes the deadline in `ack_timeout` |
| `OpenTcp`, `ReadReset`, `ReadTcp`, `ShutdownTcp`, `CloseTcp` | the calls, with the branch of `read_tcp` that frees a reset connection |
| `WriteCall`, `WriteChunk` | entry of `write_tcp` and one pass of its loop; polls come in between |
| `Peer...` | the client accepts a SYN-ACK, a byte or a FIN, sends a byte, closes |

Two lines are modelled as they are, not as they read. `!tcp_conn.state ==
TCP_DATA_TO_READ` (614) compares 0 or 1 with 8, so the block below it, which would
enter the CLOSED states, is never taken (`CNot`). `latest_index` (433) is never
assigned, so a full table always ends in the first "Illegal state" branch.

Abstractions. Positions are relative to the initial sequence numbers, as in
the code, and do not wrap (files are limited to 512 MB, `web_server.c:290`). A
byte is `<<connection, position>>`, its identity, so any wrong byte is seen.
The network is not a set of packets: a packet handed to `handle_tcp_packet` is
any one the client can have sent at some time of this connection, given how far
it has got; this includes loss, duplication, delay, reordering and every way to
cut the stream, and needs no bound on packets in flight. Bytes that went out once
may be received at any time later. The client is a correct TCP: it
keeps inside the window it was offered and acknowledges only what it received.
Packets of other clients carry arbitrary numbers. A client port is not reused
while packets of its last connection are on the way. A stale byte the code sends
at position 0 after a timed-out SYN-ACK is in the model; the client has that
position already and drops it.

### WebServer
`WebServer` EXTENDS `TcpConnection` with the program counter of the thread: `pc`,
and `caller` for where `ip_stack_poll` returns to. Packets are handled at
`pc = "rx"` and sent at `pc = "tx"` only, which is the discipline TcpConnection
leaves open. `ServeNobody`, `ServeNew`, `ServeRead`, ... are the steps of
`main` in order (`web_server.c:115-224`), `StartAnswer`, `WritePass` the answer
by `send_response`, `WriteFile`, `WrittenPass`, `FilePoll` the loop of
`send_http_file`, `Shutdown`, `Drain`, `Close` are `shutdown_close`. A request is
abstracted to its kind, the length of its header, and the length its body
announces. That a header field is missing or malformed is the kind "bad_upload";
the outcome of `parse_http_content` is a choice. A method other than GET and POST
reaches `parse_http_content` with a null boundary: the model stops in
"undefined". `job` is how the request is answered: by a message, by one after a saved
upload, or by the file. A file that can no longer be opened or is too large (`RefuseFile`,
`web_server.c:282-294`) is answered by a message, and `main` ends the program all the same. `fread` may
return nothing (`ReadNothing`): the loop of `send_http_file` polls and tries again (job "stalled"),
as often as nothing comes. The calls of the server are conjoined with
the actions of `TcpConnection`: the module does not ask whether `main` keeps to their order, it is
`main` in its order. The bound of twelve packets per direction and poll is a choice here (the
model may stop handling and sending at any packet); WebLink has it as a number. `close_ip` after the last connection is not modelled: nothing runs
after it.

### ByteStream and TcpStream
`ByteStream` is what a connection promises to its two ends: a stream in each direction,
its end seen only after all of it, one connection at a time. It knows no packets,
windows, rings, timers or positions. `TcpStream` maps the state of
`TcpConnection` to it: what was written is everything below `tx_write`, what the client
has is what the transmissions really carried (`sent`), the end is known to the
application when `read_tcp` would say so. Every step of `TcpConnection` is a step
of `ByteStream` or none.

### WebLink
`WebLink` EXTENDS `WebServer` and replaces "any packet a client can have sent" by packets
under way: at most one to the server, which waits until `ip_stack_poll` takes it
(`LinkReceive`, at `pc = "rx"` only), and one to the client. The browser connects, sends
a request, acknowledges, reads, sends again what is not acknowledged, and closes
once it has its answer (`Client...`, `Connect`, `TakeByte`, `TakeFin`); this is an
ordinary TCP client and nothing of it is in `src/`. What the server sends is computed from
the step that sends it (`ServerPacket`), the wrong sequence number of a SYN-ACK
sent again included. `Reliable` names the kinds of packets the link does not lose: those
that nobody sends again, or not rightly (section 3). `polled` counts the packets of the loop of
`ip_stack_poll` under way; `0 <= i--` lets eleven rounds begin again after the first.
`AnswerLength` is what the header of the answer announces: the file only if it is sent. A browser that
waits for a file of which `fread` returns nothing waits for ever; the liveness properties
except that case by name.

### HttpText
One action per decision of `main` on the text it has read so far: `HeaderMissing`,
`Get`, `Post`, `BodyMissing`, `Parse`, `Ask`. `header_scan`, `split_header`,
`header_value`, `find_needle`, `Cut` (the one or two bytes of the line end before the
second marker) and `ParseContent` are operators on buffers with the
code's off-by-ones: `find_needle` does not try the last position, `header_value`
not the last byte. The server reads a request once the command line has started it
(`Accept`), and knows from it which file it has, if any, and the size of its buffer. A request is a sequence of bytes that arrives in any pieces; each
keyword is one byte, a parsed number another. `strstr` stops at the zeros that
`split_header` has written, as in the code. A file may hold any bytes, zeros too; the headers hold none, as
`strstr` would end there. `NOTHING` is what `ParseContent` finds when it fails; an empty
name or an empty file is not nothing. `HttpRequests` says what a browser sends, in terms of the
text alone; the model only assumes it of its `Requests`, and no operator of the server uses it.

### HostPackets, Checksum, TcpOptions and IpStack
`HostPackets` is what other hosts put on the wire, as the standards lay it out: the bytes of a list of
options (`Encode`, `HoldsOptions`; a size below 2 is not among them), the frames that are requests,
segments, SYNs or of no interest (`IsMeant`), and how a receiver adds up (`ReceiverSum`,
`Verifies`: the number that the words sum to is a multiple of all ones). It says nothing of how
the code reads or writes; the model assumes it of its `Frames` (`PacketAssumption`).
`Checksum` has the sum, the two folds and the complement of the code; `uint32_t`
sums do not wrap, a frame is too short for that. `TcpOptions` has `scan_options`, one round per
step, for the two options in turn, over an options field that may be cut off by its length field;
then `Decide`, the part of the SYN branch that uses the results. `IpStack` is
`handle_rx_packet`: which frames are answered, handed on or scanned, and the header and checksum
`send_tcp_packet` gives a segment. Of the connection it keeps who is at the other end (`remote`): a
segment must come from there and be for the address of the server (`Matches`), a reset is not
handed on (what it does is `HandleRst` of TcpConnection), a SYN counts only while there is no connection,
whatever address it was sent to, and makes its sender the other end. The window test (`ip_stack.c:379-381`) is
left to TcpConnection, which knows the window. A frame carries the fields of its headers, the bytes behind the
first twenty of the IP header, and what its sender meant, which only the properties look at.

### SpiBus and RegisterFile
A call of `gpio_spi.c` is the sequence of its stores, loads and waits (`Accesses`). The
chip takes note of a change of the pins at any later time (`ChipRise`,
`ChipFall`, `ChipOther`); only `SHORT_WAIT` makes sure that it has. Pin levels before
`init_spi` are arbitrary. The chip's side is the SPI protocol the calls speak (external).
`RegisterFile` has the calls as single operations on registers and a buffer memory.

### Gpio
`init_gpio_spi` step by step with every failure it checks, `setuid` with the three
user ids of POSIX, the pin functions before and after, `close_gpio_spi`. The program may be
started by root, with the set-user-id bit, or by a user. SpiBus begins where this ends.

### CommandLine
The loop over `argv`, one argument or option per step, and the start of the server. Command lines
are sequences of options as the usage text writes them; the code sees the flat `argv`.

### EthDriver
Each call of the driver is a sequence `todo` of chip accesses, and the
chip (`ChipReceive`, `ChipTransmit`) acts between any two. A cell of the receive
ring is `<<frame, offset>>`, so a frame that is overwritten or taken from the
wrong place is seen; a pointer read from a cell that is not the start of a
frame is any address. Each access names the bank its register is in, or none for the registers and the
buffer memory that are in every bank; `EWRPT`, `ERDPT` and the skip of a frame too large are
written without `push_bank` and need bank 0 (`Use("skip", 0)`, `eth_driver.c:154`).
`send_packet` leaves the chip alone for a packet without a type or with a length that is none
(`Refused`). `init_ethernet` fails without its pins, without a board, or when the clock does not get
stable (`InitFails`); that the file with the MAC address is missing or bad leads to a random address, and
only the contents of `MAADR` depend on it, which nothing reads back. `got` is what `get_packet` returned for each frame, `REFUSED`
for one too large for the buffer; `InBank` brackets the accesses of a call between
`push_bank` and `pop_bank`. `bank` is the bank really selected, `current_bank` what
the driver believes. `board` says what an absent board reads as.

## 3. The runs

| run | instance | shows |
|---|---|---|
| TcpReceive | 1 client, 1 connection, window 3, ring 6, segments of up to 2, table of 2, 7 bytes and FIN | `TypeOK`, `ReadIntegrity`, `WindowSound`, `EofComplete` |
| TcpSend | 5 bytes, buffer 2, ring 4, windows 0 and 3 in any order | `SendIntegrity`, `ClientSeesFinAtEnd`, `SendWithinLimits` |
| TcpLife | 2 clients (symmetric), 2 connections, 1 byte up, 3 down, window 1, rings of 2 | `WriteHoldsConnection`, `ResetIsFinal`, and that `TcpConnection` implements `ByteStream` (`ImplementsByteStream`) |
| SegmentMerge | all tables of up to 4 segments, positions 0..4, lengths 0..2, in any order | `MergeAgrees`, `MergeEnds` |
| WebServer | 2 connections, 7 requests of 4 kinds, a file of 2 chunks | `WebTypeOK`, `SavedIsComplete`, `OpensFreshConnection`, `ShutdownAfterAnswer`, `UploadFits` |
| WebLink | 1 connection, a page, a file of 2 bytes, an upload; windows 0..2; polls of 2 packets; SYN-ACK and window updates arrive | `CompleteMeansArrived`, `AnswerArrives`, `ServerFreed`, `PollReturns`, and that link and browser keep to `WebSpec` |
| HttpText | all command lines of up to 3 of 10 options; started with a file or without one: all files of up to 3 bytes over CR, LF, NUL, dash and two letters without the boundary; both line ends, both orders of fields; two uploads without a name; 5 GETs; 3 requests to refuse; cut into reads in every way | `HeaderExact`, `UploadRoundTrip`, `LinkServesFile`, `NoMutualWait`, `UsageHolds` |
| IpStack | 2 frames or segments sent: pings, ARP, TCP segments with and without options and padding, of the client of the connection and of others, SYNs with all lists of up to 3 options cut off or not, and frames to ignore, resets and foreign destinations among them; the second frame received is one of few kinds | `EachAnswered`, `SentVerifies`, `SegmentsExact`, `SynAgrees`, `WithinOptions`, `ScanEnds` |
| SpiBus | every start of `init_gpio_spi` with its failures, up to 3 opens and closes, then 2 calls of any kind on 2 registers and 2 cells | that the bus implements `RegisterFile` (`ImplementsRegisterFile`), `RootReleased`, `PinsDirected` |
| EthDriver | ring of 9 cells, frames of 1..3, 4 frames, 2 packets, also of no type, no length, or too long | `AccessInBank`, `FramesInOrder`, `InStep`, `SentInOrder` |
| TcpSegmentTable | as TcpReceive | violates `NoIllegalState` |
| EthAbsent | as EthDriver | violates `AbsenceReported` |

Why the bounds suffice for the cases that matter. In TcpReceive the seven
bytes, cut in every way, overlap, leave gaps, fill a table of two (empty segments
take places too) and go round a ring of six, so that cells are stored into again
while segments ahead of them wait. In TcpSend five bytes go round a ring of
four; the buffer limit and both windows bind; timeouts, rollback and late
acknowledgements happen at every position. Each ring is twice its window or
buffer limit, as in the code. In TcpLife the second connection can be the same
client or another one, and finds the rings and counters as the first left them.
In WebServer an upload fits the buffer, lacks the
room for the zero behind it, or is longer, and one header never ends; the file takes two passes of
the loop that sends it; the second connection begins with whatever the first left behind. In EthDriver frames start at every place of the ring, wrap
inside the header and inside the data, and are too large for the buffer.
In TcpLife every ring has two cells, so that each byte of a stream takes the
place of an earlier one. In WebLink
the file is longer than what fits a poll or the client's smallest window, so that
`write_tcp` waits in its loop, the timeout fires there, and the FIN of either
side meets data of the other. IpStack has option values that look like kinds, so that a
scan that lands inside an option is seen, and payloads of 30 bytes of 255, whose sums carry twice.
SpiBus needs two calls to see one run into the next, and a transfer longer than the memory
to see the pointers go round. In HttpText three options are enough for two names, an option between
them, and an option without its argument at the end.
Constants with the name `Max...` only bound the exploration.

The runs have `CHECK_DEADLOCK FALSE`. The programs really stop ("end", "exit",
a failed initialisation, a finished merge), and the bounds stop the rest.

Fairness. `MergeSpec` and the specification of IpStack have weak fairness of their one sequential
computation, the merge and the scan of options.
`FairLinkSpec` asks whether anything ever finishes, which needs more. The server and the clock are
weakly fair: the loops of the one thread contain no blocking call but `usleep`. The client takes what reaches it, reads, and sends its request. Of the packets
that somebody sends again and again some arrive: the client's SYN, its
unacknowledged bytes, its FIN and its acknowledgements, and each byte and
acknowledgement of the server (strong fairness, one conjunct per kind). These are the
packets that code or client repeat; what is sent once, the reply that reopens a
window, and the SYN-ACK, which is wrong the second time, are not repeated and
arrive only by `Reliable`. A client that stays but never closes, or that resets, is left out:
the server then waits for ever (see below).

### Disagreements found

* `TcpSegmentTable`: `add_segment` prints "Illegal state: no latest segment when
  segment stack is full" (`ip_stack.c:450`), a state its message calls illegal; a full table of
  out-of-order segments reaches it, as `latest_index` is never assigned. The new
  segment is dropped, even one that would close the gap.
* `EthAbsent`: without a board `test_present` pops the bank stack once too often
  (`eth_driver.c:20`) and the program ends in "Bank stack underflow" instead of
  "Unable to detect ENC28J60 board" (`eth_driver.c:44`).

Met while modelling, without a run of their own:

* The timeout of the SYN-ACK takes `tx_sent` back to 0, and the SYN-ACK sent again has a sequence
  number one too low (`ip_stack.c:503`, `567`): a client that missed the first one takes every
  later byte for one it has. Hence "synack" in `Reliable`.
* Nothing probes a window of zero. When the client's update is lost `write_tcp` waits for ever
  (`ip_stack.c:697`). Hence "window" in `Reliable`.
* After a reset the loop of `write_tcp` (`ip_stack.c:696-713`) neither looks at the state nor gives
  up; and after one in the middle of a request `main` keeps its id and never serves anybody again
  (`web_server.c:132-134`).
* "File transfer complete" (`web_server.c:158`) is printed also when the client half-closed early
  and has not acknowledged the file, and when `send_http_file` has sent an error message instead
  of the file. `CompleteMeansArrived` says that the whole answer has arrived, not that it is the file,
  and holds for a client that closes last.
* When `fread` returns nothing before the end of the file, the loop of `send_http_file`
  (`web_server.c:308`) never ends.
* The usage text offers "-m size" (`web_server.c:18`); the branch falls through to the test for a
  file name (`web_server.c:55`), "-m" becomes the name and the size a second one, which ends the
  program. `UsageHolds` does not ask for more of such a line.
* The length test of an option trusts a size of 0 (`ip_stack.c:818`).
* The first test of `soft_reset_test` reads `read & (0x03 != 0x03)` (`tests/eth_driver_test.c`),
  which is always 0, so it cannot fail.

## 4. The proofs

The `...Proofs` modules and `DataLemmas` are checked by TLAPS. They hold for every value of the
constants that satisfies the assumptions of the models:

* `SizeAssumption`: a window below 65536, payloads no larger than the window, rings
  at least twice the window and the buffer limit, and a transmit ring larger than a
  payload (1400 bytes and 8 KB in the code). The ring copies refuse to copy
  a whole ring (`ip_stack.c:877`); a segment that long would go out with old bytes.
* `BoundAssumption`, `WebAssumption`, `LinkAssumption`, `MergeAssumption`: numbers are
  numbers; `ReadSizes` contains the sizes `main` and `shutdown_close` read with,
  `Windows` the windows the browser offers. These sets stand for "any size" and "any
  window"; an instance must not leave out the ones its own program uses.
* `ArgsAssumption`, `BytesAssumption`, `RequestsAssumption`, `StartedAssumption`: options are as the usage
  text writes them; the bytes that mean something are different, and none of them a number; a request with a header
  has one of at most `SCAN_LIMIT` bytes (a megabyte), one without is longer than the buffer, and an
  upload is shorter than the buffer; a name holds no blank. Otherwise server and client do wait for each
  other: a header that never ends in a buffer not yet full is read on for ever (`web_server.c:138`).
* `GpioAssumption`, `CallsAssumption`: the five pins of the bus are different pins of the board; a
  call is one of the seven operations, and a reset is one step of `RegisterFile`.
* `PacketAssumption`, `OutgoingAssumption`, `OptionsAssumption`: a frame is one that `HostPackets` allows, with a total
  length of 16 bits, a message long enough for its protocol's header, and no more data than the largest segment; a
  segment to send has fields of the right width and no more data than that; the largest segment and its
  headers fit a packet.
* `DriverAssumption`: the header of a frame is smaller than the ring, sizes are
  positive. A bank stack of one entry is enough.

`Max...` constants are any numbers here, so the theorems bound no exploration. The
assumptions on the client are those of the models (sections 2 and 5).

### Receiving (DataLemmas, TcpConnectionProofs)

* `CopyToStores`, `CopyToWindow`, `RoundTrip`: a copy into the ring stores byte k
  at position start + k, wrapped or not; it leaves every position less than a
  ring away and outside its range alone; copying back returns what was stored.
  They rest on facts about `%` (`ModInjective`, `RangeSlots`).
* `TypeCorrect`: `Spec => []TypeOK`.
* `ReadsAreTheStream`, `WindowsAreSound`, `EndOfStreamIsComplete`:
  `ReadIntegrity`, `WindowSound`, `EofComplete` are invariants.

The argument. None of the three is inductive: that a read returns the right byte
depends on what the ring holds, and this on where segments may be stored. The
inductive invariant is `ReceiveInv == TypeInv /\ RxInv /\ AppInv`. `RxInv`
says of a connection in use: `rx_read <= rx_write <= peer_sent <= rx_edge <=
rx_read + TCP_WINDOW`, `rx_edge` being the right edge last offered (`RxBounds`);
`rx_fin`, once known, is the end of what the client sent (`RxFin`); segments of
the table lie ahead of `rx_write` and, unless empty, inside what was sent
(`RxSegments`); every position from `rx_read` to `rx_write`, and every one covered by
the table, holds its own byte in the ring (`RxStored`). `AppInv` ties `delivered`
to `rx_read` and says that ids are not used again. The only hard step is
`HandleSegment`: the window check of the code (`ip_stack.c:379`) adds the
length to `rx_write` and ignores where the segment starts, so a copy may begin
before `rx_read`, as far back as the largest payload, or anywhere up to the window's edge.
It writes the bytes of their own positions, so it can only harm a position
a ring's length away from one it writes; `RX_SIZE >= 2 * TCP_WINDOW` and
`MAX_SEGMENT <= TCP_WINDOW` exclude that (`CopyToWindow`). With a ring of
one window TLC finds wrong bytes read. The merge enters through `MergedTo` only: all
positions it passes are covered by a segment of the table. TLC checked
`ReceiveInv` on the instances of TcpReceive and TcpLife before it was proved.

### Sending, and the life of a connection (TcpConnectionProofs)

* `TransmissionsAreTheStream`: `SendIntegrity`. `DifferencesNeverWrap`: `SendWithinLimits`.
  `FinComesLast`: `ClientSeesFinAtEnd`.
* `WriteKeepsItsConnection`: `WriteHoldsConnection`. `ResetStaysFinal`: `ResetIsFinal`.

The inductive invariant is `SendInv == TypeInv /\ TxInv /\ LifeInv`. The ring is
overwritten by `write_tcp`, and what was overwritten must never be sent again, not even after a
timeout. `TxBounds` says why it is not: `write_tcp` keeps `tx_write <= tx_acked +
BUFFER_SIZE`, and a timeout takes `tx_sent` back to `tx_acked`. An acknowledgement that arrives
after that moves `tx_acked` and lets `write_tcp` go on, while `tx_sent` stays behind; hence
the weaker `tx_write <= tx_sent + 2 * BUFFER_SIZE`, which is what the ring of twice the buffer
limit is for. To know that `tx_acked` gets no further ahead needs the client: it
acknowledges what it has (`PeerBounds`), it has what was sent (`PeerHas`), and what was sent lies
less than `BUFFER_SIZE` ahead of `tx_sent` (`TxSent`). `TxFins` says that a FIN was sent only
after `tx_fin` was set and the client had all before it, so that one sent at an earlier
position, after a rollback, does no harm. `LifeInv` ties ids to the counter.

### The byte stream (TcpConnectionProofs)

* `StepRefines`: with its invariant, each step of `TcpConnection` is a step of
  `ByteStream` or leaves all that it speaks of unchanged.
  `ConnectionIsAByteStream`: `ImplementsByteStream`.

`StreamInv` joins the two invariants above and adds that `delivered` is a sequence and
that a connection has a client which began. There is one lemma per action, which
names the abstract step it is (`SynConnects`, `PeerReceives`, `SegmentEndsOrStutters`, ...).

### The server (WebProofs)

* `WebTypeCorrect`, `SavedUploadsAreComplete`, `ConnectionsAreFresh`, `AnswersEndWhole`, `UploadsFit`:
  `WebTypeOK`, `SavedIsComplete`, `OpensFreshConnection`, `ShutdownAfterAnswer`, `UploadFits`.

The invariants of the connection hold of the server, as each of its steps conjoins a step of
TcpConnection or leaves it alone (the lemma `ServerIsAConnection`; this says nothing about the order in
which `main` calls).

`WebInv` extends the connection's invariant. What the program decided before a
poll holds after it: until the answer begins, `read_count` is what was read of the
connection (`ReadingInv`); during the answer, what was written, what `write_tcp` still holds
and what is left of the file add up to the answer (`AnswerAdds`); `AnswerPlaces` says which
connection is served where; and nothing is written on a connection not yet handed
out (`FreshInv`), also when a SYN replaces it inside a poll. `Place` is where the
program is, or where the poll under way returns to.

### Server and client (WebProofs)

* `LinkRefinesServer`: `LinkSpec => WebSpec`. `CompleteIsTrue`: `CompleteMeansArrived`, for every
  window, file size and pattern of losses, also when the answer is an error message.

That a packet waiting at the server is one `WebServer` lets arrive must be kept while
the client moves on (`SlotInv`): what the client could have sent it could still have sent
later. `EarlyInv` excludes that a late SYN starts a second connection, `HoldsInv` that
the server loses the one it has, and `ClosingInv` ties the server's last steps to the
browser: it closes when it has the whole answer (`AnswerComplete`), and the server reaches `close` only
after that. The browser of the link neither resets nor closes early; with one
that does, "File transfer complete" can be untrue (section 3).

### The merge (SegmentMergeProofs)

* `MergeComputesSegmentSet`: `MergeAgrees`, for tables of any size in any order. `PassesShrink`:
  a pass that is followed by another has dropped a segment.

In the middle of a pass the table holds the segments kept at its front, the ones not looked
at behind `i`, and rubbish between them (`Waiting`). `MergeInv` says that what is no longer waiting
ends at or before `rx_write` and that everything up to it is covered (`Merged`); what
a pass kept is ahead of `rx_write` as long as it has not moved (`PassKeeps`), and when it has
moved a segment was dropped (`PassDrops`).

### The driver (EthDriverProofs)

* `EthInvariant`: `EthSpec => []EthInv`, from which follow `AccessesInBank`, `FramesAreInOrder`, `StaysInStep` and
  `PacketsSentInOrder`: `AccessInBank`, `FramesInOrder`, `InStep`, `SentInOrder`.

A call is a list of accesses of some length, with the chip acting between any two, so
the invariant has to say what holds at each of them. A label is a bank (or none, `OUT`)
and a stage of the call ("idle", "found", "located", ..., "sending"); `Moves(e, a, b)` is what an
access does to the label, and `Leads(todo, a, IDLE)` says that what is left of the call
leads from label `a` to the idle one. `EthInv` says that there is such a label, that the bank
stack and the selected bank are those of the label (`Selected`), and that at its stage (`StageInv`)
the counters agree (`Counts`), frames follow one another (`Chained`), the unread ones lie one
after the other within a ring's length from `ERXRDPT` (`Apart`), their cells are intact
(`Stored`), and the pointers are where the stage wants them (`Freed`, `Pointed`, `Sending`). That the
calls as written lead from idle to idle are lemmas on the plans. The hard step is `ChipReceive`,
which may happen at any access: the chip tests the room up to `ERXRDPT`, so that
the cells it writes are past every frame not yet given back, counted from `ERXRDPT` round the
ring. That the driver frees a frame before it counts it off gives the stage "freed" an invariant of
its own: the frame is gone and still counted. `init_ethernet` without a board is the other case
(`Stopped`); the theorems hold there too, as no frame is ever accepted.

### Root rights, pins and wire (SpiBusProofs)

* `RootIsReleased`: `RootReleased`. `PinsAreDirected`: `PinsDirected`. For every board and set of
  calls, however often the bus is opened and closed.

`BusInv` says in which steps of `init_gpio_spi` the registers are mapped (`MappedInv`), that
after `k` accesses of `init_spi` the first pins have their functions (`Turned`), and that between
calls and in them only quiet accesses are left, which touch no function (`PinsInv`). A call has five
accesses for every bit; that all of them are quiet rests on `FlattenAt`, by which
every element of a flattened sequence is one of its parts'. It is a
lemma by induction: a set of natural numbers has a least one (`LeastOf`, from the well-founded order
of the numbers), so a first place where the lemma failed would exist, and does not.

* `BusIsARegisterFile`: `ImplementsRegisterFile`, for every set of calls, transfers of any length, and every
  moment at which the chip may see the pins change.

First the shape of a call: 2 accesses that select the chip, 5 for each bit, 6 at the end (`AccessesLaid`).
`FlattenEven` finds an element of equally long pieces; so access `2 + 5 * n + m` is the `m`th of
bit `n`, and says whether that bit is sent or taken. `WireInv` then says what holds after `p` accesses:

* Where driver and chip are (`BitAt`, `EndAt`). Between two bits the rising edge may have been seen or not
  (`Between`); after the wait it has been (`Settled`), and the clock is low before the next one (`Low`). A bit
  sent stands on MOSI from before the clock rises until the next wait is over; a bit read was put out when
  the clock fell, and is read after it rose.
* What the chip has (`ChipAt`): the bits in its shift register are those of the bytes sent
  (`BitsIn`), and every whole byte has had its effect and no other (`Progress`).
* What the driver has read (`InputAt`) are the bits the chip gave out, in order.

Eight bits make the byte that was sent (`EightBits`), and the first byte tells the chip the operation
and the address (`CommandUnderstood`). So the rise that completes a byte is the step `RegisterFile` takes
for it (`ByteTakesEffect`), or a stutter for a command byte that is not a reset; every other change
of the pins is a stutter, and `Return` has the bytes the chip gave out (`BytesReturned`). Outside a call
CS is high (`Idle`). It need not be before the first `init_spi`: a chip selected by chance may then see one
edge of the clock, which `Starting` bounds; a whole byte would be a command nobody gave.

### Command line and request text (HttpTextProofs)

* `UsageIsAsDocumented`: `UsageHolds`, for command lines of any length.
* `HeaderIsExact`: `HeaderExact`. `NobodyWaits`: `NoMutualWait`. `LinkIsServed`: `LinkServesFile`.
  `UploadArrives`: `UploadRoundTrip`. For every request, name and file, cut into reads in every way.

The loop over `argv` sees a flat sequence, the property speaks of options. `Before` is how many
arguments lie before an option; `ArgsInv` says that the loop stands in front of an option and has
read those before it (`InFront`), or that it took a "-m" for a name and stands in front of its size
(`Astray`), from where no complete line leads anywhere but to the second name and an error.

`TextInv` adds what is known of a request. Its first part is that the buffer is a copy
of the bytes that have arrived, with zeros for the line ends of a header once `split_header` has run
(`Received`, `Copy`); everything `main` computes from the buffer is so a function of the text and
of how much of it has arrived. That `header_scan` finds the same place in any
longer piece is `ScanFinds` and `ScanNone`; that `strstr` and `header_value` find the field the text has
(`FieldsRead`, `PartFields`) needs its keyword to stand once at the start of a line of the
header and no zero to have been written in front of the value. `MarksFound` says where
`find_needle` finds the boundary, which does not try the last position: the markers
of a part have bytes behind them. Then the length to wait for is that of the whole request
(`UploadRead`), and `NobodyWaits` follows, as the client sends what it promised (`BodyWaited`).
What is assumed of a request is in `HttpRequests`, written from what a browser sends: `IsRequest` (the
header ends at the first empty line or there is none, the body is as long as announced), `IsGet`,
`IsUpload`. TLC checks that the instances fulfil it.

### Packets (IpStackProofs)

* `RequestsAnswered`: `EachAnswered`. `ChecksumsAccepted`: `SentVerifies`. `SegmentsHandedOn`: `SegmentsExact`.
* `ScansAgree`: `SynAgrees`. `StaysWithinOptions`: `WithinOptions`, an action property.

For every frame of `HostPackets`, with any IP and TCP options, padding, payload and list of options, and for
every number of frames.

The first three compare histories: the frames handled, those sent, and the data handed on, each
filtered. `ThoseAppend` says what a filter makes of one frame more, so that each property is kept by a
step as soon as one knows what the step does for one frame (`FrameHandled`): a request is answered with its
own answer, a segment's data goes on, a SYN starts a scan, the rest leaves no trace (`Handles`). That rests on
`FoundAt`: what the sender wrote at a place of its message is what the code finds there, behind
IP options it counts off and in front of padding it must not count.

The checksum. A receiver's sum is a recursive function of the bytes. Two such functions that
agree at 0 and in every step agree everywhere, by the least place where they would not
(`Climbs`, `ClimbsToTop`), which is the induction the library's theorems cannot be used for; so the code's
sum of words is the receiver's (`ChecksumAdds`), and bytes behind an even front count as they do alone
(`ReceiverSumConcat`), which makes the sum in three calls that of the whole. A packet
has fewer than `WORDS` bytes, so its sum is less than `WORDS`^2; then one fold leaves at most `2 * WORDS -
2`, a second one a word, and each takes away a multiple of `WORDS - 1` (`FoldTakes`, `FoldSmall`). The
complement makes the whole a multiple of `WORDS - 1` (`ComplementVerifies`). The checksum counts where it stands as much as
where a zero stood when it was computed (`HeaderVerifies`, `PingVerifies`, `SegmentSums`).

The scan. `ScanInv` says that, while a scan is under way, `buf` stands behind some whole options of the
list, none of which is the one wanted or the end (`Scanned`), and that the scans which are over found
what the client said. From there an option is cut off, is the one wanted, or is stepped over whole
(`ScanMeets`); the zeros behind the list read as its end. A scan that lost its place inside an option
would read a value as a kind: the invariant says that this never happens.

Each inductive invariant was checked by TLC on the instances of its run before it was proved.

### Model-checked only

Liveness under fairness, which TLAPS does not reach here: `MergeEnds`, `AnswerArrives`, `ServerFreed`,
`PollReturns`, `ScanEnds`. Every other property of the runs that pass has its theorem.

## 5. Not modelled

* `get_revision_id` reads the text of /proc/cpuinfo; Gpio takes a known or an unknown board.
* The dummy byte that the chip sends before the value of a MAC or MII register. The driver
  does not skip it (`gpio_spi.c:258` reads MISTAT like any other register), and its source does not
  mention it; what the chip does is in its datasheet only.
* The HTML of the answers, progress messages, and the formatting of numbers: no property is about
  them, and an answer is its length.
* `tests/eth_driver_test.c` is a manual program for one board without state of
  its own. The Makefile does not run in the program.
* Checksums of received packets, the destination address of a SYN and of a ping, and the segment
  size a client asked for: the code never looks at them, so neither do the models. The
  destination of a segment of a connection it does look at (`ip_stack.c:305`, `Matches` in IpStack).
* The file with the MAC address (`eth_driver.c:48-91`): it decides what `MAADR` holds.
* A file of which `ftell` fails: its length is then -1, and an answer without a file follows.

Preconditions of the models: an option has a size of at least 2; a ping has its eight
bytes; the header of a segment has at least its twenty; a header of a request is shorter
than the megabyte `header_scan` looks at and holds no zero; a file does not
contain its boundary; with bare LF line ends it does not end in CR (`web_server.c:354`
would take that CR away); positions of a stream do not pass 2^31.
