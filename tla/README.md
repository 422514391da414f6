# A TLA+ verification of linuxapp

The repository is a collection of embedded-Linux programs and drivers: `4412Drive/`
(Exynos 4412 drivers), `ok335xDriver/` (AM335x drivers) and `iMX287Learn/` (i.MX287
applications with the drivers they need). Most are demonstrations of one kernel facility;
two of them carry logic of their own: the car detector `iMX287Learn/cardet` (interrupt
handlers, an application state machine, a UDP report) and the MQTT client
`iMX287Learn/mqtt` (an SDK with a packet buffer, a stream parser, a resumable sender, and
the event loops that use it). These come first, with the thermometer
`ok335xDriver/ds18b20`, a bus protocol under preemption; the drivers' life cycles and the
small programs that share queues, pipes and connections follow. Paths below are relative to
`src/` and, without a leading directory, to `iMX287Learn/`.

## Inventory

| Component | State | Operations | Interaction | What is hard | What makes it correct |
|---|---|---|---|---|---|
| cardet driver, `cardet/driver` | `_timesign`: the time of the last edge of each barrier | two interrupt handlers, `read`, `write`, init and exit | interrupts; copies to and from the application | no lock between handlers and copies | no edge of an orderly car is lost or torn into a wrong one |
| cardet application, `cardet/main.c`, `detec`, `udp`, `timer` | copy of the table, state, count, deadlines | `fns_detec_loop`, `fns_cardet_doflows`, `app_udp_loop` | reads and clears the driver's table, broadcasts the count | the table read and the table cleared are different ones; time-outs | cars are counted once and in their direction; the detector is armed again; the report converges |
| MQTT packet buffer, `mqtt_buffer.c` | chunks, array of chunks, extents, list | `Init`, `Reset`/`Destroy`, `AllocExtent`, `Append`, `AppendExtent` | used by every packing function and by `Mqtt_SendPkt` | `malloc` failing half way, rounding | extents inside their chunks and apart, no leak, right byte count |
| MQTT receiving, `mqtt.c` | `bgn`, `pos`, `end` | `Mqtt_RecvPkt`, `Mqtt_ReadLength`, `Mqtt_Dispatch`, `Mqtt_Handle*` | called by the event loop; calls back; answers on the socket | packets in pieces, several in one read, buffer full, errors in the middle | in step with the stream; every packet dispatched once and answered |
| MQTT sending, `mqtt.c` | none: offset from the caller | `Mqtt_SendPkt` | reads the packet buffer | partial writes at any byte | what goes on is what was left |
| MQTT packing, `mqtt.c`, `mqtt.h` | writes into a packet buffer | `Mqtt_Pack*`, `Mqtt_Append*`, `Mqtt_DumpLength`, `Mqtt_AppendLength` | called by the clients | lengths that change their own encoding, failing appends | what is packed can be parsed; the length is the payload's |
| MQTT client, `mqtt/doc/sample.c` | socket, epoll registration, `sendedbytes`, buffer | `HandleStdin`, the commands, `HandleSocket`, `Handle*` callbacks | epoll, stdin, SDK | commands, packets, hang-ups and partial writes in any order | the wire carries what was handed over; commands are served |
| MQTT exchanges, `mqtt.c`, `mqtt_api.c`, `mqtt_app.c`, `sample.c` | none in the SDK: a packet is answered from what it carries; the application's socket and registration | `Mqtt_HandlePublish`, `_PubAck`, `_PubRec`, `_PubRel`, `_PubComp`, `drv_mqtt_socketHandle`, `fns_mqtt_doEpollEvents` | the server, epoll | exchanges of both directions interleave; connections end between two steps; one caller goes on after an error | what the three qualities of service promise; every exchange ends |
| cqada serial link, `cqada` | receive buffer, list, time-out | `read_tick`, `checkPacket`, `exeMbus`, thread | UART thread | nothing: no program calls what would open the time window or fill the list | – |
| drivers: cardet, ds18b20, userio, LEDs, registration | numbers, devices, classes, GPIOs, interrupts, mappings | init and exit, probe and remove, `open`, `release`, `write` | kernel | the kernel calls as soon as it knows a function, also while init is at work and after it failed | everything acquired is released; nothing is called that is not there |
| message queues, `msgqueue` | queues that outlive their processes | `queue_create`, `msg_snd`, `msg_rcv`, a receiving thread | the kernel's queues | who creates a queue, who is killed with a message in its hands | no message lost or shown twice, in order |
| named pipe and shared memory, `fifo`, `sharememory` | a pipe, a memory, both under fixed names | create, open, read, write; a child process | kernel; parent and child | a second instance, a child that outlives its parent | instances do not mix; nobody dies without a cause |
| TCP server, `net/cs0` | backlog, children | accept, fork, echo | sockets, processes | children that neither end nor are waited for | a client that asks is answered |
| process, thread, fileopt, test000 | none | one system call each | – | – | – |
| PID, `pid` | floating-point state | one loop | – | – | – |
| cJSON | third-party | – | – | – | – |

The list of what is hard to test, line by line, is in `PROJECT.json` under "hazards".
Some of these things go wrong in the code as it is, every time: the stale rest of an old
connection (sample.c:863), the packet that `Mqtt_AppendLength` extends (mqtt.c:156), a
payload that was not appended (mqtt.c:1248), the characters after the first (mqtt.c:292),
the missing sensor (ds18b20.c:60), the length of an id that is refused (mqtt.c:914). No
property can hold of them; the model does what the code does, a fault or a cause names the
case, and the properties speak of the rest.

## Modules

### CarDet — `cardet/main.c`, `driver/ISR.c`, `driver/dev.c`, `detec/detec.c`, `udp/udpser.c`

State: the driver's stamps `drv`, the application's copy `usr`, the state machine `state`,
its count `flows` and deadline `timeout`, the broadcast's `udpTick` and `reported`, the
place `pc` of the one application thread in `app_main_loop`; and, to state what is right,
the traffic: the car between the barriers and the true `balance`, the number of edges and
of counts.

Actions: `Isr` is an interrupt handler. `read()` and `write()` copy one stamp a step
(`Read`, `Write`), and an interrupt of the barrier being copied may fall between the two
words of its stamp (`ReadTorn`, `WriteTorn`: seconds of one time, microseconds of the
other). `DoFlows` is one run of `fns_cardet_doflows`, with one disjunct per state.
`UdpLoop` is the paced broadcast, `UdpFails` its `exit(1)`. `Tick` is the clock.

The environment has modes. In "orderly" and "close" cars break both barriers within
`CrossMax`; in "orderly" a car comes only when the detector is armed. In "stray" and
"free" edges come in any order. In all but "free" the application runs the state machine at
least every `MaxLag`. A struct timeval is one number of clock units; the exits on a
failing `read()` or `write()` of the device are left out.

### MqttBuffer — `mqtt/sdk/mqtt_buffer.c`

State: the chunks by size, the slots of their array, `available_bytes`, `first_available`
as an offset, the extents carved, the list, `buffered_bytes`, and the number of blocks on
the heap. Actions: `AllocExtent`, `AllocFails` (either of its two `malloc`s), `Append_`
(with a copy or a reference), `AppendExtent`, `Reset`. Sizes are unbounded numbers: a
request near 2^32 bytes, where the rounding of `uint32_t` wraps, is not modelled.

### MqttRecv — `Mqtt_RecvPkt`, `Mqtt_Dispatch`, the handlers; `HandleSocket`

State: the bytes the server has sent, how many `read()` has returned, the receive buffer
up to `pos`, `cursor`, the epoll registration, packets dispatched and answers sent. `base`
says which byte of the stream the buffer begins with.

Actions: `Send` and `Close` of the server; `Poll`; `RecvData(n)` for every n, so that the
stream is cut at every byte; `RecvEof` (end of stream or full buffer), `RecvAgain`,
`RecvError`; `Dispatch`, `DispatchFails`, `Illegal` for the packet at `cursor`; `Finish`
with the `memmove`; `Disconnect`, `Connect`, `ConnectFails` of the sample. What a handler
accepts and answers are the operators `Legal` and `Answer`; that `Mqtt_HandlePublish`
writes a NUL into the packet is `Terminated`. The two callers are "sample", which leaves
its loop on an error, and "app" (`mqtt_app.c`), which goes on.

The code has limits that the properties must name. `faults` records when one is met:
"leftover" (the `memmove` moved fewer bytes than were left), "stale" (a connection begins
with bytes of the last one in the buffer), "error" (`Mqtt_RecvPkt` has returned one).
`char` is unsigned, as on the ARM target. The server sends whole packets of MQTT
(`FramingAssumption`); `Mqtt_RecvPkt` sees them cut at any byte. Topics are of single-byte characters:
`Mqtt_CheckUtf8` is the subject of MqttUtf8. That the `memmove` may read beyond `pos` has no effect on
bytes that are looked at later and is left out.

### MqttClient — `mqtt/doc/sample.c`, `Mqtt_SendPkt`

State: the command on stdin, packets from the server, the socket, its registration, the
events being handled, the extents in `mqttbuf`, `sendedbytes`, and the bytes on the wire
and due. A byte is known by its packet and place.

Actions: `Poll` takes one or two events in either order. `StdinBusy` refuses a command
while a packet is half sent; `StdinSent`, `StdinPart`, `StdinUnpacked`, `StdinUnsent` and
`StdinFails` are the outcomes of `HandleStdin`. `HandleSocket`, `RecvPkt` (answered by the
SDK, a server's command whose reply is packed, or neither), `RecvAgain`, `RecvEof`,
`RecvError`, then `OutIdle`, `OutPart`, `OutDone`, `OutError` are `HandleSocket`. `Gathered`
is the `iovec` of `Mqtt_SendPkt` with its offset arithmetic on a 32-bit target.

`faults` names: "split" (a part ended inside an extent, after which `Mqtt_SendPkt` skips
or repeats bytes), "mixed" (an answer went out inside a half-sent packet), "discarded"
(publish threw a waiting reply away), "early" (a reply goes out before CONNECT),
"cut off" (the connection ended with a packet half sent), "unwatched" (EPOLLOUT was
dropped from the registration). Each is a state the code reaches; the properties say what
holds until then; `mqtt_client_blocked` below shows what "split", "cut off" and "unwatched"
lead to. Resets by
the peer are errors of `Mqtt_RecvPkt`, which end the client.

### MqttPack — `Mqtt_Pack*`, `Mqtt_Append*`, `Mqtt_DumpLength`, `Mqtt_AppendLength`

State: the list of extents, `buffered_bytes`, the number of packets packed, what the last
call returned. An extent is its length, the bytes it has room for, the bytes written into
it and whose memory they are; of the contents the type, the flags and the encoded length
are kept. Texts are lengths with a class of characters, so that the verdict of
`Mqtt_CheckUtf8` is a property of the text; MqttUtf8 says of which.

A packing function is a sequence of checks and allocations, left at the first that fails
(`Test`, `Alloc`, `AllocUnchecked`, `Stops`, `Passes`), and then the extents it links
(`Packed`). The outcome of an allocation is open; where the code does not test it
(the payload of CONNECT, PUBREL, cJSON's results), or looks at the first extent of an
empty buffer (`Mqtt_SetPktDup`), the call may end in "crash". `AppendPayload` reads the
encoded length back, adds to it and writes it anew.

Some functions never do what they are for, and the model says so:
`Mqtt_AppendSubscribeTopic` and `Mqtt_AppendUnsubscribeTopic` ask for flags that the
packing functions do not write; the JSON data points (`Mqtt_AppendDP*`,
`Mqtt_PackDataPointFinish`) ask for a tag that only commented-out code writes (a payload of
the caller that happens to have it in its bytes is left out). All of them
refuse, after the checks of their texts that come first; these find no illegal character,
as `Mqtt_HasIllegalCharacter` is a stub that returns 0. `MQTTERR_ILLEGAL_CHARACTER` is
never returned: the only other test for it is of an unsigned number below zero (`IdLen`).

`faults` names: "truncated" (a topic of 64 KB or more is cut to 16 bits when written, not
when counted), "unappended" (`Mqtt_PackPublishPkt` does not look at the result of its last
append), "rewritten" (`Mqtt_AppendLength` changed the length of the first extent but not
`buffered_bytes`), "misdirected" (`Mqtt_AppendLength` took the first packet of the buffer
for the last). Left out: the retain and QoS bits, the cJSON object that
`Mqtt_PackDataPointByBinary` does not free, sizes beyond 2^28 where `uint32_t` wraps, and a
will of NULL with a length. The topic extent of `Mqtt_PackCmdRetPkt`, one byte too short,
is never linked and so not in the list.

### Ds18b20 — `ok335xDriver/ds18b20/ds18b20.c`, `main.c`

State: for every process that runs the program its place in `main()`, in `read_ds18b20`
and in the byte, and the two bytes; the bus; the sensor (external): what it expects, the
bits it has taken of a command and given of its scratchpad, the temperature there and who
has asked for a conversion.

A step is a reset (`ResetStep`, `Open`) or one time slot (`WriteStep`, `ReadStep`); the
calls of `read_ds18b20` in their order are `Calls`. Nothing in the driver keeps two
processes apart: on the one core a process may be preempted in the middle of its read
(`Runs`), and its later slots find the sensor where the other one left it. An interrupt
may also stretch a slot (`LateStep`), and the line may fail (`LineFails`, `LineBack`).
`trouble` records what a read has met; `Budgets` bounds how often it happens. A reset
tells a line that is low, not a sensor that is missing, as in the code. `Show` is the
decoding in `main()`: two bytes joined, five sign bits, two's complement.

What is assumed of the sensor: it takes and gives the lowest bit first, 0xCC skips the
ROM command, a conversion takes longer than the rest of the read that started it and less
than the second that `main()` sleeps, and the scratchpad does not change while a read fetches it.

### MqttSession and MqttDelivery — `Mqtt_Handle*`, `mqtt_api.c`, `mqtt_app.c`, `sample.c`

`MqttDelivery` is the abstract specification: how often a message was handed over and
whether its sender knows, for the three levels of `mqtt.h:56-60`. `MqttSession` is the
client with a server (external, MQTT 3.1.1): packets on the two wires, the server's state
of each exchange, the packets in the receive buffer and `cursor`, the calls of the
handlers. `Answer` is what the handlers send; `Damaged` is what `Mqtt_HandlePublish` does to
a packet that is still in the buffer, `Refused` what it then makes of it. `Hangup` and
`ServerEof` end connections between any two steps, `DispatchFails` is an answer that goes
out in part or not at all. `Delivers` is `MqttDelivery` with messages of both directions
substituted for its messages (`Delivery`).

Packets are the unit: cutting the stream is MqttRecv's, sending in parts MqttClient's
subject. The caller is again "sample" or "app". `mqtt_app.c:25-28` sets the handler of CONNACK
and leaves a place for the others; here they are set. `faults` names "retried" (the app goes
on after an answer that failed, and dispatches packets again) and "renumbered" (it
dispatches a packet again whose id has lost its high byte, and answers with that id).
`MqttDelivery` says what each costs: the first a message handed over twice, the second
another message acknowledged that was never handed over.

### DriverLife — `dev.c`, `ds18b20.c`, `userio.c`, `ledsDriver.c`, `devNodeReg.c`, `driverReg.c`

State: the module's life ("out", "coming", "live", "oops"), what this load was given and
refused, what earlier loads left behind, the open files. `Acquires` is the order in which
an init function asks, `Releases` what the exit function gives back, `OnRefused` what init
does about a refusal. `Grant` and `Refuse` are one call each; `OpenFile`, `WriteUnmapped`,
`CallGone` are the programs and interrupts that come in between. The two pins and two
interrupts of cardet are one resource each. That a name has one holder and an open file
keeps a module loaded is the kernel's part.

### NetServer — `net/cs0/server.c`, `client.c`

State: the backlog, the accepted connection, a child per client, the lines and answers on
their way, how the server's end sees the client. A child whose client has closed returns
into `main`'s loop and calls `accept` on a closed socket for ever ("spin"); one that writes
to a client that is gone dies and is never waited for ("zombie"). Creating the socket,
binding and listening either succeed or end the program before the model begins.

### MsgQueue — `msgqueue`

State: the queues, which processes have which, where their two threads are, and where
every message is. `QueueIsExist` and `QueueCreate` are the two calls of `queue_create`,
between which another process may run. `mainsrc0` does not set its key: `KeysOf` gives it
any, a negative one included. `QueueKill` ends a process at any place.

### FifoPair — `fifo/mainsrc0`, `mainsrc1`, `fifosrc`, `wfifo`, `rfifo`

State: the memory's size, whose pipe the name leads to, and for each instance its main
program, its writing thread, its child and what was written and shown. `ShmOpen` (with
O_TRUNC) and `ShmSize`, `FifoAccess`, `FifoRm` and `MkFifo` are separate steps. An open
waits for the other end (`WriteOpened`, `ReadOpened`). Ends by a signal are named in
`died`: SIGBUS for a store to a truncated memory, SIGPIPE for a write that nobody reads.
The programs run as root, since `mkfifo` is given O_CREAT for a mode and nobody else may
open the pipe; fork and execle succeed.

### MqttUtf8 — `Mqtt_CheckUtf8`, `Mqtt_IsLegalUtf8`

State: a text, the place in it, the verdict. `NextChar` goes past a character, `NotUtf8`
and `Empty` are the other ends of the loop. `IsLegalUtf8` is given the beginning of the text
each time (`mqtt.c:292`), as in the code, not the place that has been reached. `Encodes` is
RFC 3629 by code points, against which the comparisons of bytes are checked.

MCPrograms puts the last five side by side for one run: `program` selects one of them, the
others rest. They share nothing.

## Runs

| Run | What it shows | Bounds |
|---|---|---|
| `cardet` | `CountExact`: orderly cars are counted exactly. `NoPhantomCount`: in every mode no car is counted without edges of its own. `Rearms`, `ReportConverges`. | Second 3, CrossMax 1, MaxLag 1: the tightest values with CrossMax + 2 MaxLag <= Second. Two edges a barrier: a car and its successor. MaxTime 13 covers wait, expiry and two broadcasts after the last edge; mode "free" promises nothing later and stops at 7. |
| `cardet_close` (violated) | `EveryCarCounted`: without the distance between cars that "orderly" has, END erases the stamp of the next car. | as above, LastEdge 5 |
| `mqtt_buffer` | the invariants of the arena | header 3, alignment 2, chunks of 16, requests of 1, 4, 15: several to a chunk, one to a chunk, more than a chunk; odd and even; 4 chunks, so that the array grows 0-1-3-7; 4 extents |
| `mqtt_recv` | `BufferInPlace`, `InStep`, `DropsOnlyOversized`, `Dispatched` | a buffer of 8 and six packets: two-byte length, PUBLISH that is answered, PUBREL, one that does not fit, a length of four bytes, a type the client refuses; two packets on each of two connections. Two packets are enough for every relation of the parser: one dispatched, one incomplete behind it. |
| `mqtt_recv_leftover` (violated) | `LeftoverKept`: an incomplete packet longer than those before it is damaged | two kinds of packets, three of them |
| `mqtt_client` | `WireExact`, `OnlyRepliesWait`, `RepliesSurvive`, `StdinServed` | three commands, one packet from the server; packets of one extent and of two, so that a part may end at the end of an extent, inside the first and inside the last |
| `mqtt_client_blocked` (violated) | `StdinUnblocked`: "please wait a moment to retry" need not end | two commands |
| `mqtt_pack` | `LengthsRight`, `FullyWritten`, `BufferedRight`, `RefusedUntouched` | radix 128 and 16-bit strings as in the code; payloads of 0, 122, 2097146 and 268435451 bytes, which the headers bring to the limits of the one-, three- and four-byte encodings; two packets and four extents |
| `mqtt_pack_reference` (violated) | `ReferencesLive`: a data point packed with own = 0 refers to memory that is already given up | one packet, own = 0 |
| `ds18b20` | `ShownExact`: a read without trouble prints what the sensor held, whatever earlier reads left behind. `AskedIsMeasured`, `ExitsForCause`. | two processes; the coldest temperature and the one of power-on; two preemptions (one read inside another and back), or one and a late slot, or a line that fails and a late slot. Everything that can be wrong with the sensor is wiped out by the next reset, so that more troubles give more states but no new case. |
| `mqtt_session` | `Delivers`: the exchanges implement `MqttDelivery`. `Completes`: each exchange that is begun ends, if its connection lasts and the client meets no error. | one QoS 0, one QoS 2 and two QoS 1 messages whose ids differ in the high byte only, up to three of them at a time for the app, one of each level above 0 for the sample; a QoS 2 and a QoS 1 publish of the client; two connections. An exchange concerns one id, so that two of a kind and one of each other kind give every interference. |
| `programs` | `CrashesForCause`, `LoadsAgain` (DriverLife), `Served` (NetServer), `QueueKeeps` (MsgQueue), `FifoInOrder`, `FifoEndsForCause` (FifoPair), `TextJudged` (MqttUtf8), all types | three loads and two refusals: a failed load, one on what it left, one more; three clients, a backlog of 1 and room for two children, so that both limits are met; four processes of the three programs on three keys, two messages in a queue, three sent; two instances that write two messages each; texts of up to four bytes, of the 17 bytes next to which a comparison changes |

Deadlock is not checked where the program may stop (an exit, all bounds reached).

Each passing property has a mutant: a changed operator, defined before the one it stands
for and marked "Mutant", under which TLC finds it violated.

### Fairness

- CarDet: `main.c` loops without blocking (weak fairness of `AppStep`), the clock runs, and
  a car between the barriers drives on. Cars, strays and failures need not happen.
- MqttRecv: the client is one thread; it runs when epoll reports the socket (weak fairness
  of `Poll` and the steps of `Mqtt_RecvPkt` together). The server need not do anything.
- MqttClient: the thread runs (weak fairness of its steps together); a socket watched for
  EPOLLOUT again and again is reported writable again and again (strong fairness of these
  reports), since a peer that keeps the connection reads.
- MqttSession: the client's thread runs (weak fairness of `Poll` and `RecvPkt`), and a server
  that keeps the connection reads (weak fairness of `ServerReads`). Nobody must send, hang
  up or fail.
- NetServer: the parent, each child and each client that waits are processes of their own
  (weak fairness of each). Clients need not connect, ask or quit.

### Disagreements found

1. `cardet/detec/detec.c:83` clears the table over an edge stamped since it was read: a car
   that follows closely is not counted. `cardet/main.c:1-3` only assumes that cars pass
   normally.
2. `mqtt/sdk/mqtt.c:824` moves as many bytes as were consumed instead of as many as are
   left.
3. `mqtt/doc/sample.c:815` asks the user to wait a moment; after a lost connection, a part
   that ended in the last extent, or an event without EPOLLOUT the wait does not end.

4. `mqtt/src/mqtt/sdk/mqtt.c:2116` frees the payload that a packet with own = 0 refers to;
   `mqtt.h:374` asks only that the caller's data stay valid.

Seen while modelling, without a run: `Mqtt_AppendSubscribeTopic` cannot succeed behind
`Mqtt_PackSubscribePkt` (`mqtt.c:1421` asks for flags that `mqtt.c:1378` does not write),
which `mqtt.h:286` describes as its use. `Mqtt_CheckUtf8`
examines the beginning of a text for each of its characters (`mqtt.c:292`): the error
`MQTTERR_NOT_UTF8` of `mqtt.h` is returned for legal topics such as "a" followed by a
letter of two bytes (`LongerRefused`), and an illegal later character may pass. A caller that goes on after an error, as
`mqtt_app.c` does, may acknowledge a message it never received (MqttSession, "renumbered").
`leds` does not free its GPIO and cannot be used when it is loaded a second time
(`NotAgain`); `userio` uses its registers before they are mapped and unmaps another pointer;
`ds18b20` and `userio` crash when unloaded without their class; a failed init of `cardet`
leaves its interrupts (`CrashesForCause`). The server's children never end in order
(`server.c:83`). A second instance of `fifo/mainsrc0` kills the first (`main.c:27`).

## Theorems

TLC checks the instances above; the theorems hold for all constants that satisfy the
modules' assumptions. No fairness is used. Each safety theorem is proved from an inductive
invariant, with one lemma per action and one that says what a step leaves alone.

SequenceFacts holds what the folds of the community modules compute on sequences of every
length: that `FlattenSeq` and the sum of a list's lengths distribute over concatenation.
The induction principle is stated for a set of numbers (`InductionOn`) or of sequences
(`InductionOnSeq`) instead of a predicate, so that an argument over data is made by naming
the set of the sequences for which it holds.

CarDetProofs:
- `TypeCorrect`: `Spec => []TypeOK`, by induction over the actions.
- `NoPhantom`: `Spec => []NoPhantomCount`. The inductive invariant `PhantomInv` says that
  every stamp the machine can still count (in the driver and not about to be cleared, or
  copied) belongs to an edge that no count has used, and that the copy is empty while it is
  written back. `NoPhantomCount` alone is not inductive: a count in PASSED needs both
  barriers to have an unused edge.
- `ExactCount`: `Spec => []CountExact`. In mode "orderly" the system is in one of the
  phases Idle, Crossing, Crossed, Counted, Clearing, and `Clock` bounds the lag of the scan;
  `OrderlyInv` is their conjunction. It uses CrossMax + 2 MaxLag <= Second: the deadline set
  when the first edge is noticed leaves time for the second edge and the scan that sees it.

MqttRecvProofs:
- `TypeCorrect`: `Spec => []TypeOK`. Its content is that `pos` and `cursor` stay inside the
  buffer whatever lengths packets claim, and that the NUL and the moved topic of
  `Mqtt_HandlePublish` stay inside their packet. It rests on lemmas about the operators:
  `Mqtt_ReadLength` reports no more bytes than there are and looks at no others, a complete
  packet ends before `pos` (`FrameRange`, `FrameHead`), what `Legal` accepts has the bytes
  that `Answer` and `Terminated` read. `CursorReset` (cursor is at the front outside the
  parsing loop) makes it inductive: the full buffer is emptied between two calls.
- `InPlaceAlways`: `Spec => []BufferInPlace`, from the same invariant.
- `ParserInStep`: `Spec => []InStep`, and `DropsForCause`: `Spec => []DropsOnlyOversized`.
  `InStep` speaks of the moments when nothing more can be parsed. `RecvInv` says at every
  moment that the bytes sent are the packets sent, in a row (`Stream`), and, as long as
  nothing was met that the code does not cope with, that what lies before `cursor` is the
  packets dispatched, the ones sent first, each answered with its id (`InOrder`), and that
  outside the parsing loop there is no complete packet left (`Drained`). The argument is that
  `Mqtt_RecvPkt`'s loop makes the same of a packet whatever follows it (`LengthStays`,
  `FrameStays`). It uses `FramingAssumption`: what the server sends are whole MQTT packets, as
  the protocol frames them (`Framed`, stated without the SDK's parser): `FramedParses` proves
  that the SDK reads each as one packet, or refuses it because its length takes four bytes.
  Without it there would be no packets to be in step with.

MqttClientProofs:
- `ClientTypes`: `Spec => []TypeOK`; `WireStaysExact`: `Spec => []WireExact`;
  `RepliesAloneWait`: `Spec => []OnlyRepliesWait`; for packets of any number of extents of
  any length and any number of commands and packets. `ClientInv` strengthens the last two to
  every place of the client (`RepliesOnly`), adds that a packet half sent goes on where an
  extent begins unless it has been split (`AtBoundary`), and that an event is being handled
  as long as the socket is (`Handling`). The lemma that carries `WireExact` is
  `GatheredIsRest`: from the beginning of an extent on, the `iovec` of `Mqtt_SendPkt` holds
  exactly the bytes that are left.
- `RepliesLeaveSent`: `Spec => RepliesSurvive`. It does not follow from `WireExact`, which
  says nothing once an answer was written into a packet ("mixed"). `SentOnWire` does: of
  what is being sent, the first `sendedbytes` bytes are on the wire, whatever else is.

MqttSessionProofs:
- `SessionDelivers`: `Spec => Delivers`, the refinement. Every step of `MqttSession` maps to
  a step of `MqttDelivery` or to a stutter. What makes it so is `Sound`.
- `SessionSound`: `Spec => []Sound`, for every set of messages, numbering and number of
  connections: a publish is never twice on the way; one in the buffer or on a wire was not
  heard before, unless the caller has gone on after an error; no publish of the client is
  acknowledged that the server has not seen, and none of the server's that the client has not
  heard, unless an answer carried another number. The server's side is part of the model, so
  that this is about both ends.

Ds18b20Proofs:
- `DecodeExact` and `DecodeSound`: for all 12-bit temperatures and all 16-bit words, what
  `main()` prints is the value of the two's complement, or an error when the sign bits do not
  agree. The run has two temperatures; these cover the rest.
- `BusTypes`, `QuietReadsAreExact`, `SleepWaitsForConversion`, `ExitsOnlyForCause`:
  `Spec => []P` for `TypeOK`, `ShownExact`, `AskedIsMeasured`, `ExitsForCause`, for any
  number of processes, temperatures and troubles. `BusInv` gives the sensor's state as a
  function of the place that an untroubled read has reached (`Conversation`): after k slots
  of a command the sensor has taken its k lowest bits, after k slots of the scratchpad the
  bits read are the k lowest of the word. Everything before the read is wiped out by its
  first reset, so that nothing need be known of it.

ProgramsProofs (each component by its own specification, then by `ProgramsSpec` of MCPrograms):
- `DriversCrashForCause`, `DriversLoadAgain`: for any number of loads, refusals and opens.
  `DriverInv` says that a load holds at most what it has asked for up to here, what each
  driver leaves behind, and that while nothing is refused a load finds what the first one
  found, but for what that one keeps (`DriverEnough`).
- `QueueKeepsAll`: for any number of processes, keys and messages. `QueueInv` says where
  every message that was sent is (`QueueCovered`), that it is in one place (`QueueApart`), and
  that what has left a queue is older than what is in it (`QueueOrder`).
- `FifoKeepsOrder`, `FifoAlwaysForCause`: for any number of instances and messages. `FifoInv`
  says that while no two instances have overlapped an instance finds its own pipe under the
  name (`FifoNames`), and that what its child has shown, followed by what is in the pipe, is
  what it has written (`FifoData`).
- `ProgramTypes`: the types of all five components.
- `NetServerSound`: the safety that is behind `Served`, for any number of clients. `NetInv`
  says of every client (`ClientWell`) where its connection is, that it is in one place only,
  and which end has the question or the answer; and of the process table (`NetTable`) that a
  client is turned away only once it is full, which is for ever. That a client is answered in
  the end is left to TLC.
- `CharacterJudged`: for every first byte, `IsLegalUtf8` with the length that it announces
  is `Encodes`. One case per length; the arithmetic is in `TwoRange`, `ThreeRange` and
  `FourRange`.
- `Judged`: `Utf8Spec => []TextJudged`, for texts of any length. `TextInv` says that once the
  loop is past the first character, that character was legal and fits, and that what is
  refused at once was not.
- `LongerRefused`: a text that begins with a one-byte character and goes on with another
  character is accepted only if no byte of it begins a longer character. `OneByte` is
  inductive: for a longer one `IsLegalUtf8` would need the second byte to be a trailing one.

ProgramsProofs, last part: the memory of the packet buffer, by MqttBuffer's own `Spec`:
- `TypeCorrect`, `Slots`, `Inside`, `Disjoint`: `BufInv` adds to the properties that the
  free part of the current chunk begins behind its extents (`BelowUsed`) and ends where the
  chunk ends (`RestAvailable`).
- `LeakFree`: `Spec => []NoLeak`, inductive by itself with the types.
- `BufferedCounts`: `Spec => []BufferedIsTotal`, by what a sum is after an append.

MqttPackProofs:
- `ReadLengthIs`: `Mqtt_ReadLength` reads back what `Mqtt_DumpLength` writes, for every length
  below 2^28. What `Mqtt_DumpLength` leaves when it gives up is not readable
  (`UnreadableWhenTooLarge`).
- `PackTypes`, `LengthsAreRight`, `AllIsWritten`, `BufferedIsRight`: `Spec => []P` for
  `TypeOK`, `LengthsRight`, `FullyWritten`, `BufferedRight`; `RefusedCallsUntouched`:
  `Spec => RefusedUntouched`; for texts, payloads and lists of topics of every length, any
  number of packets and extents and every outcome of the allocations. `PackInv` adds what
  `Mqtt_AppendLength` takes for granted: packets are numbered as they were packed
  (`PktsKnown`), the first extent is that of the first packet (`FirstPkt`), and as long as
  its length can be read its extent is as long as its bytes say (`HeadShape`). Without the
  last, rewriting the length of a header could change the extent by another amount than its
  bytes. Every packing function comes down to `Linking`, what is true of a buffer after
  extents that are `Framed` have been linked to it; for SUBSCRIBE and UNSUBSCRIBE this is a
  sum over the list of topics (`TopicsFit`), for `Mqtt_AppendLength` it is `Lengthens`.

Only model-checked: all liveness properties (`Rearms`, `ReportConverges`, `Dispatched`,
`StdinServed`, `Completes`, `Served`), since fairness is beyond the prover. Every invariant
and every other action property of the passing runs is a theorem.

## Plan

What is left: an abstraction of MqttRecv to packets that MqttSession could be shown to use.

## Not modelled

cJSON (third-party); the PID examples (floating point); the process, thread, fileopt and
test examples (one system call each, no state); the samples under `fifo/doc` and
`sharememory/doc` (the same calls in a line); `sharememory` (its child is there as a binary
only, and its parent is `fifo/mainsrc0` without the pipe); the serial link `cqada`, whose
program starts a thread that never reads: `comm_sub_read_tick` compares the time with a
time-out that only `comm_sub_start_rcv` and `comm_sub_exeMbus` set, and nothing calls them.
