# adbkit in TLA+

Models, model checks and proofs for adbkit, the TypeScript client of the
Android Debug Bridge in `src/` of this repository. The first part is the
inventory of the system, the second the modules and what is checked and proved
about them, the third what is left out and what comes next. `PROJECT.json`
holds the same in tables: components, runs, the source lines behind every
definition, the hazards, and the theorems.

## 1. The system

adbkit runs in one Node process. Nothing runs in parallel; what interleaves are
callbacks: stream events (`readable`, `end`, `error`), promise continuations
(Bluebird defers every handler to a later tick) and timers. All hard behaviour
comes from the order in which callbacks meet shared objects.

A *local ADB server* on TCP port 5037 is behind everything. It answers a
request with `OKAY` or `FAIL` and can turn the connection into a byte stream to
a service on a device (a *transport*).

### TCP/USB bridge (`src/adb/tcpusb`)

The bridge makes a device of the local ADB server look like a device on TCP, to
remote adb hosts. It is the only part of adbkit that is a protocol endpoint with
state of its own on both sides, and so the core of this project.

- `Server`: accepts connections, one `Socket` each; `end()` ends them all.
- `Socket`: one remote. State: `ended`, `authorized`, the challenge `token`, the
  first `signature`, `version`, `maxPayload`, a `RollingCounter` of local ids and
  a `ServiceMap` from local id to `Service`. Operations: a handler per packet
  type (CNXN, AUTH, SYNC, OPEN, and OKAY, WRTE, CLSE, which are forwarded),
  `write`, `end`. A handler is a promise; its rejection ends the connection.
- `PacketReader`: cuts the byte stream of the remote into packets. State:
  `buffer`, `inBody`, `packet`.
- `Service`: one stream. State: `opened`, `ended`, `needAck`, `transport`.
  It asks the local ADB server for a transport, copies the device's bytes into
  WRTE packets, one unacknowledged at a time, and the remote's WRTE data into
  the transport.
- `ServiceMap` and `RollingCounter`: the streams in use, their ids and count.
- `Auth`: parses the remote's RSA public key.

Interactions: `PacketReader` emits `packet`, `error`, `end` to `Socket`; `Socket`
calls `Service.handle`; `Service` calls `Socket.write` and emits `end`, `error`,
which settle the promise of `Socket._handleOpenPacket` whose `.finally` removes
the service from the map; `Socket.end` ends all services through the map.

Hard: a service that ends while its transport is still being opened; `readable`
and OKAY both pushing; the device hanging up with bytes unacknowledged; four
callers of `Service.end`; `Socket.end` between any two steps; local ids that wrap
onto an id in use; packets at any time, in or out of protocol; a second packet
during the chain of an earlier one in the handshake; packets split anywhere.

Correct when: device bytes reach the remote in order, complete, one write at a
time; an acknowledged write was handed on; a stream is closed once and silent
afterwards; no transport is left open behind a closed stream; the map agrees
with the services; the services end before the FIN; every open is answered; only
a remote that signed a token with an accepted key is authorized; a conforming
remote gets an answer; packets are handled in order and none after a damaged one.

### The client side (`src/adb`)

| part | state and operations | hard | correct when |
|---|---|---|---|
| `Connection`, `Client` | a socket, a parser; connect, one retry after starting the ADB server, re-emission of unheard errors | the retry runs inside the chain of the first attempt and installs its listeners again | one outcome per connect; an error nobody listens to is not swallowed |
| `Parser` | a stream, `ended`; `readBytes`, `readByteFlow`, `readAll`, `readUntil`, `end` | every read races `readable`, `end`, `error`, `timeout` and cancel; a stream destroyed before `end` | every read settles, the bytes are consumed once, listeners are removed |
| `Sync`, `PullTransfer`, `PushTransfer` | a connection used for one operation after the other; chunked reads and writes, `cancel` | errors after the first chunk, cancel between chunks, progress from write callbacks, the reply racing the source | a transfer ends or errs exactly once, with all the bytes |
| `Tracker` | the device list; reads lists for ever, emits change sets, `end` | end during a read; the same device in two lists | replaying the change sets gives the last list |
| `JdwpTracker` | the pid map; reads a list, emits a change set, `end` | lists that come after the first, `end` | the map is the last list told |
| `DeviceClient` | one method per command; two of them retry without a user | the retry | it ends |
| `Command` and its subclasses | request, `OKAY`/`FAIL`, parse | unexpected replies, the stream ending first | the promise settles, the connection is closed or handed over |
| `ProcStat` | the last lines, the lines to ignore, a timer | CPUs that go offline or back in time; a pull that is slower than the timer | a load is the difference of two successive pulls, and a percentage |
| `LineTransform`, `RgbTransform` | the bytes kept between chunks | chunk boundaries | the output does not depend on the chunks |
| `Protocol` | none | lengths above four digits | decode inverts encode |
| `KeyCode`, `dump`, `util`, CLI | none worth modelling | | |

## 2. Modules

Every module that models code has a header saying how. Common to all:

- An action is what one callback does, or one round of a loop inside it where
  something must be observed in between (`PacketReader`). Between two actions
  any other due callback may run.
- Whatever a promise defers is an action of its own. A record field says what
  a chain waits for (`Service.chain`, `chain[p].step`).
- Operators called `Faulty...` are one-line mistakes the definition after them
  could have contained. No action uses them; they are there to see that each
  property notices.
- Bounds are CONSTANTS named `Max...` and appear only in guards.

### `TcpUsbBridge`, `TcpUsbBridgeProps`, `AdbStream`

One connection: Socket's stream handlers, ServiceMap, RollingCounter, one Service
per OPEN, its transport with the device side of it, and the remote. `svc[s]`
holds the fields of `Service` and the position of its two promise chains,
`dev[s]` the transport: bytes the device sent, bytes read from the stream,
whether `readable` or `end` is due, whether `end()` was called on it. Actions of
`Socket._handle` have the packet's name (`OpenService`, `HandleOkay`,
`HandleWrite`, `HandleClose`); `Premature` and `HandleError` are a
PrematurePacketError and the `.catch` that follows it a tick later;
`TransportReady`, `ReplyOkay`, `StartPush`, `Finally` are the steps of
`Service._handleOpenPacket`, `Cleanup` the `.finally` of the socket.

Choices that matter:

- Packets travel in one FIFO channel per stream and direction. The code never
  depends on the order of packets of different streams.
- The FIN of `Socket.end` is `sockEnded`: nothing is written after it.
- The device's bytes are numbered, and a write carries the interval `lo..hi`, so
  that loss, repetition and reordering show.
- The ADB server's four-byte reply is one unit. A remote that sends OKAY for a
  stream whose reply is awaited could make `_tryPush` steal a part of it; this
  is not modelled, and such a remote is outside the protocol.
- An 'error' of a transport between the reply and the listeners (`service.ts:103` to 121) is
  heard by nobody: the stream stays open on a destroyed socket, and what is buffered is still
  pushed (`TransportErrors`). A timeout before the reply is one of `ReplyFails`; later the
  service has no listener for it.
- `transport.end()` is the end of a transport. That a half-closed socket with
  unread data may live on is listed as a hazard and not modelled.
- `maxPayload` is a constant, and the handshake is the action `Accept`.
- A remote keeps to the protocol, except for `MaxStray` packets of any kind for
  any stream at any time.

`AdbStream` states the promise to the remote without services, transports or
packets: open, ready, bytes in order with one outstanding write of at most
`MaxPayload`, acknowledgements that mean something, closed for good.
`ImplementsAdbStream` is the refinement.

### `PacketReader`, `PacketChannel`

`_tryRead` between a byte stream and `Socket._handle`. A byte is its position:
`arrived` is what the stream has buffered, `taken` what `read()` returned, `at` what
`_consume` cut off; the reader's buffer holds `taken - at` bytes. A header read at
the first byte of a packet is that packet's header; anywhere else, which happens
only after an error, its content is arbitrary. `PacketChannel` is the promise in
terms of packets: handled in order, none skipped, none damaged.

### `TcpUsbAuth`, `TcpUsbAuthProps`

The handshake of one connection. A packet starts a chain (`chain[p]`) at once,
even if earlier chains are pending; `SignatureKnown`, `ChallengeAgain`,
`SignatureTooEarly` and `SignatureThrows` are the outcomes of one AUTH packet
with a signature. A signature is a key and a token; `verify` is true when both
fit and may throw when the key does not. `options.auth` may approve, reject,
throw, or never answer. The remote sends CNXN, answers each challenge with its
next key's signature, and with its public key once it has tried them all.
`ErrorHeard` says whether the Server's user listens to `error`, since an
EventEmitter without a listener throws.

### `SyncPull`, `PullTransfer`

One `Sync.pull`: the loop of `_readData`, the Parser's reads it waits for, and the
PullTransfer, between the socket's events and the user's `cancel`. `at` is the read
in progress (`reply`, `length`, `flow`, `mtime`, the two reads of `_readError`, and
`drain`, which is `Parser.end`), `phase` says whether it waits for the stream or has
settled with its continuation still due. `attached` is whether `reader`, the promise
with the `.catch` that emits `error`, still depends on the reads: `readNext()` at
`sync.ts:282` is not returned, so it does not after the first chunk.

- A unit of the stream is what one read asks for, or one byte of the file. A half
  reply is the same as none: both end in a PrematureEOFError.
- A socket error rejects the read that waits. Between the settling of a read and
  its continuation it finds a settled promise and is lost; what is buffered is
  still read, then the next read waits on a destroyed stream.
- A rejection reaches the `.catch` in the step that causes it: nothing that may
  happen in between changes where it goes. A FAIL has a message that is not empty.
- The option `timeout` of a client (the README of the repository, line 199) reaches
  `Net.connect` (`connection.ts:28`), and all four reads of the Parser listen to it
  (`parser.ts:86`, 137, 189, 241). `SocketTimesOut` is what they do: the socket is
  half-closed, not destroyed, the read that waits rejects with a TimeoutError, and whatever
  comes late stays unread. `broken` says that the socket has failed or a read has timed out;
  only the first sets `destroyed`. A timeout between the settling of a read and its
  continuation is left out: the event loop runs timers before the network, and what the
  Parser schedules (`setImmediate`) after it, before the next timers.
- `cancel` drops the chain and touches nothing else: Bluebird 3 runs `.finally` of
  a cancelled promise and no `.catch(CancellationError)`. The README of the
  repository says it ends the connection. Once `reader` has settled it does nothing.

`PullTransfer` states the promise in terms of the file and of what the user is told: bytes
in order, none before the device has sent it, nothing after the first of 'end', 'error' and
`cancel`, 'end' once and after DONE only with all bytes, and an 'error' for a pull that is
over before its first chunk was complete. `ImplementsPullTransfer` is the refinement.

### `Conversations`

The commands. All have one shape: a request, `OKAY` or `FAIL`, and then a read or two
that depend on the command. So a command is a record (`Clear`, `Install`,
`WaitForDevice`, ...) of what it reads after `OKAY`, which texts resolve or reject it,
what `.finally()` runs, and what a premature end becomes; the actions are the Parser's
reads and their continuations, each for all the commands that have it. Commands with the
same record (`Shell`, `Log`, `Tcp`) are checked as one. `host-serial/index.ts` exports
GetDevicePathCommand also as GetSerialNoCommand; the conversations are the same, so the
model does not tell, but `getSerialNo()` asks for the device path. A device
command comes second on its connection, after the transport request, with the same
Parser, as in `DeviceClient.transport`.

- A unit of the stream is what one read asks for; a line counts once it has its line
  feed. Texts are kept as far as regular expressions tell them apart (`good`, `bad`,
  `gone`, `exception`, `noise`). A length of zero has a token of its own (`ZERO`), since
  `readBytes(0)` takes nothing.
- Rejections go the way of results: 'end' and 'error' settle the read with `EOF` or
  `ERROR`, and a continuation acts on it later. 'end' between a result and its
  continuation still finds the listeners and sets `Parser.ended`; 'error' is lost.
- A 'timeout' (see `SyncPull`) settles the read with `ERROR` too, but the socket is only
  half-closed: the server's answer may come and stay unread, and with bytes unread its close
  is not seen. `ConnectionAccounted` says so (`broken /\ shut`) and `OutcomeFollowsAnswer`
  allows the error.
- Where bytes are there when a read starts, its continuation runs at once; the model
  allows events in between. That only adds behaviours.
- `isInstalled` and a framebuffer of the old version settle with bytes unread and the
  connection open. `ConnectionAccounted` names them (`LeavesUnread`).
- What happens to a connection that is handed over is in `Trackers`, `SyncOps` and
  `SyncPull`. Cancelling a command is left out.

### `Client`, `Trackers`

The life of one call, composed. `Trackers` EXTENDS `Conversations`, `Client` EXTENDS
`Trackers`: reply and tracker share a Parser, and the retry of a command starts the
conversation over, so they share `at`, `token` and the stream instead of being put side
by side. A call begins in `Connection.connect` (`conn`), runs the conversation of its
command once the connection is up, goes on as a tracker if the command makes one, and
may start over on a new connection (`Retries`).

- `ConnectRefused` starts the ADB server once (`tried`). `connect()` then runs inside the
  chain of the first call and both levels add an 'error' listener, so that after a retry
  an error nobody hears is lost instead of emitted (`Listeners`, `UnheardError`).
- A retry without `--user` follows a line of the device that may be about it. For
  `startService` `user` is set again, and the model runs it over and over, as the code
  does; for `startActivity` `RetriedOnce` bounds it.
- A list is one token, mapped to its content when it is read. `known`, `last` are the
  tracker's map and list, `view` is what a user has who applies `add`, `change` and `remove`.
- JdwpTracker reads a list and no further one, although the README of the repository
  describes events for what comes later (line 893 on); after it the model is `idle`. Its
  `update` keeps only new pids in its map, which would go wrong on a second list.
- `end()` of a tracker is a cancellation: Bluebird 3 runs `.finally` and no
  `.catch(CancellationError)`. So JdwpTracker's `end()` neither ends the connection nor
  emits 'end', and a Tracker ends by its `.finally`, if `parser.end()` does not reject.

### `SyncOps`, `PushTransfer`

The rest of `Sync`, on the same conversation variables: `stat` (and `sta2`, which differs
in the length of its answer), `readdir` and `push`, one after the other. A push is a writer
fed by its source and a reader of the reply that is started at once; the record `push`
holds what both share, `Transferred` and `GiveUpPush` what each does to the other.

- Nothing is started on a connection whose operation has failed with it or by a TimeoutError
  (`StartOp`): the rest of the old answer may still come, and the Parser would take it for the
  next one's. This is an assumption about the user; the code does not prevent it.
- Continuations that the code schedules (`writer.then(...)`) are `writeDue` and `doneDue`.
- `Connection.write` returns the connection, which is truthy, so the code waiting for
  'drain' is never reached; and as the Parser listens to 'error' during a push, the
  connection emits none and the listener for it is not reached either. Neither is modelled.
- A source that fails, or `cancel()`, gives up both chains and leaves source and connection
  alone, with the device in the middle of a SEND (the README of the repository, line
  1061, says of `cancel` that both are ended). No operation follows on such a connection.
- An entry of a directory is one of three names (`dot` stands for `.` and `..`, which
  `readdir` drops). A listing may have any number of entries; what is kept of them is checked
  and proved to be all the others, in order.
- 'end' of a PushTransfer comes after an error and after `cancel` too, although the README of
  the repository says that it is emitted when the transfer has successfully completed (line
  1059). `EndMeansStored` therefore speaks of an 'end' without either.

`PushTransfer` states what a push promises, without pieces, replies and callbacks: it is over
once, by 'end', 'error' or `cancel`, with one 'error' at most; an 'end' alone comes when the
device has the whole file; progress never runs ahead of the source; and a transfer dropped in
the middle of a file is the last of its connection. Whether an 'end' accompanies an 'error' or
`cancel` it leaves open: it permits both what the code does and what its documentation says. What was read before it was over may still be written and told afterwards. `ImplementsPushTransfer` is the refinement; a later operation is `Renew`, or no step.

### `Transforms`, `ProcStat`, `MCData`

Three components that only work on data. `Transforms` feeds `LineTransform` or
`RgbTransform` every input, cut in every way, and compares with a definition on the whole
input. `ProcStat` takes any history of a CPU's counters, as far as each file follows the
one before: counters go on, stand still, or the total drops. (A column that drops while the
total grows gives shares outside 0 to 100; the code's comment knows of such anomalies.)
Shares are integers; for the ticks of the instance `Math.floor(100 / ticks * x)` is the
exact value. `MCData` lets one of them move, so that one run checks all.

## 3. What is checked

| run | instance | shows |
|---|---|---|
| `bridge_stream` | one stream, payload 2, 3 device bytes, 2 remote writes | flow control, order of bytes, nothing lost or forgotten, refinement of `AdbStream`, and all liveness |
| `bridge_streams` | two streams, no wrap, no strays | map and count, close is last, services end before the FIN |
| `bridge_stray` | two streams sharing one local id, one stray packet | what survives a remote out of protocol and a wrapped id |
| `packet_reader` | two packets, header 2, bodies 0 to 2 | order, integrity, no packet held back, refinement of `PacketChannel`, progress |
| `auth` | two keys, six packets, two strays | who gets authorized, the challenge in force, dialogue (never two things in progress, and one while the remote waits), failures end, progress |
| `sync_pull` | two chunks of 0 to 2 bytes | bytes intact, refinement of `PullTransfer`, a complete answer ends the transfer, a failure settles it |
| `sync_pull_late` | one chunk of one byte | violated: a failure after the first chunk is reported to nobody |
| `client` | all commands, up to 2 lines of noise before the last; 2 devices, 2 types, 2 lists | a continuation acts only on what was said to its command; a command's outcome follows from its own answer alone, unless the socket failed or timed out; the connection is handed over at the right byte, read out, destroyed, or half-closed by a timeout; a tracker's user knows the last list, and learns of the tracker's end; every call settles |
| `sync_ops` | two operations on a connection; 3 source bytes in pieces of 2, 2 entries | an operation's outcome follows from its own answer unless the connection failed or timed out, and it waits for nothing that will not come; 'end' without an error means stored; refinement of `PushTransfer`; progress adds up; every operation settles |
| `data` | 7 bytes of lines, 16 of pixels, counters up to 3 | output independent of chunks; loads are percentages between two files, never of a CPU that stood still or went back |
| `framebuffer` | 16 bytes | violated: a 4-byte pixel cut by a chunk may lose bytes |
| `auth_unheard` | one key, three packets, `error` not heard | violated: the connection of a failed remote stays open |

Why the bounds are enough. A payload of 2 with 3 bytes gives writes that are
full, short and split, with a second write behind an acknowledgement; one byte
more adds only longer repetitions of the same. The chains of two services touch
each other only through the map, the count, `Socket.end` and the ids, so two
services show every pairwise interference; `IdMax = 2` leaves one id, so the second
open collides, as after 2^32 opens. Header 2 with bodies 0, 1, 2 has bodies
shorter than and as long as a header, cut at every byte; a second packet is
enough for one to follow a damaged or an undamaged one. Two keys, each known or
not, and six packets give the longest conforming handshake (connect, two
signatures, public key) and two strays at any place of it. Two chunks give a read
before, within and after the chunk that settles `reader`; chunks of 0, 1 and 2 bytes
are empty, whole or split. The commands read at most one text, except for searches, for
which two lines and a last one give every order of a line that is skipped, one that
matches, and one that would match but comes too late. Two devices with two types and two lists
after the empty one give a device that comes, goes, changes and stays. Three bytes in pieces
of two are a full piece and a rest, in one or several 'readable' events. Seven bytes of lines
hold the two of auto detection and a CR LF cut in the middle with something on both sides, 16
of pixels hold leftovers of one to three bytes in front of several pixels. `_set` treats each
CPU alone, so one is enough; the run has no bound on the updates.

Fairness. Weak fairness on what the event loop runs when due (packet handlers,
promise steps, stream events), on answers of the local ADB server and of
`randomBytes`, and on the remote reading, acknowledging and answering
challenges, on the network delivering what the device or server sent to a client, on
timers, on writes being flushed, on an attempt to connect having an outcome, and on a
device or server closing a connection its client has ended. No fairness on the device sending
or otherwise hanging up, on a push's source, on the remote opening,
writing or closing, on errors and timeouts, and on the user behind `options.auth`.
Deadlock checking is off: a connection may be over, or idle for ever.

### Findings

- `auth_unheard`: `Socket._error` emits `error` before it calls `end()`. Without
  an `error` listener on the Server the re-emission throws and the connection is
  never ended, against "'conn' is guaranteed to get ended" (`server.ts:29`).

- `sync_pull_late`: a device that hangs up after the first chunk of a pull. The
  PrematureEOFError reaches no `.catch` (`sync.ts:282`), so the transfer emits neither
  `error` nor `end`, against "**error** (err) Emitted on error" (line 1076 of the
  repository's README).
  By the same line a FAIL after the first chunk *ends* the transfer and never errs:
  the user takes a part of the file for the whole ("end: Emitted when the transfer
  has successfully completed").
- `framebuffer`: a chunk of one byte followed by one of seven makes two pixels out of 5
  bytes: the target is sized by the second chunk alone (`rgbtransform.ts:38`), against "should
  wait for a complete pixel before transforming" (`test/adb/framebuffer/rgbtransform.ts:147`,
  which tries a single pixel). `PixelsWhole` holds for 3-byte pixels, and as long as chunks end
  with a pixel.

Met while modelling, in the models but without a run of their own:

- When `RollingCounter` has wrapped onto an id in use, `ServiceMap.insert` throws for the
  new service, and the cleanup of that failed open removes the *older* service, which is
  alive, under the same id. `Socket.end` does not end it any more, against its comment
  "End services first" (`socket.ts:85`). `ServicesEndBeforeFin` and `ServiceMapConsistent`
  are therefore checked without a wrap.
- The connection of a `clear` fails with 'error' while `searchLine` waits for a line. The
  read rejects, and `.finally()` waits for `parser.end()`, which waits for 'end' or 'error'
  of a stream that has no more events; the promise never settles. The same goes for
  `startActivity`, `startService`, `waitBootComplete`, and with `readAll()` for `install`
  and `uninstall`. `CallSettles` excepts a connection that has failed (not one that timed out).
- A command whose read times out rejects and leaves a half-closed socket on which the answer
  may still arrive. It stays unread, so 'end' never fires and the descriptor may stay; only a
  refusal or an unexpected reply makes the Parser destroy the stream.
- A push whose source or whose device fails, and one that is cancelled, emits 'end' as well,
  against "Emitted when the transfer has successfully completed" (line 1059 of the repository's
  README); and `cancel` ends neither the stream nor the connection, against line 1063.
- The behaviours of `JdwpTracker`, `startService` and `connect()` named in section 2.

## 4. What is proved

All theorems are for every value of the constants, under the assumptions named
in the modules. `BridgeAssumption`, `ReaderAssumption`, `AuthAssumption`,
`PullAssumption`, `ConversationsAssumption`, `TrackersAssumption`, `SyncAssumption`,
`TransformsAssumption` and `ProcStatAssumption` say that the bounds are naturals, a
header is not empty, and there is a key. Six theorems about the bridge have a
hypothesis of their own, explained with them; no other theorem has one. The theorems of
safety properties are about the specifications without fairness, which allow more.

### The bridge

`TcpUsbBridgeProofs`, in four layers, each using the ones before:

- `IInv`, with strays and with wrapping ids: the types, and for each stream what the
  position of the chain implies of the flags (`StreamInv`), that only `.finally`
  may find an open transport on an ended service (`TransportInv`), that a CLSE
  in flight or received implies an ended service (`CloseInv`, which makes
  `CloseOnce` inductive, as only a service that has not ended writes one), and
  that an OPEN comes first in its channel and finds no service (`OpenInv`). From it
  follow `TypeCorrect` (`TypeOK`), `TransportsReleased` (`NoTransportLeft`), `ClosedOnce`
  (`CloseOnce`) and `DrainedAtEof` (`EofDrained`).
- `MapInv`, under `NoWrap == MaxOpens < IdMax`: a connection has fewer opens than there
  are ids. Without it the theorems are false (see Findings). That ids do not repeat is
  counted: no more were taken than opens read (`IdsCounted`), so the next one is new
  (`IdsDistinct`), and the entry under it is the service's own until its cleanup has run
  (`MapRight`, `LifeInv`). From it follow `MapConsistent` (`ServiceMapConsistent`) and
  `EndedBeforeFin` (`ServicesEndBeforeFin`), whatever the remote sends.
- `TalkInv` and `FlowInv`, under `Conforms == NoWrap /\ MaxStray = 0`: the remote keeps to
  the protocol as well. A stray OKAY makes `Service` send a second write before the first
  is acknowledged, by design, so there is no promise without this. `TalkInv`: the
  remote knows a stream's id only once it is open, and a CLSE is last and there exactly
  when the service ended (`ClosedLast`, i.e. `CloseIsLast`). `FlowInv` counts `Tokens`:
  a WRTE in flight, the remote's debt of an OKAY, or that OKAY in flight. There
  is one at most, none while `needAck` is false, and each end knows from its own state
  where it is; likewise for the remote's writes (`FlowControlled`, i.e. `FlowControl`).
- `StallInv`, under `Conforms`: nothing that is still to be done is forgotten
  (`NoneForgotten`, i.e. `NothingLost`). What a service or a remote waits for is on its way
  (`OwedInv`), by the tokens of `FlowInv`; a service that may push has pushed all there was
  and heard the end of its transport, one whose chain is done has ended, one that does not
  exist has its OPEN in flight (`DueInv`); a service that has ended left the map, or its
  cleanup is due (`LeftInv`). In the code these are a dozen places that must each call
  `_tryPush`, answer or clean up, on every path. It is the safety part of `OpenAnswered`,
  `BytesArrive`, `EofCloses` and `EndedReleases`: with the fairness of section 3 nothing
  stops for want of a step.
- `Implements` (`ImplementsAdbStream`), under `Conforms`. A step concerns one stream or
  all of them (`Socket.end`); each is mapped for its stream and leaves the others. That
  the remote receives a CLSE, a WRTE or an OKAY is `Close`, `Deliver`, `Ready` or `Acked`;
  `HandleWrite` is `Accept`; the device's sending is `Produce`; what the remote does goes by
  the same name. All else, the chains, the transports, the map, is a stutter. The
  guards of these steps are what `FlowInv` provides.

`TcpUsbAuthProofs`: `Typing` (`TypeOK`), `OnlyAuthorized` (`AuthorizedKey`) and
`LastChallenge` (`TokenIsLastChallenge`), for any number of keys, packets and
strays. A chain that passed its verify resumes when token and approvals may
have changed; `Passed` records what it may still rely on, which is inductive
because a stored signature is never replaced and tokens and approvals only grow.
`OneAtATime` (`Dialogue`: never two packets or chains in progress, and exactly one while the
remote waits) and `KeyMatches` (`ConformingMatches`) are properties of a remote
that has sent no stray (`strays = 0`), and need no hypothesis on the constants. Neither is
inductive: what keeps chains from overlapping is that nothing but the one thing in progress
can make the next. `DialogueInv` says what it may be, and ties it to the stage: neither token nor
signature before the first challenge, one token and the first key's signature ever after.
`Answered` is the other half: a step that takes what is in progress away puts the next one in
its place, ends the connection, or leaves a remote that no longer waits.

`PacketReaderProofs`: `HandledIntact` (`PacketsIntact`), `NoneHeldBack`
(`NothingHeldBack`), `Refinement` (`ImplementsPacketChannel`). The properties
speak of packets and the reader of positions. The invariant ties them: packets
lie end to end (`EndToEnd`); until an error the reader stands at the header or
the body of the packet after the handled ones (`Aligned`); outside the
inner loop it lacks bytes to go on (`Waiting`).

### The client side

`SyncPullProofs`: `Intact` (`BytesIntact`), `KeepsPromise` (`ImplementsPullTransfer`), `Typing`
(`TypeOK`), for chunks of any number and length. The code counts down `howMany` and
trusts that what follows is a reply. `Grammar` states that of the tokens sent, by
neighbours only, so that it survives a conversation cut off anywhere; `OpenEnd`
that a chunk is sent whole while the device goes on; `Position` that the reader
stands where the grammar expects its next read with as many bytes written as lie
before it. The refinement needs two more: `Settling`, an ended transfer is past its last
chunk, and `Counted`, no chunk reaches beyond the bytes the device has sent. Then a read of
the flow is `Deliver`, the reply after a chunk `ChunkComplete`, `ReadEnd` is `Finish`, a FAIL
`Refused`, and every rejection `Fail`.

`ConversationsProofs`: `Own` (`OwnAnswer`) and `Typing` (`TypeOK`) of `Conversations`' own
`Spec`, for every command and any number of lines of output. Nothing in the Parser
separates the answers on a connection. That no rest of the first is taken for the second
follows from when requests are sent: nothing follows the `OKAY` of a transport request
(`OkayLast`), the server says nothing to a request it has not received (`Fresh`), and so
what is unread belongs to the running command (`Tagged`). Steps that read no token share
one lemma (`Quiet`).

`ClientProofs`, for the whole life of a call, with connecting, trackers and retries:
`Invariant` (the invariant itself), `ClientOwn` (`OwnAnswer` of `ClientSpec`), `Outcomes`
(`OutcomeFollowsAnswer`), `Connections` (`ConnectionAccounted`), `ViewTold`
(`ViewIsLastList`), `Retried` (`RetriedOnce`). `ClientInv` has three parts.

- `Talking`: the answer of the running command begins where the one before ends
  (`Split`) and is a possible one, cut off anywhere (`Answered`); where the read in
  progress stands in it (`Standing`); and when a verdict is given, that it is `Firm`: every
  continuation of what was read has the same outcome. This is why an outcome follows
  from the answer although the command settles before it is complete: what the server says
  later, or fails to say, no longer matters. The exceptions are carried along: a read that
  rejects for another reason than the end of the stream has `broken`, and the connection is then
  destroyed or half-closed by the timeout (`GivenUp`). What an answer means to each kind of command is
  stated in lemmas on `Outcome` (`OutcomeReply`, `OutcomeSearch`, ...).
- `ViewInv`: what a tracker's user has is the tracker's list, before and after each
  update. For pids it holds only as there is one list and it starts from nothing.
- `RunsInv`: a second run is without `user`, and only then may there be a third.

`SyncOpsProofs`, for any number of operations, entries and bytes: `SyncTyping`, `Stored`
(`EndMeansStored`), `AddsUp` (`ProgressAddsUp`), `FollowsAnswer` (`OpFollowsAnswer`),
`KeepsPromise` (`ImplementsPushTransfer`). The push: `WriterInv`, that DONE is due only when all
that was read from the source is written; `Counted`, that the stack holds the sizes between
the progress told and the bytes read, stated with a function of partial sums; `TransferInv`, that
an end without error is after DONE, and that before the end there is neither an error nor a
cancellation, which makes a transfer over once. That OKAY is possible only then is in what a device may
answer (`SyncAnswers`, `LastOfPush`). The conversation (`Conversed`) as for commands, with a listing
of any length in front of the token that ends it; so a read that finds a whole answer used up
does not exist (`WholeIsEnough`), and one that waits is one for which something is to come, as no
read is started on a stream that has ended (`Waiting`). For the refinement, that progress never runs
ahead (`ToldWithin`) is an induction over the stack, done with its least index by `WFMin` of the
library, which unlike the induction theorems has no operator for a parameter. Ended means that
reader and source are no longer heard, so `Fail`, `Cancel` and `Produce` are over; what the
writer still does is `Store`, `Complete` and `Progress`.

`DataProofs`: `LinesComeOut` (`LinesWhole`) and `PixelsComeOut` (`PixelsWhole`), for an input of
any length cut anywhere.

- Lines. What comes out is described by its places, not by a recursion: the k-th byte of the
  output is the one whose position has k passed positions up to it (`At`, `Nth`). So the
  output for two parts can be compared with that for the whole, and in the invariant the
  output of all chunks so far is that of one chunk made of all that came. `Skipping` says what
  is left to skip of the one or two bytes auto detection takes off, and what it found;
  `Passing` that the output is what passes of the lines behind them, but for a CR at the end,
  which is saved until it is known what follows.
- Pixels of 3 and 4 bytes. What is kept is what is left of the input after its whole pixels
  (`Leftover`), and nothing as long as chunks end with one (`Whole`). 3-byte pixels are
  converted in place; with 4-byte pixels the target buffer is too small for a leftover, and
  the theorem is about aligned chunks.

`LoadsAreTold` (`LoadsTold`), for any CPUs, counters and order of files: `Compares` and `Ignores`
say what `stats` and `ignore` hold of the files seen. `SideBySide` is the invariant of all
three in `MCData`'s specification.

### Only model-checked

All liveness under fairness (`OpenAnswered`, `BytesArrive`, `EofCloses`, `EndedReleases`,
`PacketsHandled`, `FailureEnds`, `HandshakeSettles`, `CompleteEnds`, `FailureSettles`,
`TrackerServes`, `CallSettles`, `OpsSettle`): out of the prover's reach, as is ENABLED. Where a
state can tell that the system has stopped for good, that it does not get there is proved:
`NothingLost` for the bridge, `NothingHeldBack` for the packet reader, `Dialogue` for the
handshake, `RetriedOnce` for `CallSettles`, the last part of `OpFollowsAnswer` for `OpsSettle`,
and that a pull does not fail in silence before its first chunk is complete (`Fail` of
`PullTransfer`).

Every other property that a passing run checks is stated by a theorem.

Type invariants are proved and not spent runs on.

## 5. Not modelled, and the plan

Not modelled: text formats of commands and the parsing of their answers, the RSA arithmetic,
the length prefix of `Protocol`, A_SYNC and a second CNXN's payload, `Server`'s list of
sockets, the CLI, key codes, debugging output. Of `DeviceClient`, the methods that chain two
commands. Of `Sync` and `ProcStat`, operations that overlap on one Parser: each takes parts of
the other's answer, and there is nothing they keep to. Of sockets, what becomes of the
descriptor after both sides are done with it.

Next, in this order:

1. For `Client`'s commands what the last part of `OpFollowsAnswer` is for operations of a sync
   connection: a read that waits is one for which something is to come.
2. A repaired `startService`, `PullTransfer` and 4-byte pixels, so that the properties that are
   violated or weakened today hold for all of them.
3. `DeviceClient`'s methods that chain two commands, as compositions of calls of `Client`.
