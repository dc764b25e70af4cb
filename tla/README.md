# TLA+ models of charlesgo

charlesgo is the supervisor daemon of a gateway board: a Go process on the
HLK7628 Linux module that talks to the board's STM32 over a serial line
(`/dev/ttyS1`), publishes what it learns over MQTT, serves a small HTTP API and
keeps the firmware of both processors up to date. Almost everything the daemon
does ends in a request to the STM32, and all of those go through one package,
`charles_communicator`. That package is the core of the system and the core of
this project.

The models are checked with TLC. `PROJECT.json` lists every component, every
run, the source lines behind every definition, the hazards of the code and what
the runs found.

## 1. The system

### 1.1 Components

| Component | Source | State | Operations that change it |
|---|---|---|---|
| Transport | `charles_communicator.go` 24-54 | `port`, `ValidPort` | `InitCC`, `OpenPort`, `ClosePort` |
| Protocol engine | `charles_communicator.go` 56-162, 291-355 | `rcvMsgState`, `rcvMsgBuffer`, `rcvMsgBufferControl`, the three lists | `Start` (read loop, reconnect, framing), `processMessage`, `callRespFunc`, `callWaitingRespFunc`, `checkWaitingTimeouts`, `sendMessageIfExists`, `getMessageToSend` |
| Identity allocator | 254-289 | `msgIdControl` | `requestMessageId`, `listAllUsedMessageIds` |
| Message store | 240-252, `structs.go` | `messagesToSendList`, `messagesWaitingResponse`, `respFunctionsList` | `registerMessage`, `RegisterFunctionToRcvMsg`, `SendGetMessage`, `SendSetMessage`, `SendRespMessage`, `SendErrorMessage` |
| Synchronous facade | 357-398 | one channel per call | `SendMessage`, `respSetGet`, `returnStringDataAndError` |
| Frame codec | `utils.go` 10-56 | none | `encodeCharlesMessage`, `decodeCharlesMessage` |
| Peripherals | `peripherals/*.go` | lazily created event ids | `Setup` (four registrations), four request handlers, the `Get*`/`Set*` wrappers of `SendMessage`, `SetSerialNumber`, buzzer control |
| Event control | `event_control.go` | `eventFunctionsRegister`, `eventIdCounter` | `RegisterToReceiveEvent`, `CallRegisteredEventFunctions`, `CreateEventId` |
| Updater | `updater/updater.go` | `stm32Version`, `hlk7628Version`, files | `UpdaterStm32Callback`, `UpdaterHlk7628Callback`, `updateDevice`, download, checksum, flash with three trials |
| SocketXP | `socketxp/socketxp.go` | `Handler`, two credential files, the service | `InitSocketXP`, `UpdateCredentialsCallback`, `updateCredentialsFiles`, `restartSocketXp`; `IsConnected` reads |
| Monitor, scheduler | `monitor/*.go`, `scheduler.go` | `MQTTClient`, `scheduler`, gocron jobs | `Monitor`, `InitScheduler`, `RegisterFunctionToSchedule`, `publishMetricFromFunction`, event forwarding |
| MQTT connector | `mqtt_connector.go` | `client`, `subscriptions`, the connection, the client's routes | `InitMQTTClient`, `RegisterSubscription`, `Connect`, `SubscribeAll` |
| HTTP API | `api.go` | the listening server | `Start`, `handleGenericRequest` |
| Initializer | `initializer.go` | `ini` | `LoadConfig` |
| Device and network information, utils | `device_info.go`, `network_info.go`, `utils.go` | none | none: `GetDeviceId`, `GetOSVersion`, `GetPriorityRoute`, the interface statuses, `GetUserName` and `EncryptAES256ECB` are functions of what the board has at the call |
| Logger, environment | `gablogger.go`, `common.go` | the logger, twelve strings | set once before `main` |
| main | `main/main.go` | | the start-up order |

### 1.2 Who runs concurrently

* the **engine**: one goroutine, `go CCHandler.Start()` (`main.go` 40). It alone
  reads and writes the port, and it alone removes from the lists;
* the **callers** of `SendMessage`: scheduler jobs of the monitor, HTTP
  handlers, event listeners (the buzzer control), `main` itself. Each appends a
  message to `messagesToSendList` and blocks on its own unbuffered channel;
* the **MQTT callbacks**: `UpdaterStm32Callback` closes the port, flashes the
  STM32 through an external program and opens the port again;
* **OnConnect** of the MQTT client: `SubscribeAll`, on a goroutine of its
  own, after the first connection and after every reconnect;
* the **API**: `go api.Start()` (`main.go` 43), and a goroutine of `net/http`
  per request;
* the **STM32**: sends requests of its own (tamper, power source, watchdog),
  answers, and anything else a serial line can carry.

### 1.3 One request, end to end

`SendMessage` asks `requestMessageId` for an id, builds the message with the
caller's channel as `externalData` and `respSetGet` as continuation, appends it
to `messagesToSendList` and blocks on the channel. The engine reads the port
one byte at a time with a 500 ms timeout. A read that times out is an *idle
tick*: the engine runs `checkWaitingTimeouts`, then `sendMessageIfExists`, which
takes the **last** message of the list, stamps it, encodes it, waits for a valid
port, writes the frame and, for a GET or SET, appends the message to
`messagesWaitingResponse`. Bytes that arrive are framed between `[` and `]`; a
complete frame is decoded and dispatched: a GET or SET goes to the registered
handler (or is answered ERROR), a RESP or ERROR goes to the first waiting
message with the same id, whose continuation sends on the caller's channel. A
waiting message whose age exceeds its timeout gets the continuation with type
TIMEOUT.

### 1.4 What makes it hard

* the lists are shared by the engine and the callers;
* the continuation runs on the engine's goroutine and sends on an unbuffered
  channel: if nobody receives, the engine stops for good;
* ids are 16 bits wide, odd, and taken from a counter that wraps;
* a timeout races the answer it gave up on, and the answer may still come;
* the port can be closed under the engine by the updater, and fail under it
  by itself;
* one step of several can fail (encode, write, reopen) after the message has
  left the list it was in;
* `main` starts the engine and the API before the packages they call into are
  set up, and every statement of `main` that talks to the STM32 waits for an
  engine that waits for a port.

### 1.5 What each component has to guarantee

* **facade**: every call returns, with the answer to *that* call or with a
  timeout (spec 4.7, 4.8);
* **allocator**: no two requests in flight share an id (spec 4.3, 8);
* **engine**: it never blocks on a channel; every registered message is
  written or reported; every waiting message is resolved (spec 4.5, 4.6);
* **framing**: exactly the byte runs between a `[` and the next `]`, shorter
  than the buffer, are handed to the decoder; no write outside the buffer
  (spec 4.4);
* **codec**: what is encoded decodes to the same message (spec 4.1);
* **transport/updater**: the engine keeps off the port while the STM32 is being
  flashed (spec 6);
* **main**: a callback never runs before the state it reads exists, and
  start-up ends;
* **peripherals**: the EEPROM is not left writable without the caller being
  told.

## 2. Modules

| Module | Models | Instantiated by |
|---|---|---|
| `Communicator` | transport, engine (one frame per step), allocator, store, facade, the handlers of `peripherals`, the port bracket of the updater, the STM32 as environment | `MCCommunicator` |
| `SyncFacade` | what spec 4.8 promises a caller of `SendMessage`; `Communicator` implements it | through `Communicator` |
| `Framing` | the engine's byte-level receive path: the `switch buf[0]` of `Start` and the slicing in `processMessage` | `MCFraming` |
| `FrameReceiver` | what spec 4.4 promises of the receiver; `Framing` implements it | through `Framing` |
| `Codec` | `encodeCharlesMessage` and `decodeCharlesMessage`, field by field | `MCCodec` |
| `Updater` | a firmware update from the announcement to the recorded version | `MCUpdater` |
| `SocketXp` | `UpdateCredentialsCallback`, its files and the service; `IsConnected` beside it | `MCSocketXp` |
| `Startup` | `main` statement by statement and what it starts: `initializer`, `InitCC`, the API, `SetSerialNumber`, `mqtt_connector`, `Monitor` and the scheduler | `MCStartup` |
| `HostInfo` | `device_info`, `network_info` and `utils` as operators on a board: the device id, the OS version, the route in use, the interfaces, the user name and the password | through `Startup` |
| `Events` | `event_control`, the event ids created on first use, the handlers and listeners that raise and receive events | `MCEvents` |

### 2.1 Communicator

**State.**

| Variable | Code |
|---|---|
| `supervisorEnabled` | `initializer.IsSupervisorEnable()`, fixed at start |
| `enginePc` | where `Start` is: `start`, `poll` (line 67), `read` (68), `close` (76), `cooldown` (77-78), `sweep` (103), `pump` (104), `write` (300), `writing` (301), `returned` (59) |
| `outgoing` | the message `sendMessageIfExists` holds between taking and writing it |
| `ValidPort`, `portOpen` | `CCHandler.ValidPort`; whether the descriptor in `CCHandler.port` is open |
| `msgIdControl` | the id counter, modulo `IdModulus` |
| `messagesToSendList`, `messagesWaitingResponse`, `respFunctionsList` | the three lists, as sequences |
| `clientPc`, `clientCalls`, `clientReply` | a caller is `idle` or `blocked` on line 371; how many calls it has made; what its channel delivered |
| `fromPeer`, `peerSeen` | frames on the line towards the engine; the requests the STM32 has seen, which it may answer |
| `flasherPc` | `idle` or `flashing` (between lines 95 and 97 of `updater.go`) |
| `used`, `dropped` | the counters that bound the environment; the messages dropped by the pump (history) |

A message is a record with the fields of `CharlesMessage` that control
depends on: `messageId`, `messageType`, `command`, `data`, `messageTimeout`,
`chan` (the channel in `externalData`, `NoChan` for answers to the STM32) and
the clock `age` (below). Payloads are three model values:
`Empty` (the `""` that `returnStringDataAndError` tests for), `Text`, and
`Long`, a payload whose frame does not fit the buffer so that
`encodeCharlesMessage` fails.

**Time.** The unit is the read timeout, 500 ms. Time passes only where the
engine waits: a read that times out, the sleep of the poll loop, the sleep of
the write loop (one unit each) and the cool-down after a read error
(`CooldownTicks` units). `age` is `time.Now() - messageCreationTime`: set to 0
where the code stamps the message (lines 173, 187, 206, 230 and again 295),
advanced by every wait, and compared with `messageTimeout` the way line 347
does. It saturates at `AgeCap`, one more than the largest timeout. The stamp
of line 295 is taken before the pump waits for a valid port, so a request
that waits out a flash in the pump can be timed out by the first sweep after
its write; spec 4.7 measures the timeout from the stamp, and the model does
what the code does.

**Actions.** Every action is one atomic step of the code, ended where another
goroutine can observe or change what the step uses.

| Action | Code |
|---|---|
| `EngineStart` | 57-64: return if the supervisor is disabled |
| `EnginePollPort`, `EnginePollSleep` | 66-72: `ValidPort` tested, then `Read` or `Sleep` |
| `EngineReadError`, `EngineClosePort`, `EngineReopen` | 74-78: error, `ClosePort`, 2 s, `OpenPort` with its result ignored |
| `EngineDropFrame`, `EngineServeRequest`, `EngineMatchReply` | 80-101 and `processMessage`: a complete frame arrives and is dropped, served by a handler or answered ERROR, or matched by id |
| `EngineReadIdle`, `EngineSweep` | 102-103: the read times out; `checkWaitingTimeouts` |
| `EnginePumpNothing`, `EnginePumpTake`, `EngineWritePort`, `EngineWriteSleep`, `EngineWritten`, `EngineWriteError` | `sendMessageIfExists`, split at the test of `ValidPort` and at `Write` |
| `SendMessage`, `SendMessageDisabled`, `RegisterFunctionToRcvMsg` | the callers and `peripherals.Setup` |
| `FlashBegin`, `FlashEnd` | `UpdaterStm32Callback` 95 and 96-97 |
| `PeerAnswers`, `PeerRequests`, `PeerNoise` | the STM32: an answer to a request it has seen (any time later, more than once), a request of its own, a frame that does not decode |

The continuation's send on the channel is a rendezvous: `EngineMatchReply` and
`EngineSweep` are enabled only if the receiver of the message's channel is
blocked on it (`Receiving`). A state in which the engine holds a message whose
caller has gone is the engine's deadlock, and `EveryCallAccounted` excludes it.

`Init` is the state after a successful `InitCC`. (`InitCC` ignores a failed
`OpenPort`; the port is then nil. That start state is in `Startup`, 2.7.)

Three facts of Go are part of the model because the code's behaviour follows
from them: `e.Value.(CharlesMessage)` never holds for an element that is a
`*CharlesMessage`, so `listAllUsedMessageIds` returns an empty map;
`list.Remove(e)` clears `e`'s links, so `e.Next()` is nil afterwards and the
loop of `checkWaitingTimeouts` ends with its first removal; `callWaitingRespFunc`
returns on its first match.

**The facade a caller sees.** `SyncFacade` is the synchronous facade of spec
4.8 in three variables, with none of the engine in it: each caller is `idle`
or has a request that is `queued`, `awaiting` or `dropped`; `calls` counts its
requests and `reply` is what its private channel delivered. Its steps are
`Request`, `Refuse` (a disabled supervisor), `Write`, `Drop`, `Respond` (a RESP
or ERROR with a payload of the STM32, made for this very request) and `TimeOut`
(TIMEOUT with the empty payload). A request is answered only from `awaiting`,
and `dropped` has no way out: that is the caller left waiting of `comm_hang`.
`Communicator` implements it under the mapping

    phase[c] <- "idle"     while clientPc[c] = "idle"
                "awaiting" while c's message is in messagesWaitingResponse
                "dropped"  once sendMessageIfExists gave the message up
                "queued"   otherwise (messagesToSendList or the pump's hands)
    calls    <- clientCalls
    reply    <- clientReply
    Payloads <- AnswerPayloads

Every step of the engine, of the STM32 and of the flash is then a step of one
caller's facade or leaves every caller where it is.

### 2.2 Framing and FrameReceiver

`Framing` reads an arbitrary sequence of at most `MaxBytes` bytes over the
alphabet `[`, `]` and `Others`, one byte per step, with the code's three
variables. `read` and `processed` are history: the bytes read so far and the
raw messages handed to the decoder. `rawMessage` does what lines 111-112 do, a
prefix of the buffer without the terminator just written.

`FrameReceiver` is the receiver of spec 4.4 in two variables: the body of the
frame being received (or `NoFrame`) and the frames handed on. `Framing`
implements it under the mapping

    frame  <- the first rcvMsgBufferControl bytes of rcvMsgBuffer while
              rcvMsgState = RECEIVING_DATA, NoFrame otherwise
    handed <- processed
    Capacity <- BUFFER_SIZE - 1

`FramesOf` is the reference definition: the frames of a byte sequence, defined
recursively over the sequence with no buffer and no index.

### 2.3 Codec

A text is a sequence of tokens: a separator (`;`, `:`), a key, a numeral or a
word. `Width` is its length in bytes. `Serialized` is the `Sprintf` of line 48,
`TooLong` the test of line 51. `decodeCharlesMessage` is a fold over the parts
that `Split` gives for `;`: a part that `Split` for `:` does not cut in two is
an error, a known key takes `Atoi` of its value cut to the width of the field
(`Cut`, lines 33 and 35), `data` takes the value, any other key is ignored,
and fields that do not occur keep 0. The state machine around the operators
composes a message, encodes and decodes it, or lets the STM32 send any short
text.

### 2.4 Updater

`updaterPc` follows a callback of the MQTT client: `idle`, `download`, `copy`
(the loop of `copyWithProgress`), `verify`, `apply`, `trial` (the loop of
`applyStm32Update`), `return`.
`installed` is what each processor runs, `localFile` what lies in `/tmp`
(`Absent`, `Bad`, or the firmware of a version), `stm32Version` and
`hlk7628Version` what the updater has recorded, `events` what the callback has
told the listeners. Every call that can fail has both outcomes: the steps of
the download up to `os.Create`, each read and write of the copy, the checksum,
each flashing trial (which may leave the STM32 `Broken`), `sysupgrade`,
`OpenPort`. A successful `sysupgrade` reboots the board: the process starts
again (`boot`).

The download is counted in blocks, a block being what one `Read` brings.
`remoteFileSize` is what `Stat` said, `totalBytesCopied` what has been read and
`written` what has been written. A turn of the loop is one action: the read
(`Reads`: a block or none, with nil, `io.EOF` or another error), the progress
sent to the bar, the write. The server is not held to the size it announced: a
read can end the file early or bring more than announced, up to `MaxBlocks`
in all. `updateProgress` is modelled by the count of its second
`strings.Repeat`, `progressBarWidth - int(progress*progressBarWidth/100)`:
when it is negative, and when the size is 0 and the progress infinite, the
goroutine of the bar panics and the process ends (`ProgressPanics`). The
model starts it again with `/tmp` as it is (`Restarted`), as it does after a
reboot; who starts the process is not in the repository.

### 2.5 SocketXp

`configFile` and `keyFile` are the two files, `service` the files the running
service started with, `outcome` the last thing the callback logged.
`UpdateCredentialsCallback` compares the files with the message and, if they
differ, runs `createWorkDir`, `createConfigJsonFile`, `createDeviceKeyFile` and
`restartSocketXp` in this order; each may fail and end the callback (`Then`).
`Reboot` may happen between any two steps: the service starts with the files
as they are, and the process with no `Handler`.

`IsConnected` runs on another goroutine (a request of the API or a job of the
scheduler) and is cut where it reads what the callback writes: `IsConnected`
(the test of `Handler` and the read of `config.json`), `checkSocketXpFiles`
(the read of `device.key`), `checkSocketXpService` (the `service` command),
`checkSocketXpConnectivity` (`device.key` read again and the URL built from
its name, kept in `autoPingURL`) and `Head` (the HEAD request to that URL and
the answer). `checkPc` says which is next and `answer` what the last call
returned. A file is invalid when it is missing or cut, which is what a failed
or unfinished write leaves. The gateway answers with a 2xx status only while
the service runs the tunnel of the name that was called (`TunnelUp`); this is
an assumption about SocketXP, not code of the repository. Since the callback
can write `device.key` and restart the service between any two of these
steps, `IsConnected` can answer "connected" for a name that `device.key` no
longer holds: the answer is about the moment of the request, and the code
promises no more.

### 2.6 Events

Threads: `main` (the statements of `main.go` that register listeners, in
order: `Main`), the engine (the four handlers of `peripherals`), the router of
the MQTT client (the reports of the updater) and the goroutines that
`CallRegisteredEventFunctions` starts, kept in the bag `spawned`. Of the
listeners only `activateBuzzerByTamper` (it sends a command and raises an
event) and `sendBuzzerEvent` (it chooses what to publish) are kept in the bag;
the others publish the message of the event as it is.

The ids are the point of the module. `Get...EventId` is `if id == 0 { id =
CreateEventId() }` with no lock. A thread that finds an id uses it in the same
step (`GetEventId`); a thread that finds none goes on to create one and store
it (`StoreEventId`), and then reads the variable again for the id it returns
(`WithStoredId`); other threads may run between the test and the creation and
between the store and the read. Two threads can therefore create two ids for
one event, and a thread can go on with the id another thread stored after
its own. Creation and store are one step: ids are only ever compared, so a
run in which two threads create in one order and store in the other is, with
the two ids renamed, a run of the model. Only `CreateEventId` itself is
atomic in the code (its mutex).

### 2.7 Startup

`main` is a straight line of calls, and `Startup` has it as the sequence
`Program` with `mainPc` as the index of the next statement; `Monitor`, which
`main` calls last, is the tail of the sequence. `process` is `running` until
`Logger.Fatal` or a panic nothing recovers ends the process.

| Variable | Code |
|---|---|
| `ini` | `initializer.ini`: Go's zero values until `LoadConfig` |
| `port` | `CCHandler.port` with `ValidPort`: `nil` after an `InitCC` whose `OpenPort` failed, `open`, `closed` |
| `mainPc`, `process`, `mainBlocked` | the next statement of `main`; whether the process runs or how it ended; `main` is in a `SendMessage` whose message the engine dropped |
| `ready` | what `main` has brought up: the engine's goroutine, and the packages whose pointer is set (`peripherals.CCHandler`, the MQTT `client`, `updater.Handler`, `socketxp.Handler`, `monitor.MQTTClient`, `scheduler`) |
| `eeprom`, `serialResult` | the write protection and the serial number in the STM32's EEPROM; what `SetSerialNumber` returns |
| `apiPc`, `apiResponse` | `api.Start`; how the last request ended: `200`, `500`, or `aborted` by a panic of the handler |
| `subscriptions`, `connection`, `subscribing`, `routes` | the map of `mqtt_connector`, the client's connection, an `OnConnect` that has not yet run `SubscribeAll`, the topics the client has a callback for |
| `routerPc`, `deliveries` | the MQTT router inside `UpdaterStm32Callback`; the announcements delivered so far |
| `jobs` | the functions the scheduler has a job for |
| `published` | the kinds of metric published so far |

A call of the STM32 is one step here, the return of `SendMessage` with its
result: `data`, `empty` (a RESP without payload, which
`returnStringDataAndError` turns into the error "timeout"), `error` or
`timeout`. With the supervisor disabled it returns an error at once. With the
supervisor enabled it returns only while the engine runs and the port is valid
(`Served`): the engine sweeps the timeouts and sends only after a read, and it
reads only a valid port (`charles_communicator.go` 66-73). The engine may
also drop the request, because its frame does not encode or its write fails
(297-319): nothing is then sent on the caller's channel. For `main` that is
`MainRequestDropped`, after which no statement of `main` is taken; for a
request of the API it is a handler that never answers, and for a job one that
never publishes. What these steps stand for is in `Communicator`. Whether the STM32 carried a command out is
tied to the result by `Executes`: it did for a RESP, it did not for an ERROR,
and a timeout leaves both open.

The routes of the API and the jobs of the scheduler call seventeen functions
of three kinds, and `Functions` has one of each: a wrapper of `SendMessage`
(`peripheral`), `IsConnected` (`socketxp`), and a read of the system
(`system`). A read of the system is one of the five functions of `HostInfo`
that have a route and a job (`System`), on one of the `Boards`: it returns an
error exactly when that function does on that board.

`MainGetDeviceId`, `InitMQTTClient` and `InitUpdater` read the board too, each
for itself: the board can be another between two calls (a partition that is
not there yet, a file that cannot be opened), which is why `InitMQTTClient`
can panic for want of a device id that `main` had six statements before.

`RegisterFunctionToSchedule` adds the job when there is a scheduler and
`NewJob` makes one, and returns an error otherwise; `Monitor` goes on in
either case, so a job that was not made is missing from `jobs` and its metric
is never published.

The broker is the environment: the connection can be lost whenever it
stands, the client reconnects by itself (`SetAutoReconnect(true)`), and a
firmware announcement for a version that differs from the recorded one can be
delivered whenever the client is connected and its topic has a route. What
the callback does between `ClosePort` and `OpenPort` is in `Updater`. While
it flashes, a read of the engine that fails makes the engine close and open
the port itself (`EngineReopensPort`, lines 74-78; the interleaving behind it
is the subject of `comm_flashport`), so that calls are served in the middle
of a flash; the same step outside a flash leaves the port as `OpenPort` left
it.

Two loops are one step each. `Connect` is the successful attempt of its
retry loop: a failed attempt changes nothing that another thread reads.
`SubscribeAll` subscribes all topics of the map in one step; the connection
is taken to hold, or to be lost, for all of them. With one step per topic the
run has 1.1 million states instead of 90 thousand and the same result.

### 2.8 HostInfo

Nothing in `device_info`, `network_info` and `utils` keeps state: every
function reads the board and returns a value or an error. The module has a
board as a record and every function as an operator on it, with the model
value `Error` for a returned error.

| Field of a board | What the code reads |
|---|---|
| `mtd` | the lines of `/proc/mtd`: what is before the first `:`, whether there is one, the name in quotes |
| `mtdblockDir` | whether `/dev/mtdblock` is a directory (`findMtdPart`, 71-78) |
| `flash` | the block devices: their size, and the MAC the six bytes at an offset print as |
| `osRelease` | the lines of `/etc/os-release` as name and value |
| `routes`, `links` | `netlink.RouteList` in the kernel's order, `netlink.LinkByIndex` |
| `addrs`, `reachable` | `net.InterfaceByName` with `Addrs`; whether `ping -I` is answered |

A text is a sequence of words where the code looks inside it
(`strings.TrimPrefix(part, "mtd")`, the unanchored regular expression of
`getValueFromFile`, which also finds `VERSION=` at the end of
`BUILD_VERSION=`), and a string where it does not. `GetPriorityRoute` is the
loop of lines 21-28 as a fold of `Prefer` over the routes, starting from the
route at its zero value with `minMetric = -1`. `EncryptAES256ECB` pads and
encrypts block by block; a ciphertext block is the pair of `"Encrypt"` and
its plaintext, so that two blocks are equal exactly when their plaintexts
are, which is all ECB promises.

`LeastDefaultRoute`, `Plain` and `Unpads` are reference definitions, written
from what the functions are for and not from their code.

## 3. Runs

| Run | Expect | Shows |
|---|---|---|
| `comm_safety` | pass | two callers, two calls each, a talking STM32, one read error, one write error, a reopen that may fail: `TypeOK`, `EveryCallAccounted`, `AnswerIsForTheCall`, `InFlightIdsDistinct`, `ImplementsFacade` |
| `comm_flash` | pass | a flash in the middle of the traffic, fair scheduling: `EveryCallAccounted`, `WaitingResolves`, `QueuedIsTaken` |
| `framing` | pass | every byte sequence up to 8 bytes, buffer of 4: `TypeOK`, `BufferWriteInBounds`, `ProcessedAreTheFrames`, `ImplementsReceiver` |
| `codec` | pass | every message with a payload of up to 2 tokens, every text of the STM32 of up to 4 tokens: `TypeOK`, `RoundTrip`, `EncodedFitsReceiver` |
| `updater` | pass | two versions, files of up to two blocks, every failure, fair callbacks: `TypeOK`, `DownloadedIsWhole`, `FailureIsTold`, `FlashedOnlyVerified`, `PortGivenBack`, `CallbackReturns` |
| `socketxp` | pass | two names, two secrets, every failure, reboots, `IsConnected` beside the callback: `TypeOK`, `UpdatedMeansRunning` |
| `startup` | pass | every kind of configuration file, a port that opens or not, requests and jobs at any moment, an engine that drops a request or opens the port in the middle of a flash, a connection that comes and goes, two announcements, a board whose files can be read or not at each call: `TypeOK`, `CallbacksFindHandlers`, `NilPortOnlyUnsupervised`, `WritableEepromIsReported`, `SubscribedWhenSettled`, `StartupCompletes`; and on every list of up to three routes and every length of device id up to 33: `PriorityRouteIsLeast`, `PaddingComesOff` |
| `events` | pass | main against the engine, the router and a buzzer goroutine: `TypeOK`, `NoCrossDelivery`, `BuzzerStatusVouchedFor` |
| `comm_idwrap` | violation | `InFlightIdsDistinct` once the counter wraps |
| `comm_hang` | violation | `RequestReturns`: a call whose frame does not encode never returns |
| `comm_flashport` | violation | `FlashHasThePort`: the engine reopens the port during a flash |
| `updater_version` | violation | `RecordedVersionIsInstalled`: the version is recorded after a failed update |

### 3.1 The properties

* `EveryCallAccounted`: each channel is held by exactly one message (queued,
  being written, waiting, or dropped by the pump) while its caller is blocked,
  and by none otherwise. One too many and the engine blocks on line 397. A
  dropped message counts as held, so the property says nothing of the caller
  that hangs behind it: that is `RequestReturns` of `comm_hang`.
* `AnswerIsForTheCall`: what a caller receives was produced for the call it
  is blocked in, also when answers are late, repeated, or for a request that
  timed out.
* `InFlightIdsDistinct`: two requests held by the engine do not share an id.
  It holds while the counter does not wrap (`comm_safety`, 16 ids for at most
  4 calls) and fails when it does (`comm_idwrap`).
* `ImplementsFacade`: the behaviours of `Communicator`, seen through the
  mapping of 2.1, are behaviours of `SyncFacade`. A caller is answered only
  for a request of its own that has been written, with what the STM32 sent or
  with an empty TIMEOUT; no step answers two callers, answers one twice, or
  takes a request back from `messagesWaitingResponse`.
* `WaitingResolves`: a request in `messagesWaitingResponse` leads to its caller
  returning.
* `QueuedIsTaken`: a message in `messagesToSendList` is eventually taken.
* `BufferWriteInBounds`, `ProcessedAreTheFrames`, `ImplementsReceiver`: see 2.2.
* `RoundTrip`: a message that encodes and whose payload has no separator
  decodes to itself. The format has no escaping: a payload with a `;` or a
  `:` is rejected or arrives cut, and a `;key:value` inside it sets that
  field of the decoded message.
* `EncodedFitsReceiver`: a frame the encoder accepts is not longer than what
  the framing of a receiver with the same `BUFFER_SIZE` accepts.
* `DownloadedIsWhole`: when `downloadFileSFTP` takes a download for complete,
  the local file has as many blocks as the server announced; the block that
  comes together with `io.EOF` is written before the count is compared.
* `FlashedOnlyVerified`: what a processor runs changes only in a step taken
  with the verified file of the announced version in place.
* `FailureIsTold`: when `applyStm32Update` has told the listeners "updating"
  and returns without having told them "update fail", the STM32 runs the
  announced firmware. (It tells "updated" in either case, line 382, so
  "updated" alone says nothing of the flash.) The code takes a trial for
  good when the script's output contains "Done." (367-369); the property
  holds as far as that line can be trusted, which `Outputs` states: the
  script prints it only after it wrote the whole file, and may fail to print
  it after a good write.
* `PortGivenBack`: a callback ends with the port invalid only in the step in
  which `OpenPort` itself failed.
* `CallbackReturns`: a running callback returns, or the board reboots.
* `UpdatedMeansRunning`: when the callback has logged "SocketXP have been
  updated", both files are those of the message and the service runs with
  them.
* `CallbacksFindHandlers`: a topic is registered or routed only when the MQTT
  client and the `Handler` its callback reads exist.
* `NilPortOnlyUnsupervised`: the process ends with the nil-pointer panic of
  `ClosePort` only if the supervisor is disabled. With the supervisor enabled
  and no port, `main` waits for ever in `Banner` and never connects.
* `WritableEepromIsReported`: once `SetSerialNumber` has returned, an EEPROM
  without write protection is one it returned "unable to disable" or "unable
  to enable" for, and a serial number reported written is written and
  protected.
* `SubscribedWhenSettled`: whenever the client is connected and no
  `SubscribeAll` is outstanding, all three topics have their callback.
* `StartupCompletes`: a process whose port opened, or whose supervisor is
  disabled, reaches `wg.Wait`, or ends, or is in a call whose message the
  engine dropped. The drop is the only thing that holds `main` for ever; a
  flash under a call of `main`, the engine opening the port in the middle of
  it and a connection lost during `Connect` only delay it. This is under the
  assumptions of section 5: a flash ends with a port that opens and the
  broker is reached in the end.
* `PriorityRouteIsLeast`: `GetPriorityRoute` returns the interface of the
  default route with the least metric, the first of the list among equals,
  and an error when there is none or its interface has gone. It is a fact
  about the function, so it is evaluated in the state `main` begins in.
* `PaddingComesOff`: taking off as many bytes as the last byte of the padded
  device id says gives the device id, for every length, the multiples of 16
  included. Evaluated like the last.
* `NoCrossDelivery`: no listener is in the register under an id that an event
  of another kind is, or is about to be, raised with.
* `BuzzerStatusVouchedFor`: the buzzer status published last is `active` only
  if the STM32 answered a `BUZZER_ENABLE`, `inactive` only if it answered or
  reported a `BUZZER_DISABLE`.

### 3.2 What the runs found

1. **Ids in flight can collide** (`charles_communicator.go` 275, 282). The scan
   for used ids asserts the wrong type and finds nothing, so the allocator
   never skips. `2*msgIdControl+1` in 16 bits repeats after 32768 allocations;
   `comm_idwrap` uses 4 ids in place of 65536 to reach the wrap.
2. **A call can hang for ever** (318). A message that fails to encode, or whose
   write fails, is dropped after it has left the list; nothing will ever send
   on its caller's channel. The spec has the error returned to the caller.
3. **The engine can reopen the port during a flash** (78). Needs the updater to
   close the port between the engine's test of `ValidPort` and its `Read`.
4. **A failed update is recorded as done** (`updater.go` 99). `updateDevice`
   returns nil whatever happened and its result is not looked at; the
   announced version is recorded, and the next announcement of it is answered
   "updated" while the STM32 runs the old firmware.

Met while modelling, and reachable in the passing runs without being the
subject of a property:

* **The sweep times out one request per idle tick**
  (`charles_communicator.go` 351): `Remove` inside the loop ends it. Spec 4.6
  has the sweep visit every entry. Requests expired together are timed out
  500 ms apart; `WaitingResolves` shows that each is in the end.
* **A process without serial port hangs in `Banner`** (`utils.go` 25) when the
  supervisor is enabled: the engine does not sweep while the port is invalid,
  so the first `SendMessage` never times out. The API answers the routes that
  do not call the STM32; nothing is ever published.
* **`SetSerialNumber` can leave the EEPROM writable** (`stm32_info.go` 21-23):
  when the answer to the command that disables the protection is late, lost or
  empty, it returns without enabling it again. It reports the error; `main`
  does not look at it (`main.go` 56).
* **A request of the API during start-up can panic its handler**
  (`main.go` 43 and 46): `peripherals.CCHandler` is nil until `Setup`.
* **`InitUpdater` can leave the updater without its paths** (`updater.go`
  55, 61, 67-68): it returns before setting `localPath` and `remotePath` when
  the OS version cannot be read or the STM32 does not tell its version. With
  the supervisor disabled `SendMessage` fails at once, so this is every start
  of such a process: an announced firmware is then looked for under
  `/<target>/<environment>/<version>/` instead of `Files/...` and written to
  `/` instead of `/tmp`. The subscriptions are made all the same (`main.go`
  62-63 read only the topics, which are set first).
* **A job that could not be made is not missed** (`monitor.go` 41-78):
  `Monitor` does not look at what `RegisterFunctionToSchedule` returns.
* **`GetPriorityRoute` relies on metrics that are not negative**
  (`network_info.go` 20-23): `route.Priority` is an `int` made from the
  kernel's 32 bits, so on a 32-bit build a metric of 4294967295 is the -1
  that stands for "no route yet". The run has metrics 0 and 1.
* **A request can be timed out as soon as it is written**
  (`charles_communicator.go` 295, 298-300, 347): the message is stamped
  before the pump waits for a valid port, and the wait counts against its
  timeout. After a flash longer than the timeout the first sweep after the
  write ends the call, and the answer that comes is dropped. Spec 4.7 stamps
  at the same place.
* **A payload can set the header** (`utils.go` 21-42): `data` is written into
  the frame as it is, and the decoder takes the last value of a key, so a
  payload that holds `;message_id:7` decodes to a message with id 7.
  `RoundTrip` is about payloads without a separator.
* **`IsConnected` can answer for a name that is gone** (`socketxp.go`
  279-306): the name is read from `device.key` before the HEAD request, and
  the callback may write the file and restart the service in between.
* **The progress bar can end the process** (`updater.go` 448): a file that is
  longer when read than when `Stat` was called, or whose size is 0 and that
  has a block after all, makes the count of `strings.Repeat` negative or
  undefined. The panic is on the bar's goroutine, in the middle of the
  download, for the STM32 with the port closed. `ProgressPanics` fires in the
  run `updater`; the properties hold through the restart.

## 4. Bounds

| Constant | Value | Why it is enough |
|---|---|---|
| `Clients` | 2 | two callers interleave and their answers can cross; a third adds no new relation between a call and another |
| `MaxCalls` | 2 (1 in the liveness runs) | the second call of a caller meets the late answer to its first |
| `Calls` | GET with timeout 2, SET with timeout 1, SET with a `Long` payload | both request types, two timeouts that expire in either order, a frame that does not encode |
| `AnswerPayloads` | {`Text`} | an answer carries a payload, so that `ImplementsFacade` tells the answer's payload from the request's empty one; an answer with the empty payload is the hazard of line 383 |
| `Timeouts` | {1, 2} units | 3000 ms and 5000 ms in the code; only their order against the waits matters |
| `ReplyTimeout` | 1 | the 5000 of `SendRespMessage`, never looked at (answers are not kept waiting) |
| `CooldownTicks` | 2 | the 2 s cool-down is longer than every wait of one unit |
| `IdModulus` | 16 (4 in `comm_idwrap`) | stands for 2^16 |
| `PeerCalls`, `MaxPeerFrames` | a SET with a registered handler and a GET without; 1 frame | both branches of lines 119-121; one frame is enough for an answer to cross a timeout |
| `LineCapacity` | 1 | frames are dispatched one by one in any case |
| `MaxReadErrors`, `MaxWriteErrors` | 1 | one failure of each kind at any point of the traffic |
| `MaxFlashes` | 0 in `comm_safety`, 1 in `comm_flash` and `comm_flashport` | one flash at any point of the traffic; `comm_safety` has the failures of the port in its place |
| `BUFFER_SIZE` (framing) | 4 for 100 | the bound is reached, and passed, by frames of 3 and 4 bytes |
| `MaxBytes` (framing) | 8 | two whole frames, or an overflowing one and its recovery |
| `BUFFER_SIZE` (codec) | 62 for 100 | the header of a frame is 57 to 61 bytes; with 62 the test of line 51 is passed by some payloads of one and two bytes and failed by others |
| `Numbers` (codec) | -1, 0, 1, 2, 3, 5, 21, 255, 256, 65535 | every type, two commands, the ends of 8 and 16 bits, one past 8 bits, a negative number |
| `MaxPayload`, `MaxTokens` (codec) | 2, 4 | a payload with a separator before, after or alone; a text with `key:value`, two parts, a part with two `:` |
| `Versions` (updater) | 2 | the recorded version and another |
| `MAX_TRIALS` (updater) | 3 | the code's own |
| `MaxBlocks` (updater) | 2 | sizes 0, 1 and 2: an empty file, a file that ends with its only block, one that needs a second turn; a server that has a block more than a size of 0 or 1 announced |
| `Names`, `Secrets` (socketxp) | 2 each | a message that changes the configuration, one that changes the key only, one that changes nothing |
| `Responses` (socketxp) | error, 2xx, other | the three ways of lines 289-305 |
| `ConfigFiles` (startup) | none, one that does not load, one that disables the supervisor and has a label, one whose keys are no booleans | the three ways of `LoadConfig`, both ways of `getBoolValue`, a device id that needs no read of the flash |
| `MaxDeliveries` (startup) | 2 | a second announcement after the port was opened again, during start-up or after it |
| `OpenMayFail` (startup) | FALSE | a failed `OpenPort` after a flash leaves every later call waiting; it is a hazard of its own, checked in `updater` (`PortGivenBack`) |
| `Functions` (startup) | 3 | one function for each way a route or a job can end |
| `Boards` (startup) | 2 | the board as it leaves the factory (wired, a modem without address, a `BUILD_VERSION` line before `VERSION`), and one whose `/etc/os-release`, routes and addresses cannot be read and whose factory partition ends before the MAC: every function of `HostInfo` returns a value on one and an error on the other |
| `RouteBoards` (startup) | every list of up to `MaxRoutes` = 3 routes, each default or not, with metric 0 or 1, through interface 1, 2 or 3 of which 3 has gone; and the list that cannot be read: 1886 | the least metric first, last and in the middle, equal metrics, a metric of 0, no default route, a selected route without interface |
| `MaxData` (startup) | 33 | device ids shorter than a block, of exactly one and two blocks, and a byte longer |
| `Goroutines` (events) | 1 | one goroutine of the buzzer control between the test of the buzzer id and its use, together with main and the engine: three threads in the same race |
| `MaxPending` (events) | 1 | a new message of the STM32 is taken when the listeners of the last have run; the goroutines of one event still run in any order against main, the engine and the router |
| `Stm32Sends`, `Reports` (events) | the tamper messages and the buzzer message; "updated" for the STM32 | the handlers differ in the event they raise and in nothing else; the tamper is the one event with a listener that raises another |

Symmetry over `Clients` is used in `comm_safety` only, which checks no liveness.

## 5. Fairness

`FairSpec` assumes weak fairness of the engine and of the end of a flash:

* the engine is a goroutine in an endless loop whose every wait is bounded (a
  read with a timeout, a sleep), so the Go scheduler runs its next step;
* a flash ends: `updateDevice` runs an external program a bounded number of
  times.

In `Updater`, `FairSpec` assumes weak fairness of `Callback`, the steps of a
running callback: each is a call of a library or an external program that
returns (SFTP with its timeout, the checksum, the flashing script,
`sysupgrade`). The loop of the copy ends because a read without an error
brings a block and the file has an end (`MaxBlocks`). Nothing is assumed of
the broker. `SocketXp`, `Codec` and
`Events` check safety only and assume no fairness.

In `Startup`, `FairSpec` assumes weak fairness of `Main` and of
`OpenPortAfterFlash`:

* `main` is a goroutine that is never preempted for good, and each of its
  statements returns when it is enabled: a `SendMessage` is enabled only while
  the engine serves (that a served call returns is `WaitingResolves` and
  `QueuedIsTaken` of `comm_flash`, with the exception found by `comm_hang`),
  and `Connect` is enabled as a successful attempt, so the broker is assumed
  to be reached in the end (the loop of lines 77-85 tries for ever);
* a flash ends and its `OpenPort` succeeds.

The first is the scheduling of Go and the sweep of the engine. That the
broker is reached and that a flash ends with a port that opens are
assumptions about the environment, which the code does not guarantee:
without them `main` can stay in `Connect`, or in a call of the STM32, for
ever. Nothing is assumed of the engine's drops and reopens, of the API, the
jobs, the broker's announcements or the connection. The run does not check deadlock: a process that has ended takes
no step.

Nothing is assumed of the callers, of the STM32 (it may stay silent for ever)
or of failures. The liveness runs exclude the failures the code does not
recover from, a failed write and a failed reopen, which are the subject of the
violation run `comm_hang` and of a hazard.

## 6. Not modelled

* the memory-level interleaving of list operations and of the listener map:
  an access to a list or to the map is one step, since what a Go build does
  with `container/list` or a map under a data race is not a choice among
  outcomes that could be listed;
* the text of the progress bar; its counts are in `Updater`;
* how the board is read: opening and scanning files, netlink, the `ping`
  command; `HostInfo` has what is read as the fields of a board;
* AES itself: a ciphertext block stands for its plaintext block;
* `common.go` and `gablogger.go`: the environment copied into variables and
  the logger's configuration, both before `main`;
* `RemoveFunctionFromSchedule`, `IsMqttEnabled`, `GetSecondaryMAC`: no caller in
  the repository;
* what the paho client does with a message for a topic without a route;
* the texts themselves: a payload, a version, a name or a secret is a token or
  a model value;
* the default branch of `SendMessage` (a type other than GET and SET): no
  caller in the repository takes it;
* the insides of the libraries (paho, `net/http`, gocron, go-ini) and
  logging, `ConfigureDatadog` included;
* `TypeToString`, `CommandToString`: names for log lines, with no caller in
  the repository.

## 7. Plan

What is left, in order:

1. A run of `Events` for the listener left behind: after start-up every
   listener should be registered under the id its event is raised with; the
   race of `Get...EventId` breaks it.
2. A run of `Updater` for the order of the events: "updated" is told after
   "update fail" (`updater.go` 382). `FailureIsTold` shows the half of it the
   code keeps: a failed flash is told.
3. `Updater` composed with `Communicator` through `ClosePort` and `OpenPort`,
   in place of `FlashBegin` and `FlashEnd`.
