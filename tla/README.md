# arduino-router: verification project

TLA+ specifications of the MessagePack-RPC router, of the connections it is made
of, of the serial port it serves, of its monitor, network and HCI APIs and of the
command line client; TLC configurations that check them on small instances; and
TLAPS proofs of their main invariants for every instance. Line numbers refer to
the sources of this repository; `README.md:n` is a line of the repository's own
README.

## 1. Inventory

The program is one Go process. Clients connect over TCP, over a Unix socket or
over one serial port (the microcontroller); the router forwards their calls to
each other and serves some methods itself.

| Part | State | Operations | Meets other parts through |
| --- | --- | --- | --- |
| Router (`internal/msgpackrouter`) | `routes`, `routesInternal` | `Accept`, `connectionLoop` (`$/register`, `$/unregister`, `$/reset`, `$/setMaxMsgSize`, internal methods, forwarding) | one goroutine per connection; `routesLock` |
| Connection endpoint (`msgpackrpc/connection.go`) | `activeOutRequests`, `lastOutRequestsIndex`, `msgpBuffer`, the output stream | `Run`, `sendRequest`, `handleIncomingResponse`, `send`, `SendRequest`, `Close` | the goroutines of other connections write to it and store entries in it, under `outMutex` and `activeOutRequestsMutex` |
| Packet decoding, size limit, type conversion (`msgpackrpc`) | none / one buffer | `decodeRpcPacket`, `LimitedBuffer.Write`, `ToInt`, `ToUint` | called by the two above |
| Serial port manager (`main.go:184-280`) | `serialCloseSignal`, the port, its connection | `$/serial/open`, `$/serial/close`, the serial goroutine | `serialLock` with two condition variables; `router.Accept` |
| Device watcher (`main.go:332-375`) | the set of watched directories | `waitForPort` | called by the serial goroutine; the file system |
| Monitor API (`internal/monitorapi`) | `sockets`, a 1024-byte pipe, `bytesInSendPipe` | `mon/connected`, `mon/read`, `mon/write`, `mon/reset`, a goroutine per socket | `socketsLock`, an atomic counter, the pipe's own lock; handlers run on the goroutines of RPC connections |
| Network API (`internal/network-api`) | tables of live TCP, listener and UDP connections, UDP packet buffers | `tcp/*`, `udp/*` | one `RWMutex`; handlers as above |
| HCI API (`internal/hciapi`) | one atomic descriptor | `hci/open`, `close`, `send`, `recv`, `avail` | handlers as above |
| Command line client (`cmd/arduino-router-cli`) | none | `composeArgs`, `send`, the exit status | an RPC connection to the router |
| Startup, examples, loggers | none shared | | |

What is hard here: the goroutines of several connections work on one
connection's tables and stream; a route or a descriptor is looked up under a
lock and used after it; servers answer in any order, twice, or leave without
answering; a handler runs on the goroutine of the connection that called it, so
a handler that waits stops that connection; the serial goroutine, the handlers
and the device race; counters and buffers have limits. `PROJECT.json` lists each
such place under `hazards`, with the properties that would catch it.

What makes the parts correct: an answer reaches the call it belongs to, once; no
request falls through; an acknowledged registration is honoured and ends with
its connection; calls stay in order; limits are kept; `$/serial/close` returns
after the disconnection, and returns; a device that comes back is found; the
monitor neither loses sockets nor blocks its readers and writers for good; the
network and HCI tables neither lose a socket nor give one away twice; a call over
a connection returns its own answer; a reader stays in step with its stream.

## 2. Modules

| Module | Models | Runs | Proofs |
| --- | --- | --- | --- |
| `Router` | `router.go` and the part of `connection.go` it uses, plus `limited_buffer.go` and `errors.go` | `routing`, `registry`, `mixed` (through `MCRouting`) | `RouterProofs` |
| `RpcService`, `RouterService` | what a caller may expect; the mapping from `Router` | `routing` | `RouterProofs` |
| `SerialPort` | the handlers and the goroutine of `main.go:184-280` | with the next two | `SerialSystemProofs` |
| `PortWatch` | `waitForPort` | with the next one | `SerialSystemProofs` |
| `SerialSystem` | the two above and the device, composed | `serial`, `serial_second_close`, `port_lost` (through `MCSerial`) | `SerialSystemProofs` |
| `Monitor` | `monitor-api.go` | `monitor` (through `MCMonitor`) | `MonitorProofs` |
| `NetworkApi` | `network-api.go` | `network` (through `MCNetwork`) | `NetworkApiProofs` |
| `HciApi` | `hci-api_linux.go` | `hci` (through `MCHci`) | `HciApiProofs` |
| `Endpoint` | two ends of one connection: `SendRequest`, `send`, `Run`, `Close` of `connection.go` | `endpoint` (through `MCEndpoint`) | `EndpointProofs` |
| `PacketReader` | `decodeRpcPacket`, the loop of `Run`, `type_conversion.go` | `codec` | `PacketReaderProofs` |
| `Cli` | `composeArgs` and the exit status of the command line client | `cli` | `CliProofs` |

Operators whose comment begins with *Mutant* are deliberate errors: each stands
before the definition it replaces, and the check of the project substitutes it to
see that a property notices.

### Router

A client's packets are a growing sequence `sent[c]` with a read index `rd[c]`;
the message ID of a client's n-th packet is n, so all clients use the same IDs.
The pair `<<c, n>>` stands for the payload of a call, so that a delivered message
tells which call it carries. Sizes are one bit, `big`: too long for a limited
connection. One action is one critical section of the code: a routes-table
operation, the counter increment, the insertion into `activeOutRequests`, the
write, the removal of the entry after a failed write, the lookup-and-delete of an
answer, the write of the answer and of the short error that replaces an oversize
one, and the three steps at the end of a connection. `pc[c]` says where the
goroutine of `c` is; it reads its next packet only when it is `"idle"`, as `Run`
handles a packet to the end before it decodes the next one.

Assumptions about the environment: clients answer only requests they received
(any number of times, in any order); a write to a connected client succeeds; a
write to a client that left succeeds without effect (the kernel takes the bytes)
or fails; an error reply and a `true` are short enough for every limit (limits
are at least 128 bytes) and so are method names; internal methods answer once.

### RpcService and RouterService

`RpcService` says what the router promises to a caller, with four actions on sets
of requests, deliveries and answers: a request is served at most once and in the
order of its client, and answered at most once, with its own answer, and by the
router itself only if no server has it. `RouterService` maps what `Router`'s
clients have sent and received to these sets. The refinement `ImplementsService`
joins order, uniqueness and matching in one property; it also excludes a failure
reported for a request that a server did get.

### SerialPort, PortWatch and SerialSystem

The channels that `serialCloseSignal` takes on are numbered in the order they are
made; 0 is nil. `cpc[c]` is where a caller is inside `$/serial/close`, `spc`
where the serial goroutine is. The microcontroller itself (`Mcu`) may call both
methods while its connection runs, and its connection cannot end while it is
inside a handler: in `$/serial/close` (`"waiting"`), or in any other one
(`"away"`), from which it need not come back, because `tcp/accept`
(`network-api.go:163`), `udp/awaitPacket` without a timeout (`564`), `mon/read`
of an empty pipe (`monitor-api.go:107`) and a write that nobody reads have no
deadline. The device is absent, present but not openable (`"busy"`), or
ready. `told` is a history variable that only one documented claim mentions.

The path of the device is a chain of levels of which `0 .. present` exist; other
programs create and remove levels. A watched directory reports creations and
removals in it and its own removal. `waitForPort` searches for the nearest
existing ancestor, watches it, and then alternates between looking for the device
and taking an event. It gives up when there is no watcher to be had, the ancestor
cannot be watched, the watcher fails or the context ends; that a new directory
cannot be watched goes unnoticed (`main.go:370`).

`SerialPort` by itself lets the wait end as its caller sees it, and `PortWatch`
lets itself be called at any time. `SerialSystem` joins them step by step: a
failed `serial.Open` starts the wait in the same step, the return of the wait is
the goroutine's step, and the device exists exactly when the last level does.
Liveness is stated of the composition only, since whether a wait ends depends on
what is watched and whether a close returns depends on the wait.

### Monitor

Bytes are counted, not represented. The write of a chunk to the pipe and the
update of the counter are separate actions, as are the look at the counter, the
read from the pipe and the subtraction in `mon/read`, the steps of `mon/write`
per socket, and the two halves of `close`. The pipe (`nio.Pipe`) is external: one
writer at a time fills it as far as there is room, a reader waits while it is
empty. A write to a client that has left fails or is taken by the kernel.

### NetworkApi

A worker is an RPC connection inside a handler. The short lookups and the
sections under the write lock are single actions. The methods that change the
tables of outgoing packets hold only the read lock (`network-api.go:443`, `457`,
`482`), so they are split, `readers` says who holds the lock between two steps,
and two that are inside one map at a time may let the Go runtime stop the process
(`Crash`), as does a `tcp/connectSSL` with one parameter (`IndexPanic`). The socket a handler has looked up stays in `hand[w]` after the lock is
gone, which is how a `close` meets a `read` in another handler. A datagram has two
bytes, so that it can be read in pieces. TLS, addresses, the payloads of TCP and
the contents of errors are left out.

### HciApi

Descriptors are numbers and the kernel gives out the lowest free one, so a number
may come back as something else while a handler still holds it; the rest of the
process opens and closes descriptors too. `hciSocket` is the atomic variable;
`hci/open` is its swap, the close of the old socket, and the four system calls,
each of which may fail.

### Endpoint

Both ends of one connection run the same code: one goroutine in `Run`, others in
`SendRequest`. The stream holds `Cap` parts and a message has two, so a writer can
block in the middle with `outMutex` held. Parameters that cannot be encoded tear
a message on a connection without a limit and leave no trace on one with a limit;
so do answers that cannot be encoded (`Unanswerable`), of which the caller learns
nothing. A handler answers each request at once. Contexts may end; the connection may be
closed by either end.

### PacketReader

A stream is a sequence of tokens, one per MessagePack value or array header. The
decoder below is external: `Skip`, `DecodeInterface` and `DecodeArrayLen` as the
code uses them. `decodeRpcPacket` is compared with a definition that does not
read from left to right: a sequence is one value when headers announce exactly
what follows. The greatest signed integer is scaled down to 2, so that the
boundary between the signed and the unsigned conversions is met.

### Cli

The words after the method name are typed one by one; `composeArgs` is a
recursive function of the position, compared with a reader that keeps a stack of open groups. The
call is reduced to what `send` sees of it. Command lines that cobra refuses end
with the status 200 (`BadUsage`): the method is missing, or a word begins with a
dash and is no flag.

## 3. Runs

| Run | Instance | Shows |
| --- | --- | --- |
| `routing` | 3 clients, one server, up to 3 calls, up to 2 answers each, server may leave | `ResponseMatchesRequest`, `ImplementsService` |
| `registry` | 2 clients contend for a name, a third calls it, the contenders may leave; fair | `NoStaleRoute`, `RegistrationHonoured`, `OnlyRegistrantsServe`, `RouteMovesByOwner`, `RequestsSettle`, `RoutesReleased` |
| `mixed` | 2 clients, every packet kind, both sizes, `IdMod = 2` so that the request counter wraps | `LimitRespected`, `ForwardedInOrder`, `NoRequestLost` |
| `serial` | 2 clients and the microcontroller, which also calls other methods, 3 channels, a path of 3 levels that changes 5 times; fair | 5 invariants of `SerialPort`, `NoLostEvent`, `CloseReturns`, `OpenConnects` |
| `monitor` | 2 sockets, 2 callers, a pipe of 2 bytes, chunks of up to 2 | 5 invariants, `LeftMeansForgotten` |
| `network` | 2 callers, 4 sockets of which 2 exist at a time, 3 identifiers, 4 mixes of methods; fair | `OneHome`, `PacketIntact`, `NoByteTwice`, `StoreCompletes` |
| `hci` | 3 callers, 2 devices, 4 descriptors | `OwnsItsSocket`, `StoredIsBound`, `NoSocketLost` |
| `endpoint` | 2 ends, up to 4 calls of which some, or their answers, cannot be encoded, 2 IDs, a stream of 2 parts; fair | `ResultMatches`, `Framed`, `EntriesMatchWaiters`, `CallsReturn` |
| `codec` | every stream of up to 6 tokens, raw parameters or not | `InStep`, `MessagesRecognised` |
| `cli` | every command line of up to 6 words | `WordsUnderstood`, `StatusTells` |
| `serial_second_close`, `port_lost` | small | the documented claim is violated (section 5) |

Bounds. `Quota`, `MaxAnswers`, `Leaver`, `MaxGen`, `MaxChanges`, `MaxChunks`,
`ReadSizes`, `Calls`, `Mixes`, `MaxOpens`, `MaxPackets`, `MaxWrites`, `MaxFd`,
`Plans`, `MaxTokens` and `MaxWords` are the bounds; each is a constant named in
its module. Two callers and one server are the least with which IDs of different
clients can be confused, two pipelined calls the least with which order can be
lost, two contenders the least with which a name can change hands. Three channels
let a close, an open and a second close overlap. Three levels give a directory
that is created inside another new directory. A chunk as large as the pipe is the
case the code is in (both are 1024 bytes). Three identifiers for two sockets let
`nextConnectionID` wrap onto one in use. Three callers of the HCI API let one hold
a descriptor while two others close it and get its number. A stream that holds one
message lets both ends block in a write, and two IDs for three calls let a call
meet the entry of an older one. Six tokens hold a request with a parameter after
its header and a type, ID, name or parameter list that is itself an array; six
words hold a map inside a map, or a key that is an array. Except for `hci`, which
never stands still, the runs do not check deadlock: the instances end when the
bounds are used up, and a router with nothing to do stands still.

Fairness. `Router`: weak fairness of each connection's goroutine (Go runs every
goroutine that can run; writes and internal handlers return) and of the first
answer of a server to each request; clients need not send, leave or answer
twice. That internal handlers return is an assumption: `tcp/accept`,
`udp/awaitPacket` and `mon/read` need not, and the goroutine of a connection that
stays in one of them holds back its requests, its answers and its routes.
`SerialSystem` does not assume it: weak fairness of the serial goroutine inside
and outside `waitForPort` and of a woken caller, and strong fairness of the
failing read of a closed port, because the decoder holds finitely many requests
and so the microcontroller's connection can enter other handlers before that read
only finitely often; it need not come back from one, no device need come, and
`waitForPort` need not give up. `Monitor`: of the goroutine
of each socket only. `NetworkApi`: weak fairness of the steps of a handler that
do not depend on a peer, and strong fairness of the section under the write lock:
Go's `RWMutex` lets no new reader in while a writer waits, so a writer gets in
once the readers inside have left. It assumes that a name resolution ends and that
a caller reads its answer, both of which happen with the read lock held
(`network-api.go:457`). `Endpoint`: weak fairness of each goroutine; nobody need
call, cancel or close.

Properties of calls are stated up to the first reuse of a 32-bit ID (`NoWrap` in
`Router`, `reused` in `Endpoint`): after it, `sendRequest` gives out an ID without
looking whether it is still waiting (`connection.go:367`), the older entry is
overwritten, and an answer can reach the wrong call.

## 4. Proofs

All proofs are checked by TLAPS, for all values of the constants that satisfy the
named assumptions of the modules. Those are what the code fixes or a bound needs:
`nil` is no connection, socket or call; a call is not an end; a chunk is not longer
than the pipe; ID ranges are not empty; `Socket` and `Rpc` of `Monitor` are finite,
because its bytes are counted. Every inductive invariant below was an invariant of
a TLC run of its module before it was proved.

* `RouterProofs`. Invariants, in the order in which they build on each other:
  * `TypeInv`. `TypeCorrect` needs, beside the types, that a goroutine that
    forwards or answers has a target (`LoopInv`).
  * `RouteInv`: only a connection whose goroutine has not dropped its routes owns
    one. From it `RoutesAreLive` and `RoutesMoveByOwner`.
  * `RemapInv`: every entry of `activeOutRequests`, every request delivered to a
    server, every answer a server has sent and every answer in transit agree on
    the call, and an ID is not given out twice before the counter wraps. From it
    `ResponsesMatchRequests`, which is not inductive by itself.
  * `GrantInv` and `ToldInv`: `true` is answered only in the router's own name, to
    the request at hand, when the route is in place or the limit is set; so an
    answer already delivered is about a packet already handled. From them
    `LimitsAreRespected` and `RegistrationsHonoured`.
  * `ServeInv`: the routes, and the target that a goroutine has read and not used
    yet, lead to clients that asked for the name; from it `RegistrantsServe`,
    although lookup and write are two steps.
  * `PastCalls`: a call is delivered while the goroutine of its client still
    handles it; from it `CallsForwardedInOrder`.
  * `StageInv` and `TableInv`: which step a request is at, and that nobody else
    has an entry under the ID a goroutine has taken; with `RemapInv` they give
    `NoRequestFallsThrough`.
  * `AnswerInv`: an entry of `activeOutRequests` and an answer on its way are for a
    request that is not answered yet, a request has at most one of the two, an
    entry is for a request already handled unless its goroutine is still writing,
    and an answer is the goroutine's own or one a server has given. With `RemapInv`
    and `PastCalls` it gives `RouterImplementsService`: `Spec /\ []NoWrap` implies
    `ImplementsService`. A client's packet maps to `Ask`, `Respond` or nothing, a
    request written to a server to `Serve`, an answer written to a caller to
    `Answer`, and every other step to a stutter. `AnswerInv` is what excludes a
    second answer after a failed write, or an answer of a server to a request that
    the router has already reported as failed.
* `SerialSystemProofs`, in three parts.
  * The serial port. One inductive invariant, `SerialInv`: channels are numbered
    upwards, every waiting or woken closer has closed its channel, the goroutine
    parks only when all is quiet, and away from the top of its loop it works for a
    channel newer than those of the closers it has woken. Five theorems follow from
    it, and type correctness.
  * `waitForPort`. `CreationIsReported`: the function starts to wait only after it
    has not found the device, and while it waits the device can only appear
    through an event.
  * The two together. `SystemImplementsParts`: every behaviour of the composed
    system is one of `SerialPort` and one of `PortWatch`, so what is proved of the
    parts carries over (`SystemIsSafe`). `PartsAgreeOnDevice`: the two views of the
    device never disagree.
* `MonitorProofs`. `SocketsAreKept` and `DeadSocketsAreDropped`: inductive
  together with the types of the variables they mention. `CountInv` adds what a
  goroutine has put of its chunk and what a `mon/read` still owes to the counter:
  the counter is the bytes in the pipe, less those written and not yet counted,
  plus those read and not yet subtracted (`CounterFollows`). The sums over sockets
  and callers are cardinalities of sets of byte positions (`Uncounted`, `Owed`),
  so that no induction over a set is needed. `WriterIsDrained` and `ReadsFindData`
  follow from it.
* `HciApiProofs`. One inductive invariant, `HInv`, in three parts. `HandInv`:
  types, every handler that is about to close owns its descriptor, and a stored
  descriptor is a bound socket. `OpenInv`: an `hci/open` about to store holds a
  socket bound to its device, and a device has one socket; without it a store
  could publish an unbound one. `LostInv`: while the open calls name one device, a
  stored socket is bound to that device, so a store never overwrites another one;
  this is why no socket is lost.
* `EndpointProofs`. `EntryInv`: calls that are not over have different IDs until
  one is reused, and exactly those that wait have an entry (`WaitersHaveEntries`).
  `ShapeInv`: the parts in the stream take turns, with at most one message half
  written at the end, by the holder of `outMutex`, and one half read at the
  beginning (`MessagesFramed`). `FlightInv` and `AnswerInv`: while nothing is torn
  and no ID reused, the request or the answer of a call is in one place, in the
  stream or in the hands of `Run`, and only while the call waits for it
  (`AnswersReachTheirCalls`).
* `NetworkApiProofs`. `HeldInv`: what a handler holds at each step
  (`NetworkTypeCorrect`). `LockInv` and `OwnerInv`: the read lock is held in the
  split sections, and until two handlers meet on one packet nobody but its owner
  works on it (`PacketsStayIntact`). `DatagramInv`: a datagram is at one position
  of one inbox, or held by one `udp/awaitPacket`, or is the rest of one buffer
  (`BytesAreReadOnce`). `HomeInv`: an open socket is in the table of its kind
  under one identifier, or held by the one handler that is to enter or close it,
  and identifiers above the counter are unused until it wraps
  (`SocketsHaveOneHome`). From `HomeInv` also `IdentifierIsFound`: the loop of
  `takeLockAndGenerateNextID`, inside `Store`, ends within one turn of the counter,
  by the pigeonhole principle: identifiers in use lead to different sockets, of
  which there are fewer than identifiers (`IdModAssumption`).

Two more modules prove what a recursive algorithm computes, for inputs of any
length and nesting. The library's induction theorems take a predicate as a
parameter and cannot be used with these provers, so the induction is over sets: a
set of numbers has a least element (`LeastElement`, from the library's `WFMin`), and
hence a set that contains every position whose successors (predecessors) it
contains is the whole sequence (`FromTheEnd`, `FromTheStart`). That a recursive
function exists and obeys its equation is proved first, in the same way, because
its definition chooses a fixed point and says nothing if there is none.

* `PacketReaderProofs`. `Level(s, k)` is what is owed in front of the token k. By
  induction from the end of the stream, reading n values from i ends at the first
  place where the level has sunk by n, unless the stream ends or a token cannot be
  read before it (`Reads`); so the decoder stops behind one value exactly when
  `OneValue` holds of what it has taken, whichever of the checks of `decodeRpcPacket`
  fails and however many values it skips then (`Sound`, `ReaderStaysInStep`). For
  values that can be read each step is followed field by field
  (`ReaderRecognisesMessages`).
* `CliProofs`. By induction from the last word: once `composeArgs` has returned from
  the word i at the word j, the stack reader, in front of j, has added the value
  composed to the group that was open at i (`ValueAgrees`), or has finished the array
  or map that was open (`ArrayAgrees`, `MapAgrees`); and where one gives up, the
  other ends in an error, or in a panic. From it `WordsAreUnderstood`, and with the
  order of the steps of `main` (`StatusInv`) `StatusIsTrue`.

Only model-checked: the liveness properties `RequestsSettle`, `RoutesReleased`,
`CloseReturns`, `OpenConnects`, `LeftMeansForgotten`, `StoreCompletes` and
`CallsReturn`, because fairness is out of the prover's reach.

## 5. Where code and documentation differ

Two claims have a run that refutes them:

* `serial_second_close`: a second `$/serial/close` during the first returns while
  the port is open (`README.md:77`; `main.go:229`).
* `port_lost`: a directory created before it is watched hides the device for good
  (`README.md:72`; `main.go:353`). So does a new directory that cannot be watched
  (`main.go:370`).

The models do what the code does in these places too; each is a line of code to
read rather than a question for the model checker:

* A client may register the name of an internal method, gets `true`, and is never
  called (`README.md:25`; `router.go:172`, `261`).
* `$/serial/close` sent over the serial connection waits for itself
  (`README.md:70`; `main.go:277`); `CloseReturns` and `OpenConnects` name it.
* A port that fails, or is to be closed, while the goroutine of its connection is
  inside a handler without a deadline is neither given up nor opened again
  (`README.md:72`, `77`; `main.go:277`); `CloseReturns` and `OpenConnects` name this
  case too.
* A device that exists but cannot be opened is retried without a pause
  (`README.md:72`; `main.go:257`, `358`).
* A request whose parameter array is cut off inside its header by the end of the
  stream is handed on without parameters: the error of `DecodeArrayLen` is dropped
  (`connection.go:243`).
* `SetMaxOutgoingMessageSize` says "A value <= 0 means no limit"
  (`connection.go:114`), but goes on to install a limit of that size
  (`connection.go:119`). The router never passes such a value.
* A new identifier is compared with those of TCP connections and listeners and not
  with the UDP tables (`network-api.go:64-76`), so after the counter has wrapped a
  UDP socket can lose its identifier; `OneHome` speaks of UDP sockets only up to
  the first wrap.
* `hci/send`, `hci/recv` and `hci/avail` use a descriptor they have loaded before,
  which may have been closed and given to something else
  (`hci-api_linux.go:140-146`).
* `tcp/connectSSL` accepts one parameter and then takes the second, which panics
  and ends the router (`network-api.go:333`, `342`).
* What `udp/beginPacket` and `udp/write` have stored survives `udp/close`, and a
  `udp/write` under the same identifier adds to it (`network-api.go:482`);
  `PacketIntact` speaks of packets that their caller has begun. No mix of the run
  has `udp/close` beside these methods; the theorem `PacketsStayIntact` covers it.
* The command line client panics on a map whose key is an array or a map
  (`cmd/arduino-router-cli/main.go:186`).

Exceptions that the passing properties name, and that a reader of the code should
know: a `$/serial/open` right after a `$/serial/close` leaves the close waiting
(`CloseReturns`); a serial connection that stays inside a handler keeps closes
waiting and the port from being opened again (`CloseReturns`, `OpenConnects`); callers of a server that leaves are never answered
(`RequestsSettle`); `SendRequest` is not told that the connection ended, and two
ends that fill both directions of a stream wait for each other (`CallsReturn`);
the caller is not told either when `send` drops an answer that cannot be encoded
(`CallsReturn`, `connection.go:445`); a
cancelled call leaves its entry behind until the late answer
(`EntriesMatchWaiters`); `mon/read` may wait when it overlaps with another one or
with bytes not yet counted (`ReadFindsData`); a monitor client that left stays in
the map while the pipe is full (`LeftMeansForgotten`); two overlapping `hci/open`
calls of different devices can lose a socket (`NoSocketLost`).

## 6. Not modelled, and the plan

Not modelled:

* Startup and shutdown, flags, listeners and the after-ready command
  (`main.go:40-183`, `282-330`): they run once, in order, and share no state with
  the parts above.
* Loggers and the debug stream: they copy bytes and messages and change nothing.
* Examples and the dump tool: demonstration programs; the clients of `Router` and
  the ends of `Endpoint` stand for whatever they do.
* The byte count of `LimitedBuffer` and sizes that the router never sets; a
  message is too big or it is not.
* Time: deadlines are set and cleared in `Monitor` and `NetworkApi`, and a call
  with a deadline may end, but no property speaks of how long anything takes. Two
  calls that share a socket share its deadline: a `mon/write` that finds one
  client, or a `tcp/read` without a timeout, clears the one another call has set
  (`monitor-api.go:146`, `network-api.go:279`).
* Memory: nothing bounds the requests waiting for one server
  (`connection.go:369`), and the number of parameters a header announces is
  allocated before any of them is read (`connection.go:247`).

Of the plan only the liveness proofs are left, which these provers cannot reach.
Three theorems prove the part of them that is a matter of states: a port that is
served can be told to close (`ServingIsStoppable`), a `mon/read` can make room for
a goroutine that waits to write (`WriterIsDrained`), and a handler that holds the
lock finds an identifier (`IdentifierIsFound`).
