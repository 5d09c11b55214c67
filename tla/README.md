# Verification of the ThreadPool repository

The repository holds two systems: a TCP server around a thread pool
(`Version1/`, whose `Server.cpp` is repeated byte for byte in `Version_2/`),
and PacketForge (`PacketForge_V1/`), a packet protocol with a one-client server
application, a client, and the classes below them. This directory holds TLA+
models of both, the TLC runs that check them, and TLAPS proofs of their safety
properties and of the refinements between them.

Paths are relative to the repository root. `PF` stands for `PacketForge_V1`.

## 1. The system

### 1.1 The threaded server (`Version1/src/Server.cpp`)

| component | state | operations | interacts with |
|---|---|---|---|
| class `ThreadPool` | queue `tasks` (bounded by `maxQueueSize`), `stop`, `queueMutex`, `condition`, the worker threads, `requestCounter` | constructor (spawn), worker loop, `enqueue`, `getRequestNumber`, destructor | `main` constructs it and enqueues; tasks run in the workers |
| `main` | the listening socket, the accepted socket of the current turn | accept, enqueue, refuse and close | pool; clients |
| `processClient` | the socket captured by the task, `buffer`, `requestId` | recv, take a number, send, close | one client; the pool's counter |
| clients (`Client.cpp` of either version) | one socket | connect, send, receive, close | the server |

Hard here: the condition variable (lost and spurious wakeups, a notification
outside the mutex, stop racing with sleep), the bound under several producers,
the drain in the destructor, who closes a socket, an `accept()` whose result is
not looked at.

### 1.2 PacketForge (`PacketForge_V1/`)

| component | state | operations | interacts with |
|---|---|---|---|
| `Socket` (`src/network/socket.cpp`) | `socket_` | create, bind, listen, accept, connect, close, move | the kernel |
| `Connection` (`src/network/connection.cpp`) | a `Socket`, `connected_` | open, connect, accept, disconnect, move | `Server`, `Transport` |
| `Server` (`src/server/server.cpp`) | a `Socket`, `running_`, `port_` | start, stop, accept, move | `Connection` |
| `Transport` (`src/network/transport.cpp`) | a `Connection` | send all, receive exactly n, move | `PacketIO` |
| `PacketIO` (`src/protocol/packet_io.cpp`) | a reference to a `Transport` | send, receive (header, payload, decode) | `Encoder`, `Decoder` |
| `Encoder`, `Decoder`, `Endian`, `Packet` | none / the packet's fields | encode, decode, byte order | `PacketIO` |
| `OpcodeDispatcher` | none | dispatch | server application |
| server application (`apps/server_main.cpp`) | the objects of `main`, `shutdownRequested`, `exitCode` | start, accept, receive, dispatch, send, wait, clean up | all of the above; SIGINT; one peer |
| `Client`, client application | a `Transport` | connect, send, receive, disconnect | the server |
| `Config`, `ConfigValue`, `ConfigLoader` | a map | load, get, set, clear | nothing yet |
| `Buffer`, `Error`, `Logger`, `Handler` | a byte vector / none | | nothing that keeps state |

Hard here: moves of objects that own a descriptor, failures halfway through
`start()`, `connect()` and `accept()`, SIGINT between any two steps, a peer that
stops in the middle of a packet, closes or resets, and the many ways out of
`main()` that must share one cleanup.

What makes each component correct is stated by the properties in section 4;
`hazards` in `PROJECT.json` lists, line by line, what can go wrong and which
property covers it.

## 2. The modules

| module | models | kind |
|---|---|---|
| `TaskPool` | what the pool promises: a bounded FIFO queue of tasks, without threads | abstract specification |
| `ThreadPool` | class `ThreadPool` with its threads, mutex and condition variable | detailed; implements `TaskPool` |
| `ThreadPool_proofs` | theorems about `ThreadPool`: locking, wakeups, stop and drain, `ExactlyOnce`, it implements `TaskPool` | proofs |
| `PoolServer` | `main` and `processClient` with any clients, on top of `TaskPool` | composition (`Pool == INSTANCE TaskPool`) |
| `PoolServer_proofs` | theorems about `PoolServer` and `VersionClients`: owners of connections, replies, request numbers, what the clients get | proofs |
| `Sockets` | `Socket`, `Connection`, `Server` and the kernel's view of the descriptors | component |
| `Sockets_proofs` | theorems about `Sockets` | proofs |
| `PacketChannel` | what PacketIO promises: packets, whole and in order, until the connection breaks | abstract specification |
| `Framing` | `PacketIO` over `Transport` over a byte stream | detailed; implements `PacketChannel` |
| `Framing_proofs` | theorems about `Framing`: it stays in step and implements `PacketChannel` | proofs |
| `ServerApp` | `server_main.cpp` with any peer and SIGINT, on top of `Sockets` | composition (`Sock == INSTANCE Sockets`) |
| `ServerApp_proofs` | theorems about `ServerApp`: objects, shutdown, answers and exit status | proofs |
| `ClientPrograms` | nine programs of `apps/` and `Client` as that peer | composition (EXTENDS `ServerApp`, implements it) |
| `ClientPrograms_proofs` | theorems about both programs together | proofs |
| `VersionClients` | the two `Client.cpp` as the clients of `PoolServer` | composition (EXTENDS `PoolServer`) |
| `Codec` | `Packet`, `Endian`, `Encoder`, `Decoder` and the cutting of a stream by `PacketIO`, byte by byte | component |
| `Codec_proofs` | theorems about `Codec`: the round trip, what is accepted, the length of a packet | proofs |
| `ConfigLoader` | `ConfigLoader`, `Config`, `ConfigValue` | component |
| `ConfigLoader_proofs` | theorems about `ConfigLoader` | proofs |
| `MC…` | the instances TLC checks | |

Definitions marked `Fault:` are plausible bugs. No specification uses them;
each shows that some property would notice the bug when it replaces the action
it sits above (`mutants` in `PROJECT.json`).

### 2.1 ThreadPool

`wpc`, `ppc`, `opc` are the program counters of workers, producers (callers of
`enqueue`) and the owner (constructor and destructor). A step lies between two
points at which another thread can see a difference:

| code (`Server.cpp`) | actions |
|---|---|
| 57 `unique_lock` | `WorkerLock` |
| 60-63 `wait` with its predicate | `PredicateFalse`, `Block` (release and sleep in one step), `SpuriousWakeup`; back to `WorkerLock` |
| 66-67 | `WorkerExit` |
| 70-73 front, pop, unlock | `WorkerProceed`, `Pop` |
| 81 `task()` | `FinishTask` |
| 98-116 `enqueue` | `EnqueueCall`, `EnqueueLock`, `EnqueueReject` or `EnqueueRoom`, `EnqueuePush`, `EnqueueNotify` |
| 37-89 | `Spawn` |
| 127-145 | `BeginDestroy`, `DestroyLock`, `SetStop`, `NotifyAll`, `JoinWorkers` |

`condition` is the set of workers at `"wait"`. `notify_one` wakes any one of
them. The predicate is evaluated as one step, under the mutex. C++ permits calls
of `enqueue` only while the object lives, hence `opc = "open"` in `EnqueueCall`
and the idle producers in `BeginDestroy`. In this program `main` is the only
producer and never destroys the pool; the class does not depend on that, and the
model allows several producers and a destructor. Tasks are assumed not to throw.

### 2.2 PoolServer

The pool is the abstract `TaskPool`, which `ThreadPool` has been shown to
implement. A client stands for a connection and for the task that captures its
socket; one more task stands for a failed `accept()` whose result `-1` is
enqueued all the same. `Main` is the accept loop, `HandlerStep` is
`processClient`. A client sends messages, which one `recv` may merge, and
leaves by closing or by aborting; writing to an aborted connection raises
SIGPIPE and ends the server.

### 2.3 Sockets

One action is one call of a member function, whole. `fd` is the member
`socket_` of every object, `kernel` says what each descriptor really is, so
that ownership (`fd`) can be compared with the truth (`kernel`). Transport and
Client hold a Connection and move by moving it. System calls may fail freely.

### 2.4 ServerApp

`pc` runs through `main()`; the objects are the `Server`, the local
`Connection` and the `Connection` inside the Transport. The peer sends its
packet in pieces (nothing, the header, everything), closes or resets. A packet
is one of: valid HelloRequest, other opcode, wrong magic number, wrong version,
a length that cannot be allocated. `Sigint` may happen before any step. glibc's
`signal()` installs handlers with SA_RESTART, so blocking calls resume.

### 2.5 Framing

One direction of a connection. `Send` encodes a packet, `KernelTakes` is one
`send(2)` that takes any part of the rest, `RecvSome` and `RecvLast` are one
`recv(2)` that returns any part of what is wanted; the last one of a packet also
decodes it and returns, since nothing of that can be seen from outside.
`buffer` holds what the receive call in progress has read, header first; what
`recv` is asked for is computed from it, as the two calls of
`Transport::receive` do. A cell stands for several bytes: one cell for magic
number and version, one for the length, one per unit of payload. Payloads look
like headers, so that a receiver out of step is misled and not merely stopped.
The sender may end in the middle of a packet. A reset leaves the receiver a
beginning of what was sent, which it can still read; then `recv` reports the
reset once (`RecvFails`), and after that reads a close, as Linux does it. A
`send` on a lost connection may still succeed.

### 2.6 ClientPrograms

Nine programs under `apps/` run against the real server: the client, the
integration test, the remote-close, shutdown, dispatch-failure, protocol-error,
receive-failure, response-send-failure and shutdown-before-send (`gap035`)
clients. They differ in which calls they make and in what order, so a program is
its script, a sequence of calls (`connect`, `send`, `receive`, `half_close`,
`linger` for a close that resets, `enter`, `disconnect`, and calls on a
connection that is closed), and the actions are the calls, with every way each
can fail. The server is `ServerApp` as it stands; its peer's actions are
replaced by those of the program. `Down` says, from the server's state, whether
the client's end is closed or refused. Where it depends on the moment whether
the system reports a close or a reset, the program may see either. Its process
may be killed at any point; closing with the answer unread resets.

### 2.7 ConfigLoader

A line of a configuration file is what `trim` and the search for `=` make of
it. One action is one turn of the `getline` loop; `StopReading` may come before
the end of the file because `load` does not tell a read error from the end.

### 2.8 VersionClients

The server is `PoolServer` with its own actions; the clients are the programs of
`Version1` and `Version_2`, any number of either. The first makes each call once
and looks at no result: a failed `connect` makes `send` raise SIGPIPE, a failed
`read` makes the length of a string of -1, which throws. The second checks, and
sends in a loop; the server may read, and answer, the pieces one by one. Both
take the first answer and close; with another one unread that is a reset.
`EINTR` only repeats a call. Clients may be killed at any point.

### 2.9 Codec

A packet is built by setters on a host of one byte order (`Set`), encoded
(`EncodePacket`, or `EncodeThrows`), possibly changed on its way as
`packetforge_malformed_packet_client.cpp` does (`ByteDiffers`, `EndsEarly`) and
more (`MoreFollows`), and read on a host of either order, once by
`Decoder::decode` and once out of a stream by `PacketIO::receive`. `Image` and
`Load2`, `Load4` are the memory of the host (`memcpy`, the object
representation), `Swap16` and `Swap32` the shifts of `endian.cpp`. The number of
values of a byte is a constant, so that the widths of the fields, and the length
that does not fit its field, keep their place at a size that can be enumerated;
`Radix2`, `Radix3` and `Radix4` are the number of values of two, three and four
bytes.

## 3. Fairness

* `ThreadPool!Fairness`: each thread that can run does (WF on its steps); the
  mutex is eventually granted to a thread that finds it free again and again
  (SF on the lock actions): `std::mutex` does not promise it by its
  specification, the futex lock below it under a preemptive scheduler gives it.
  `FinishTask` is fair because the liveness properties are about tasks that end.
  `EnqueueCall`, `BeginDestroy` and `SpuriousWakeup` are not fair.
* `VersionClients!ClientsSpec`: the steps of the server's threads and of each
  client that has connected. Clients are not obliged to connect, and being
  killed is not fair. No assumption that clients leave is needed: the two
  programs do. `AcceptClient` is strongly fair because `accept()` takes the
  waiting connections in their order.
* `ServerApp!FairSpec`: weak fairness of the program's own steps only. The
  peer, SIGINT, ENTER and a failing `accept()` are never obliged to happen.
* `Framing!Fairness`: a `send` in progress goes on while there is room, a
  `receive` in progress goes on when there is something to report, and the
  application keeps calling `receive` (the last is an assumption about the
  application; the two programs of the repository call it once).
* `ClientPrograms!ProgramsSpec`: both programs' own steps; not ENTER, SIGINT,
  the kill of the client, or failures.

## 4. The runs

| run | instance | what it shows |
|---|---|---|
| `pool` | 3 workers, 2 producers, 3 tasks, queue of 2, without symmetry | the safety properties of `ThreadPool`; every step of its threads is a step of `TaskPool` or none; the destructor returns; the fair pool implements the fair abstract one, so that accepted tasks run |
| `pool_server` | 3 clients and a failed accept, 2 workers, queue of 1 | who holds a connection, request numbers, replies, refusals |
| `version_clients` | 2 real clients of either version and a failed accept, 1 worker, queue of 1 | every connection is closed and every client gets its answer; only a client that sends in pieces can end the server |
| `sockets` | 3 connections, 2 servers, 4 descriptors, symmetry | ownership of descriptors |
| `server_app` | 3 descriptors, all packets, all peers, one SIGINT | answers, exit statuses, cleanup, shutdown |
| `framing` | three packets, possibly rejected by the decoder, through buffers of four cells | receiver and sender stay in step; every receive returns; the stream is a channel of packets |
| `client_programs` | nine real programs with the real server | the exit statuses of both ends agree, closed connections are not reached, nobody waits for ever, the programs are peers of `ServerApp` |
| `codec` | every packet over bytes of one bit, both byte orders, up to two changes | what is written is read; only encodings are accepted; `PacketIO` and `Decoder` agree on lengths |
| `config_loader` | all files of up to three lines | the last assignment wins, no error is skipped |
| `server_app_cleanup` | as `server_app` | finding 1 |
| `server_app_protocol_exit` | as `server_app` | finding 2 |
| `config_overflow` | files of one line | finding 3 |

The bounds are small and the interesting cases are in them: 3 workers and 2
producers with a queue of 2 make the queue full and empty, leave workers asleep
while others are on their way, let a notification meet no sleeper, and let
producers race for the last place; a third task makes a producer come back.
Three connections are a source, a target and a bystander of a move; two servers
a source and a target; with 4 descriptors an operation can find all of them
taken. The server application has one client, one packet and at most one
effective SIGINT by its own construction, so that its run is the whole state
space up to the names of descriptors; the same holds of `client_programs`.
In `framing`, four cells hold one packet and the beginning of the next, so a
`recv` meets every cut, the sender blocks on a full buffer, and three packets
give a rejected packet a predecessor and a successor. Three lines are the least
with an assignment, something between, and a second assignment. In
`version_clients` one worker and a queue of one are filled by a failed accept
and one client, so that the other is refused or waits; two messages are the
least with which a message goes out in pieces. In `codec` the radix is 2: every
opcode, flag and version occurs, the magic number is not its own mirror image,
and the length field counts to 15, with a payload of 15 bytes and one of 16,
which the encoder must refuse. Two changes make a header both of a wrong length
and of a wrong magic number.

### Findings

1. `server_app_cleanup`: comments in `server_main.cpp` (53-55, 462-463) and the
   shutdown contract say that every exit path reaches the centralized cleanup.
   An allocation failure in `Transport::receive` and SIGPIPE in
   `Transport::send` end the process without it.
2. `server_app_protocol_exit`: the error handling document (GAP-003) gives exit
   status 0 to a protocol error that was answered; the code (326) gives 1.
3. `config_overflow`: the configuration framework (section 23) demands an error
   for a numeric overflow; `parseValue` (98) stores the numeral as a string.

## 5. The proofs

All theorems hold for every value of the constants that the named assumptions
permit:

| assumption | it permits |
|---|---|
| `ThreadAssumption`, `TaskAssumption` | any finite number of workers (one at least) and producers, any set of tasks, any queue limit |
| `TokenAssumption` | any clients and failed accepts that are not each other, any size of pool and queue |
| `ObjectAssumption`, `PortAssumption` | any objects, descriptors and ports other than 0 |
| `AppAssumption` | any descriptors, any port other than 0 |
| `PacketAssumption`, `CapacityAssumption` | any packets, valid or not, any number of them, a buffer of one cell or more |
| `CodecAssumption` | bytes of two values or more (256 in the code), any magic number, version, sequence ids and payloads that fit their fields |
| `TextAssumption` | any keys and texts, of which some read as booleans, integers, or integers that are too large; files of any length |

`MaxSent`, `MaxMessages`, `MaxLines` and `MaxChanges` bound what TLC enumerates; the theorems
hold for each value of them.

**Locking (`ThreadPool_proofs`).** `TypeOK` is not inductive: that `Pop` leaves
`tasks` a sequence and `wtask` a task needs `PopFindsTask`, which survives the
steps of others only because of `MutualExclusion`; `QueueBound` survives
`EnqueuePush` only because the producer still holds the mutex under which it saw
room. `LockInv` is the conjunction of them with `BlockJustified` (a worker about
to block has nothing to do). Theorems: `TypeCorrect`, `MutexProtects`,
`QueueIsBounded`, `PopIsSafe`. No run repeats `MutualExclusion`,
which is proved here and on which `PopFindsTask` and the refinement depend, nor
`QueueBound`: `TaskPool` accepts a task only while it has room, so the
refinement checked by `pool` implies it.

**Wakeups (`ThreadPool_proofs`).** While a worker sleeps, `NoLostWakeup`
bounds the queued tasks by those who will still look at the queue: workers that
are awake and producers that have pushed and not yet notified. With `LockInv` it
is inductive as a counting argument: a push adds a task and a producer about to
notify; a notification turns that producer into an awake worker, or meets no
sleeper to wake; a pop takes one task and one awake worker; a worker goes to
sleep only under the mutex with the queue empty (`BlockJustified`).
`StopReachesSleepers` needs `StopPhase`, which ties `stop` to the place of the
destructor. `DestructorDrains` holds because a worker exits only when the queue
is empty and nothing is pushed after `stop`. Theorems: `WakeupsAreNotLost`,
`StopIsNoticed`, `DestructorIsComplete`.

**Refinement (`ThreadPool_proofs`).** `ExactlyOnce` says that a task
is in one place: with a producer, in the queue, at a worker, done or refused.
`Holders` and the lemmas on `Append` and `Tail` follow a task from place to
place. `StepAbstract` then shows, action by action, that each step of the
threads is the corresponding step of `TaskPool` or leaves the mapped variables
alone; that `Pop` finds room to run (`RoomToRun`) is where the number of workers
is the `Parallelism` of the abstract pool. Theorems: `TasksRunOnce`,
`AcceptedIsKept` (an action property), `PoolRefines` (the safety part of the
refinement).

**Connections of the threaded server (`PoolServer_proofs`).** Four invariants.
`HandsInv`: a task, and with it the socket it captured, is in one of the queue,
a handler, `main`, the finished and the refused ones, and where it is decides
whether its descriptor is open (`LinkFollows`); that a queue has no element
twice is carried by lemmas on `Append` and `Tail`. `AccountInv` balances, for
every client, what it has sent against what is unread, being answered, and
answered; a second reply to a client that is gone is what kills the server.
`NumberInv`: the number a handler holds is larger than all it has sent and is
nobody else's, whatever happens between `getRequestNumber` and `send`. `PeerInv`
is what a client can conclude from its end. Theorems:
`ConnectionsHaveOneOwner`, `RepliesAreAsked`, `NumbersAreUnique`,
`BusyIsTheOnlyReply`.

**The clients of that server (`PoolServer_proofs`, last part).** Every step of a client
program is a step that `PoolServer` allows its clients, or leaves the server's
variables alone (`ClientsAreClients`), so that the four invariants hold with
them. `ClientInv` adds, per client, what its next call may return;
`DownIsRefused` is the step that matters: under a client that is still there,
the server closes only a connection that it has refused, and has told so.
Theorems: `WholeMessagesAreHarmless`, `ClientsAreAnswered`.

**Descriptors (`Sockets_proofs`).** `Ownership`, the conjunction of the type
invariant and the state properties, is inductive as it stands, and no part is
without the others: a close keeps `ConnectedIsStream` of other Connections only
because of `UniqueOwner`, and `UniqueOwner` survives a creation only because a
free descriptor has no owner. Theorems: `OwnershipHolds`, `OwnersAreUnique`,
`NothingLeaks`, `ConnectedIsTrue`, `RunningIsTrue`, `OthersAreUndisturbed`.

**Server application (`ServerApp_proofs`).** Three invariants, each tied to the
place in `main()`. `ObjectsInv` says which object exists, and which of them holds
the client's descriptor, at each place: the moves from the local connection into
the Transport are in it, so that `cleanup` finds the descriptor wherever it is.
`LateInv` lists the places at which a call may have returned after SIGINT: each
is followed by a look at the flag. `AnswerInv` carries the packet, the result of
`receive`, the answer and the exit status along the program. Theorems:
`EveryEndIsReleased`, `CleanupKeepsOrder`, `AppImplementsSockets` (each step is
an operation of `Sockets` on these objects or none), `ShutdownIsBounded`,
`ExitStatusIsTruthful`, `AnswersMatch`.

**Both ends (`ClientPrograms_proofs`).** `PeerInv` relates a client program's
place in its script to the state of the connection and to what has arrived; with
it each call of the nine programs is a step of the peer of `ServerApp`
(`ProgramsArePeers`), so that what is proved there holds with them
(`ServerTheoremsHold`). `RefusedInv` follows `isConnected()` past the first close
(`ClosedCallsAreRefused`). For the exit statuses, `ServerInv` says when a server
has `Finished`, which `FinishedStays` shows to be for good, and `DownIsFinished`
that a client which sees its connection closed looks at such a server: what it
concludes from a failed call stays true. `OutcomeInv` then ties the client's
progress to the server's answer: a program past its `receive` has the answer, one
whose call failed has a server that will never answer, and only programs that set
SO_LINGER reset. Theorem: `StatusesAgree`.

**Framing (`Framing_proofs`).** The stream is a concatenation of encodings
(`Bytes`), a fold over a sequence. What it is for every sequence goes by
induction over a *set* of numbers: `Induction`, proved from the fact that every
nonempty set of numbers has a least element, needs no operator as a parameter.
`SyncInv` says that there is a rest that is still to be sent such that what the
receiver holds, what is in the stream, and the rest, joined, are the encodings of
the packets that are to come. Every cut of the stream moves cells between the
three. Theorems: `ReceiverStaysInSync`, `PacketsArriveInOrder`,
`NoPacketAfterFailure` (an action property, from `FailureIsFinal`: once a reset
is reported nothing is left to be read). For the refinement, the packets in the channel are
as many of the undelivered ones as `Fits` in the cells that have left the sender,
and `Count` is the largest such number; the lemmas on both show that it grows by
one exactly when the last cell of a packet goes, and shrinks by one when one is
returned. A reset cuts the stream anywhere, and the packets that still fit are
those that the abstract channel keeps. `Remainder`, that no more is unsent than
the packet being sent has, gives one packet at a time to the channel. Theorem: `ChannelRefines` (the safety part of `ImplementsChannel`).

**Configuration (`ConfigLoader_proofs`).** `LoadInv`: while the lines are read,
the map is the one that the last assignment to each key so far makes, and no
line so far was malformed. Theorems: `LoadReturnsLastAssignments`,
`LoadSkipsNoError`.

**The wire format (`Codec_proofs`).** `Codec` is small in its states and large in
its data: the work is in what its operators compute, and the invariant
(`CodecInv`: types, and that unchanged bytes are the encoding) only carries it to
the reader. The multiplications are kept away from the solver by lemmas on
quotient and remainder (`Division`, `Remainder`, `Below`, `High`), from which a
number of two or four bytes has digits and back (`Of2Digits`, `Of4Digits`,
`IsOf2`, `IsOf4`). On digits `Swap16` and `Swap32` are reversals (`SwapDigits`),
and the byte order of a host cancels against the conversion: both kinds of host
write, and read, the most significant byte first (`WritesWire`, `ReadsWire`).
`HeaderIs`, `EncodingIs` and `ReadsAll` put the fields in their places.
`DecodesEncoding` is then the round trip, `AcceptedBytes` its converse, for any
bytes whatever, and `CutsThePacket` that `PacketIO` and the `Decoder` read one
length. Theorems: `RoundTripHolds`, `AcceptedBytesAreEncodings`,
`FramingAgreesWithDecoder`.

Only model-checked:

* liveness, and refinement under fairness, which need ENABLED and are out of the
  prover's reach: `DestructorReturns`, `ImplementsFairTaskPool`, `ShutdownEnds`,
  `EveryConnectionEnds`, `ReceiveReturns`, `NobodyWaitsForEver`, and the fairness
  in `ImplementsChannel`.

## 6. Not modelled

See the notes in `PROJECT.json` `components`. In short:

* output, formatting, and characters of configuration lines;
* the set-up of the listening socket of the threaded server, whose `bind` and
  `listen` are not checked: when they fail, `accept()` fails, which is modelled;
* the wrap of `requestCounter` after 2^31 - 1 requests, and tasks that throw;
* the 64-bit conversions of `Endian`, which nothing calls;
* `Buffer` and `Handler`, which nothing uses, `Error` and `Logger`;
* the two send-failure test programs, in which one thread plays both ends of a
  connection in a fixed order, with SIGPIPE ignored: they have one behaviour,
  and the failing `send` is in `Framing` and `ServerApp`;
* unit tests, scripts and build files.

## 7. Plan

1. Both directions of a connection over `Framing`, with `ServerApp` on top.
