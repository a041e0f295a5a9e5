# Verification of easy_socket

TLA+ models of easy_socket, checked with TLC, and theorems about them, proved
with TLAPS. All paths are relative to the root of the repository. The models
follow the Linux build (`SocketLinux`); where `SocketWin` behaves differently in
the life of a TCP Socket, `StreamSocket` and `ServerSocket` follow both.

## The system

easy_socket is a C++ wrapper around BSD sockets. It has one thread and no queue
of events: the application calls `update()` in a loop, `update()` polls the
descriptor with `select()`, and every report runs the application's handlers
inside the library function that made it. A handler may call the library again.

| Part | State | Operations |
|---|---|---|
| `Socket` (`src/Socket.cpp`) | the state object, `connections`, timeouts, `addrTemp`, `addrUdp`, the handlers | `connect`, `listen`, `send`, `close`, `shutdown`, `create`, `update`, `closeConnection`, `closeAllConnections`, `on` |
| `SocketState` and its subclasses (`src/SocketState.cpp`) | the type, and when it was entered (`start`, `last`) | `update`: poll a connect, receive, accept, time out |
| `SocketBase`, `SocketLinux`, `SocketWin` | the descriptor, the protocol, the last error | `create`, `close`, `connect`, `bind`, `listen`, `accept`, `send`, `recv`, `checkConnected`, `emitError` |
| `Buffer` (`src/Buffer.cpp`) | bytes, their number, who owns them | `write`, `copy`, `slice`, readers and writers of values in both byte orders |
| `Ref` (`src/Common.h`) | a count | `retain`, `release` |
| `SockAddr`, UDP and multicast calls | the address objects `addr` and `addrUdp`; binding and memberships of the kernel | `sendto`, `recvfrom`, `addMembership`, `dropMembership`, `getSockAddr` |

How they interact: `Socket` calls its implementation (`impl`) and its state
object; both call back, the implementation through `ISocketBaseEvent`
(`onError`, `onClose`, `onListening`, `onConnection`, `onConnect`), the state
object through `setState`, `recv`, `accept`, `emitError`. `setState` deletes the
state object, also the one whose `update()` is running. A listening `Socket` owns
the Sockets it accepted and updates them from its own `update()`.

What is hard is therefore re-entrancy and lifetime: a function goes on after a
report with a descriptor, a state object or an iterator that a handler may have
replaced, deleted or moved. On top of it come the kernel (a handshake ends
between any two steps, errors are read once), the clock (two timeouts), and the
partial failures of a sequence such as close, open, connect. Nothing is
persisted and nothing runs in parallel, except the two ends of a connection. `PROJECT.json` lists these hazards
line by line with the properties that cover them.

## The modules

| Module | Models | Abstract from |
|---|---|---|
| `StreamSocket` | one TCP `Socket` in the connecting role, or made by `accept`, with its state object, implementation, descriptor, timeouts | bytes, addresses, `socket_type` |
| `SocketLifecycle` | what `StreamSocket` promises: the order of the visible states, and that a failed descriptor is closed | everything else |
| `ServerSocket` | a listening `Socket`, its vector of connections, their release, `addrTemp`, its destructor | how one connection receives (that is `StreamSocket`) |
| `ConnectionPool` | what `ServerSocket` promises: how connections come, stay within the limit, are closed and are released | everything else |
| `StreamTransfer` | the bytes between a client and an accepted connection: two library ends and the kernels between them | re-entrancy (that is `StreamSocket`) |
| `ByteChannel` | what one direction of `StreamTransfer` promises: a byte stream in order, complete before its end | everything else |
| `UdpSocket` | a datagram `Socket`, its address objects, binding and memberships | payloads, ports |
| `DatagramLifecycle` | what `UdpSocket` promises: the order of the visible states, one binding per descriptor, memberships that last as long as it | everything else |
| `EventEmitter` | the vectors of handlers: `on` and nested `emit` | what handlers do besides |
| `Buffer` | the byte array, its bounds, byte orders, the transfer between hosts | the C types (only widths matter) |
| `MCBuffer` | `Buffer` with the symmetry of its buffers, for TLC | |
| `StreamSocketProofs`, `ServerSocketProofs`, `StreamTransferProofs`, `UdpSocketProofs`, `EventEmitterProofs`, `BufferProofs` | theorems about the module they are named for | |

How they fit together: `StreamTransfer` starts where `StreamSocket` has reported
sConnected at both ends; `ServerSocket` sees of a connection only whether it is
closed, what `StreamSocket` follows in detail; every report of these modules is one
`emit()`, which `EventEmitter` takes apart; the `Buffer` of a report is that of
`Buffer`.

**Control.** `StreamSocket`, `ServerSocket` and `UdpSocket` make the call stack
explicit. A library function is one step up to its next report; the rest of the
function is a frame on `stack`, below the frame of the handlers. For example
`emitError` (`src/SocketBase.cpp:198`) pushes `Handler("sError")` on
`Closing(TRUE)`: the handlers run, and when they return the `close(true)` comes.
While a handler frame is on top, the application may call again (`HandlerCalls`,
`ServerCalls`, `ConnCalls`, `MessageCalls`, `OtherCalls`); when the stack is empty,
the main loop calls a method (`MainCalls`) or `update()`. `CloseImpl` stands for
`SocketLinux::close`, `SocketBase::close` and `Socket::onClose` together, in their
order: the descriptor is gone, then the state is sClose, then the handlers run.

**State object.** `state` is its type, `elapsed` the seconds since its `start` or
`last`. `updating` says whether an `update()` of a state object is on the stack and
whether `setState` has deleted that object since.

**Descriptor.** `sock` is what the kernel knows of it. In `StreamSocket`
`"refused"`, `"timedout"` and `"unreachable"` are failed handshakes whose error
nobody has read; `getsockopt(SO_ERROR)` and a second `::connect` read it. Select
and recv have their documented results for each of these states (`CanBeWritable`,
`CanBeUnwritable`, `RecvResults`).

**Windows.** The variable `windows` of `StreamSocket` is chosen in `Init` and never
changes. There a failed handshake does not make the descriptor writable
(`src/SocketBase.cpp` passes no exception set to select) and `checkConnected` is
the base's, which always passes. `ServerSocket` counts the `WSAStartup` of
each implementation in `inited`.

**A server's stack.** `update()` walks the vector (`Walk`, `AfterUpdate`),
`closeConnection` and `closeAllConnections` release what they close (`CloseTail`,
`CloseAll`, `AllTail`), and the destructor closes and releases all connections
after its own implementation (`ImplGone`, `Dismantle`, `Gone`). `alive` are the
connection Sockets that exist; an address in it is not given out again.

**Datagrams.** Each call of `UdpSocket` asks `checkProtocol` (`Lookup`) and, for
another protocol than the descriptor's, goes through `create()` first: its second
half waits as a request in an `Opening` and then a `Running` frame. `addr` and
`addrUdp` are the address objects of the implementation and of the Socket with
the family of their first use. `addrInfo` is the result of the last lookup: a
handler that calls again inside a `create()` replaces it, and the outer `listen()`
binds to the replacement.

**Undefined behaviour.** In `ServerSocket` a frame that would come back to a deleted
connection, or to a place of the vector that holds another one (`Sound`), is not
followed: `Resumes` keeps its action from happening. In `EventEmitter` the same holds
for an emit whose iterator is stale. The calls that lead there are made.

**Bytes.** In `StreamTransfer` a message is a range of byte numbers, so that a gap,
a repetition or a swap shows. `net[e]` is what both kernels hold for end `e`. The
client is non-blocking (`create` sets it so), the accepted end blocks.

**Histories.** `closeDue` (a failed descriptor whose sClose is due), `lost` (an
open descriptor was overwritten), `polled` (connections this `update()` has
polled), `undermined` (a call has edited a server's vector at or before the place of
a pending frame, or released its connection), `fields` (values a buffer should
hold), `believed`, `families` and `misdirected` (what a datagram Socket's
application was told, which families it used, what went astray), `offered`, `sent`,
`received`, `confirmed` and `ended` (the bytes and results of a connection), `room`
and `seen` (how many handlers the memory an emit began in has room for, and which
it has called) record what the properties speak of. They influence nothing, except
that `offered` numbers and bounds the bytes, and that after a call that sets
`undermined` handlers make no further ones.

**Assumptions on the application.**

* `update()` is called from the main loop only, as in `src/README.md` and
  `src/main.cpp`, and Sockets are deleted there only.
* In `ServerSocket` connections are used as `accept` made them: the application
  does not call their `connect` or `listen`, and does not use a pointer to one after
  its sClose. Handlers of the server and of connections may otherwise call
  anything. Run `server` alone limits the handlers of a connection to closing
  Sockets, because it asks what a server does that is never undermined, and leaves
  `listen` in handlers to `server_edits`.
* In `UdpSocket` `setUdp` and `setCheckIpv6Only` are called right after
  construction, as in `src/main.cpp`, and addresses are numeric. Handlers of every
  event may call anything.
* In `StreamTransfer` the application ignores SIGPIPE, so that a send to a
  connection that is gone returns an error.
* In `Buffer` offsets and lengths are not negative and no end precedes its start.

Definitions named `Faulty...` or `Late...` are not part of any model: each is a plausible bug
which the runs are shown to detect.

## The runs

| Run | States | Shows |
|---|---|---|
| `reentrant` | 249,256 | Handlers that connect, create, close and send, three frames deep: the type invariant, `FdMatchesState`, `FailureEndsInClose`, `ReportedErrorIsSet`, `ConnectedMeansChecked`, `ConnectResolves` hold, on Linux and on Windows, and `LifecycleUntilLoss`: the Socket keeps to `SocketLifecycle` up to the step that overwrites an open descriptor, if there is one. |
| `disciplined` | 5,244 | Handlers that close, send and set the idle timeout: in addition `NoDescriptorLost`, `NoStaleVisit`, `CleanupHitsFailedDescriptor`, `CallsReturn`, `RefusalEndsInClose`, and the refinement `LifecycleSpec`. |
| `stale_visit` | | Finding: an sData handler that calls `connect` on its Socket defeats the test at `src/SocketState.cpp:89`. |
| `unestablished` | | Finding: sConnected without a connection. |
| `server_edits` | 1,420,533 | Handlers of all reports close connections, take them out of the vector and call `listen`, four frames deep. Until a call undermines a frame, none comes back to a freed connection or a wrong place (`NoDanglingFrame`), the vector owns what is alive, one walk polls each connection once. `UnderminedIsFatal`: no call outside this limit is survived, so the limit is exact. A connection is released only closed, in every case. |
| `server` | 101,695 | A server that nobody undermines: `addrTemp` is not shared, WinSock outlives every implementation, and the server implements `ConnectionPool`, so that `maxConnections` holds and a closed connection is released in the end. |
| `transfer` | 104,816 | Both directions implement `ByteChannel`; `send()` is true only for whole messages; a blocking send returns; a close is noticed at the other end. |
| `udp` | 3,421,413 | With handlers of every event that call anything: bindings and memberships that were reported exist until a descriptor is overwritten; with one family of addresses, datagrams and answers reach whom they name; a receive error ends in sClose; the Socket follows `DatagramLifecycle` up to such a loss. |
| `udp_mixed` | | Finding: with both families a datagram goes to the address of an earlier call. |
| `emitter` | 232,573 | `on` at any time, also for the event being emitted: an emit loses its iterator exactly when its own vector outgrows its memory, and calls each handler once, in order, as long as it does not. |
| `buffer` | 71,855 | No store leaves the allocation, the terminator stays, and values keep the byte order of their writer, and are read back, through copy, slice and transfer between hosts of different endianness. |
| `buffer_end` | | Finding: `end` of `slice` is exclusive, the comments call it the last element. |

### Findings

1. `stale_visit` (`src/SocketState.cpp:96`). The comment above the `isClosed()`
   test says that the state object may be deleted in `recv()`; the test catches a
   handler that closes, not one that calls `connect` on the still connected Socket:
   `setState` (`src/Socket.cpp:148`) deletes the running object, the Socket is
   sConnecting and not closed, and `update()` writes `last` in freed memory.
   `disciplined` and theorem `NoVisitIsStale` show that the test is enough for
   handlers that open nothing.
2. `unestablished` (`src/SocketLinux.cpp:334`, `src/Socket.cpp:148`). Every
   SO_ERROR but two counts as success, and a `::connect` that fails at once
   leaves the Socket in sConnecting, which the next poll turns into sConnected.
   `ConnectedMeansChecked` and `RefusalEndsInClose` say what does hold.
3. `buffer_end` (`src/Buffer.cpp:115`). Comment and code disagree on `end`.
4. `udp_mixed` (`src/SocketBase.cpp:164`). The address object keeps the family of
   its first use; an address of the other family does not go into it, `setIp` only
   logs that, and `sendto` uses the old address and succeeds. `SentToPeer` and
   `ReplyReachesSender` say that one family of addresses is enough to be safe.

### Bounds, and why they are enough

* `Protocols = {4, 6}`: all answers of `checkProtocol`, so that every call may
  find the other protocol.
* `MaxFrames`: handlers call nothing above this depth. With 3 in `StreamSocket`, a
  handler runs inside an error path inside `update()`, and calls `create`, whose
  sClose handler calls again. Handlers that open nothing nest at most as deep as 6
  frames. With 3 in `UdpSocket`, an sError handler runs above the two closes that a
  failed receive owes and makes calls; with two of these frames gone, the sClose
  handler of such a call calls again, inside its `create()`. With 4 in
  `server_edits`, a handler inside `update()` calls `closeConnection`, and so does the
  sClose handler of that. In `server` the 20 is never reached. The theorems hold for
  every value.
* `ConnectTimeout = 2`, `IOTimeout = 1`: a poll before, at and after expiry.
  `elapsed` stops counting where both have expired.
* `Conns` of four addresses and `MaxConnections = 3` in `server`: the vector can be
  full, erased at its start, middle and end, and an address can be used again. Three
  addresses in `server_edits`, which are used again as well: a place before, at and
  after that of a pending frame.
* `Hosts4` of two addresses and `Hosts6` of one in `udp`: one to be meant and one to
  be met by mistake, and a second family to change to. One group, as memberships do
  not interact.
* `Capacity = 2`, `MaxMessage = 3`, `MaxBytes = 4`: a message that fits, one that is
  cut or blocks, and a second one behind it, in both directions at once.
* `EventEmitter`: two events, four handlers, three emits deep: a vector that grows
  by one or by two, with and without room for the next handler, under two emits of
  one event and one of the other.
* `Byte = {0, 1}`: bytes are only moved, so two suffice to tell them apart.
  `MaxLen = 3` with two-byte values gives fields at every edge, fields that overlap,
  and stores that are cut. The wider values use the same definitions, and the
  theorems hold for them. Offsets and counts go up to `MaxLen`, past the end of
  every shorter buffer. The run `buffer` has invariants only, so the symmetry of
  `MCBuffer` is sound for it; `server` has a liveness property and uses none.

### Fairness

`StreamSocket` and `ServerSocket`: `WF(Continue)`: the processor runs library code
that has been entered. `SF(HandlerReturn)`: a handler ends, whatever it calls before
it does. `SF(Update)`: the main loop comes back to `update()`, as in
`src/README.md`, whatever else it calls in between. `WF(Tick)`: time passes.
Nothing is assumed of the kernel: a handshake may stay unanswered for ever, which
is the case `ConnectResolves` is about. A handler of sClose that opens and
closes again reports sClose to itself, and nothing in the library ends that
recursion, so `CallsReturn` is for `disciplined`.

`StreamTransfer`: `WF(Queue \/ QueueFails)` per end: a kernel with room for the next
byte of a blocked send takes it, one whose connection was reset fails the send.
`SF(Update)` per end: each main loop comes back to `update()`, also one that sends
again and again. The client's never waits in a send, and this is what makes
`BlockedSendReturns` hold: two ends that both block can wait for each other for
ever, as the mutant `FaultyBlocking` shows.

`UdpSocket`, `EventEmitter` and `Buffer` have no liveness property and no fairness.

Three runs turn off the deadlock check: `transfer`, where nothing is left to do when
both ends have closed, and `server_edits` and `emitter`, where a frame that would use
a freed connection or a stale iterator is not followed. Elsewhere the main loop can
always poll or call.

## The proofs

All theorems hold for all values of the constants and assume only what the
`ASSUME`s of the modules say of them, besides the assumptions named below.

| Module | Theorem | States |
|---|---|---|
| `StreamSocketProofs` | `TypeCorrect`, `DescriptorMatchesState`, `FailureIsClosed`, `ErrorIsSet`, `ConnectedIsChecked` | the safety invariants of `reentrant` |
| | `NoDescriptorIsLost`, `NoVisitIsStale`, `CleanupIsPrecise` | those of `disciplined`, if handlers neither connect nor create |
| | `KeepsLifecycleUntilLoss` | `LifecycleUntilLoss`, whatever handlers call: every step up to the first loss of a descriptor is one of `SocketLifecycle` or a stutter |
| | `KeepsLifecycle` | if handlers neither connect nor create, `LifecycleSafety`: every step is |
| | `HandshakesAreWatched`, `RefusalIsKept` | whatever handlers call, `HandshakeIsWatched` and `RefusalIsNotLost`: the error of a refused handshake is taken only by a step that closes the Socket, makes its close due, or loses the descriptor |
| | `CallsGetNearer` | under the same assumption, `CallsDescend`: every step of library code brings the call nearer to its return |
| `ServerSocketProofs` | `TypeCorrect`, `BoundKept`, `ReleaseAfterClose` | the type invariant, `NotAboveMax` (there are never more than `maxConnections`) and `DeletedOnlyWhenClosed`, whatever handlers call |
| | `FramesStaySound`, `VectorOwns`, `ScratchFree`, `WalkPollsOnce`, `WinSockStarted` | `NoDanglingFrame` and the other safety invariants of `server_edits` and `server`, whatever handlers call, until a call undermines a frame |
| | `ImplementsPool` | the safety part of `PoolSpec` up to such a call: every step is one of `ConnectionPool` or a stutter |
| `StreamTransferProofs` | `TypeCorrect`, `TrueIsWhole` | the invariants of `transfer` |
| | `ImplementsToServer`, `ImplementsToClient` | the safety part of `ChannelSpec`: each direction implements `ByteChannel!Safety` |
| | `ConfirmedIsReceived` | `ConfirmedArrives`: an end that is told the stream is complete has received, in one piece, every message for which `send()` returned true |
| | `NeverBothWait` | `NoMutualWait`: a send that waits for room waits for an end that is in its main loop with bytes to read |
| `UdpSocketProofs` | `TypeCorrect`, `BeliefHolds`, `SendsToPeer`, `RepliesToSender`, `FailureCloses` | the invariants of `udp` |
| | `KeepsLifecycleUntilLoss` | `LifecycleUntilLoss`: every step up to the first overwritten descriptor is one of `DatagramLifecycle` or a stutter |
| | `NothingLost` | if handlers of sError and sClose call only `close` and `getIp`, no descriptor is ever overwritten and every step is one of `DatagramLifecycle` or a stutter |
| `EventEmitterProofs` | `TypeCorrect`, `IteratorsStale`, `HandlersCalledOnce` | the invariants of `emitter` |
| `BufferProofs` | `TypeCorrect`, `TerminatorKept`, `LayoutPromised`, `ReadBack` | the invariants of `buffer`, for values of every width |

**StreamSocket.** `FdMatchesState` is not inductive: in
the connect that follows a `create`, the state may be set to sConnecting without
looking at the descriptor. `FdInv` adds that a `Connecting` frame is on top of
the stack, where nothing can run before it, with its descriptor just opened.
`FailureEndsInClose` needs to know why the close must come: `CloseDueInv` says
that while it is due the descriptor is open, a close frame waits on the stack, and
no `create()` is between its close and its open, so that whichever close comes
first pays the debt. `ReportedErrorIsSet` and `ConnectedMeansChecked` are inductive
relative to these. The disciplined invariant adds where frames can be: `update()`
and an unfinished `create()` are at the bottom of the stack (`AtBottom`), because
only the main loop calls them; an unfinished `create()` has no descriptor
(`OpenInv`); and while an `AfterRecv` or a `Closing(TRUE)` frame waits, nothing that
opens is on the stack, so that the state object and the descriptor are as they were
left or closed (`RecvInv`). `KeepsLifecycleUntilLoss` needs no such assumption: a step
that is not one of `SocketLifecycle` would open a descriptor over an open one,
and that sets `lost`. With the assumption nothing is ever lost, and `KeepsLifecycle`
follows. `CallsDescend` orders the states inside a call by the creates that have
yet to open, then the open descriptor, then the frames (`Opens`, `Holds`, `Depth`):
closing costs the descriptor, so an sClose handler that closes again finds none.
It is the safety core of `CallsReturn`; that it implies return also takes the
fairness, which stays with TLC. In the same way `RefusalIsKept` is the core of
`RefusalEndsInClose`: `checkConnected()` is not the only one to read the error of a
failed handshake, a second `::connect` does too, but by `HandshakeIsWatched` it is
made in sConnecting, where `Socket::connect` returns at once, or with the close already
due; and with `FailureIsClosed` that close comes.

**ServerSocket.** `Inv` has two parts. `Basics` holds whatever is called: the types, the
limit, and `ClosedInv`, by which a frame that releases a connection finds it
closed; these give the three unconditional theorems. `Safe` holds until a call sets
`undermined`. Its `Shape` says which frames can lie on which (`Over`): the places of
frames grow towards the top, since a call at or before a pending place undermines
it; a `CloseTail` lies above no frame of its own connection; `CloseAll` and `AllTail`
lie above no frame with a place or a connection; the frames of `update()` and of the
destructor are at the bottom; and what is about to look at the vector is on top.
`FrameOK` says what each frame counts on: its connection is alive and at its place,
`polled` is what the walk has passed, and while something releases connections one
by one those alive are the ones from its place on; otherwise they are those of the
vector. Erasing a place above all pending ones moves none of them, and this is the
heart of the proof. The bound of `ConnectionPool` counts what is alive, the code what
is in its vector: between two calls they are the same (`VectorOwns`).

**StreamTransfer.** `Wires`: what an end has received followed by what is on its
way is the beginning of what the peer's kernel accepted, and all of it as long as
the end is open and not reset; a reset end has a closed peer. `Ledger`: the
accepted bytes of a blocked send are the last ones accepted, and confirmed messages
lie in the stream in one piece. `Ending`: receiving has ended exactly at closed
ends. That end-of-stream is reported after everything else is the first of these at
the moment of `AtEnd`. `Completed` keeps that moment: an end whose stream was
complete has received exactly what the peer's kernel accepted, and the peer accepts
nothing any more; with `SendTrueIsWhole` this is `ConfirmedArrives`. `Waits`: only the
server's end is ever inside a blocked send, so its peer is free, and nothing is on
its way to a closed end, so a full buffer is one that its end can read.

**UdpSocket.** `SocketOK` relates the address objects, `addrInfo`, the binding and the
beliefs to the families counted so far: an object that exists was made for a counted
family, so that with one family every address fits every object. What the
application believes (`Believable`) is kept until a descriptor is lost. `FrameOK`
carries the same for pending requests: their address, the lookup they will bind to,
and the protocol their descriptor is opened for. `Shape` says that a request runs at
the top only, and that while the close after a failure is due it waits at the bottom
and no descriptor is being opened, so that whichever close comes first, a handler's or
the library's, pays the debt. `Undisturbed` says that with one family nothing but a
close lies above a `listen()` that waits for its descriptor: it found the Socket
closed, so its `create()` reports nothing and no handler replaces its `addrInfo`.
`KeepsLifecycleUntilLoss` follows step by step: what is no step of
`DatagramLifecycle` opens over an open descriptor. For `NothingLost`, `QuietInv` adds
that an unfinished `create()` has no descriptor and only closes and quiet handlers
above it.

**EventEmitter.** `FrameOK`: an emit whose vector has not moved has the memory it began
with, and before it the handlers it called; any other emit's vector moved because
its handlers no longer fitted that memory, and there are more of them ever since
(`Outgrown`).

**Buffer.** `Sound` (the allocation is exactly the length and the terminator) and
`Laid` (every field lies in its buffer as its writer promised) are shown to survive
each operation on one buffer, for symbolic widths and offsets, and then for the heap.
Reading back follows from `Laid` by the same permutation of bytes that wrote.

**Only model-checked**: `UnderminedIsFatal`; every liveness property and the fairness part of
the `LifecycleSpec` of `StreamSocket`, of `PoolSpec` and of `ChannelSpec` (the prover has no liveness under fairness), so
`ConnectResolves`, `CallsReturn`, `RefusalEndsInClose`, `Releases` of
`ConnectionPool`, `BlockedSendReturns`, `CloseIsNoticed` and `Delivers` of `ByteChannel`.

The properties `NotAboveMax`, `ConfirmedArrives`, `NoMutualWait`, `CallsDescend`,
`HandshakeIsWatched` and `RefusalIsNotLost` are proved and in no run: each is implied
by a run's property or is the safety core of one.

## Not modelled

* The destructor of the application's own client Socket (that of a server is).
* The reference counts of a report's `Buffer` and `UdpData`: the library holds one
  reference while the handlers run; no handler of the repository keeps one.
* `SocketWin` beyond what `windows` and `inited` stand for: its `send` and `recv`
  are those of Linux with other error codes. `StreamTransfer` has the accepted end
  of Linux, which blocks; on Windows it inherits the listener's non-blocking mode
  and sends like the client's end.
* Socket options; `getaddrinfo`, which is an arbitrary answer in `StreamSocket` and
  the family of a numeric address, or a failure, in `UdpSocket`.
* Ports, the text of addresses, logging.
* The classes of `src/main.cpp`: they are the source of what main loops and handlers
  call, and an example otherwise.
* Negative offsets, lengths and `maxConnections`; re-entrant `update()`; `delete` of a
  Socket in a handler.
* What a program does after it has used a deleted connection, an invalid iterator of
  `connections`, or a stale iterator in `emit`: this is undefined, and the models stop
  there. `UnderminedIsFatal` shows for `ServerSocket` that no defined behaviour is cut
  off by it.
* Connections that the application opens again or makes listen.
* `select` and `FD_SET` on the descriptor -1: taken to find nothing.
* A second `::connect` after a handshake that has ended, which on Linux returns 0 once:
  it is an error in the model. No property depends on it.

## Plan

Done: all modules above, with the safety properties of every module and the safety
part of every refinement proved. Left:

1. Proofs: that a walk of `ServerSocket` ends, by a variant like that of
   `CallsDescend`, as the safety core of `Releases`; the same for the calls of
   `UdpSocket`.
2. The owners of the reports' `Buffer` and `UdpData`, with handlers that retain them.
3. Accepted descriptors on Windows, which inherit the listener's mode, in
   `StreamTransfer` (both ends non-blocking).
4. Changes of `setCheckIpv6Only` in the life of a Socket, with the `addrInfo` that an
   earlier lookup left.
5. Connections that a handler connects or lets listen, in `ServerSocket`, and the
   descriptors of a server that listens again inside its destructor.
