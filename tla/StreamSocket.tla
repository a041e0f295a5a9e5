---------------------------- MODULE StreamSocket ----------------------------
(***************************************************************************)
(* A TCP Socket in the connecting role, or one made by accept(), down to   *)
(* the kernel descriptor: Socket (Socket.cpp), its SocketState object      *)
(* (SocketState.cpp) and its implementation (SocketBase.cpp, and            *)
(* SocketLinux.cpp or SocketWin.cpp).                                      *)
(*                                                                         *)
(* The library has one thread, and its difficulty is re-entrancy: every    *)
(* report (sConnected, sData, sError, sClose, sTimeout) calls a handler of *)
(* the application in the middle of a library function, and the handler    *)
(* may call the Socket again.  The call stack is therefore explicit.  A    *)
(* library function runs in one step up to its next report; what it still  *)
(* has to do afterwards is a frame, with the handler's frame on top of it. *)
(* The kernel and the clock move between any two steps.                    *)
(*                                                                         *)
(* Handlers and the main loop are external, with one assumption: update()  *)
(* is called by the main loop only, as in README.md and main.cpp.  Such a  *)
(* Socket has no connections of its own, so the second half of             *)
(* Socket::update does nothing here.  Names starting with Faulty are       *)
(* deliberately wrong variants, for mutation testing of the properties.    *)
(***************************************************************************)
EXTENDS Integers, Sequences

CONSTANTS
  Protocols,       \* the answers checkProtocol can give: 4, 6 or either
  MainCalls,       \* the methods the main loop calls besides update()
  HandlerCalls,    \* the methods the application's handlers call
  ConnectTimeout,  \* connectTimeoutSecs of the application's Socket
  IOTimeout,       \* the value passed to setIOTimeout
  MaxFrames        \* bound: handlers make no call above this stack depth

Calls == {"connect", "create", "close", "send", "setIOTimeout"}

ASSUME ProtocolsAssumption == Protocols \subseteq {4, 6} /\ Protocols # {}
ASSUME CallsAssumption == MainCalls \subseteq Calls /\ HandlerCalls \subseteq Calls
ASSUME TimeoutAssumption == ConnectTimeout \in Nat /\ IOTimeout \in Nat
ASSUME FramesAssumption == MaxFrames \in Nat

VARIABLES
  windows,         \* the implementation is SocketWin, not SocketLinux
  state,           \* type of the SocketState object held by Socket::state
  elapsed,         \* seconds since the `start` or `last` of that object
  updating,        \* the object whose update() runs: "none", "live", "deleted"
  sock,            \* the kernel's view of the descriptor; "none" is -1
  protocol,        \* SocketBase::protocol
  errorCode,       \* SocketBase::errorCode
  internalError,   \* SocketBase::internalError
  connectTimeoutSecs,
  ioTimeoutSecs,
  stack,           \* the pending frames, innermost first
  closeDue,        \* history: the descriptor failed and its sClose is due
  lost             \* history: an open descriptor was overwritten

implVars == <<sock, protocol, errorCode, internalError>>
stateVars == <<state, elapsed, updating>>
config == <<windows, connectTimeoutSecs>>     \* fixed when the Socket is made
vars == <<stateVars, implVars, config, ioTimeoutSecs, stack, closeDue, lost>>

StateTypes == {"sClose", "sDisconnected", "sConnecting", "sConnected"}

\* "refused", "timedout" and "unreachable": a failed handshake whose error
\* SO_ERROR still holds.  "unconnected": no handshake, or its error was read.
SockStates == {"none", "unconnected", "handshaking", "established",
               "refused", "timedout", "unreachable"}

Errnos == {"ECONNREFUSED", "ETIMEDOUT", "EOTHER"}
Events == {"sConnected", "sData", "sError", "sClose", "sTimeout"}

MaxElapsed == IF ConnectTimeout > IOTimeout THEN ConnectTimeout ELSE IOTimeout

(***************************************************************************)
(* Frames.                                                                 *)
(***************************************************************************)
Handler(ev)    == [op |-> "handler", ev |-> ev]         \* the handlers of ev
Closing(err)   == [op |-> "close", hasError |-> err]    \* impl->close(err)
Opening(p, c)  == [op |-> "open", protocol |-> p, thenConnect |-> c]
Connecting     == [op |-> "connect"]     \* connect() after its create()
AfterRecv      == [op |-> "afterRecv"]   \* Connected::update after recv()
UpdateEnd      == [op |-> "updateEnd"]   \* the return of update()

Frames == [op : {"handler"}, ev : Events]
     \cup [op : {"close"}, hasError : BOOLEAN]
     \cup [op : {"open"}, protocol : {-1, 4, 6}, thenConnect : BOOLEAN]
     \cup [op : {"connect", "afterRecv", "updateEnd"}]

TopIs(op) == stack # <<>> /\ Head(stack).op = op

MayCall(call) ==
  \/ stack = <<>> /\ call \in MainCalls
  \/ TopIs("handler") /\ call \in HandlerCalls /\ Len(stack) <= MaxFrames

(***************************************************************************)
(* Socket::setState.  The old state object is deleted, also when it is the *)
(* one whose update() is running.                                          *)
(***************************************************************************)
NewState(t) ==
  /\ state' = t
  /\ elapsed' = 0
  /\ updating' = IF updating = "live" THEN "deleted" ELSE updating

SetState(t) ==
  IF state = t THEN UNCHANGED stateVars ELSE NewState(t)

SetError(code, internal) ==
  /\ errorCode' = code
  /\ internalError' = internal

(***************************************************************************)
(* SocketLinux::close with SocketBase::close and Socket::onClose: the      *)
(* descriptor is gone before the sClose handlers run, and a second close   *)
(* does nothing.                                                           *)
(***************************************************************************)
FaultyCloseImpl(rest) ==   \* sock = -1 only after the handlers have run
  /\ sock # "none"
  /\ SetState("sClose")
  /\ closeDue' = FALSE
  /\ stack' = <<Handler("sClose")>> \o rest
  /\ UNCHANGED <<implVars, lost>>

FaultyQuietClose(rest) ==  \* SocketBase::close does not reach the delegate
  /\ sock' = "none"
  /\ stack' = rest
  /\ UNCHANGED <<stateVars, closeDue, protocol, errorCode, internalError, lost>>

CloseImpl(rest) ==
  /\ \/ /\ sock = "none"
        /\ stack' = rest
        /\ UNCHANGED <<stateVars, sock, closeDue>>
     \/ /\ sock # "none"
        /\ sock' = "none"
        /\ SetState("sClose")
        /\ closeDue' = FALSE
        /\ stack' = <<Handler("sClose")>> \o rest
  /\ UNCHANGED <<protocol, errorCode, internalError, lost>>

\* SocketBase::emitError: the sError handlers, then close(true).
FaultyEmitError(rest) == <<Handler("sError")>> \o rest
EmitError(rest) == <<Handler("sError"), Closing(TRUE)>> \o rest

(***************************************************************************)
(* Socket::connect once the descriptor is known to exist.  The kernel may  *)
(* finish at once, start a handshake, or refuse; a refusal leaves the      *)
(* Socket in sConnecting.                                                  *)
(***************************************************************************)
StartConnect(rest) ==
  \/ /\ state = "sConnecting"
     /\ stack' = rest
     /\ UNCHANGED <<stateVars, implVars>>
  \/ /\ state # "sConnecting"
     /\ UNCHANGED protocol
     /\ \/ /\ sock = "unconnected"
           /\ sock' = "established"
           /\ NewState("sConnected")
           /\ stack' = <<Handler("sConnected")>> \o rest
           /\ UNCHANGED <<errorCode, internalError>>
        \/ /\ sock = "unconnected"
           /\ sock' = "handshaking"
           /\ NewState("sConnecting")
           /\ stack' = rest
           /\ UNCHANGED <<errorCode, internalError>>
        \/ /\ sock # "none"
           /\ sock' = IF sock \in {"established", "handshaking"} THEN sock
                                                             ELSE "unconnected"
           /\ NewState("sConnecting")
           /\ stack' = rest
           /\ SetError("EOTHER", "InternalNone")
        \/ /\ sock = "none"
           /\ NewState("sConnecting")
           /\ stack' = rest
           /\ SetError("none", "SocketInvalid")
           /\ UNCHANGED sock

(***************************************************************************)
(* The application's calls, from the main loop or from a handler.          *)
(***************************************************************************)

FaultyCreate(p, thenConnect) ==    \* without the close() that comes first
  /\ stack' = <<Opening(p, thenConnect)>> \o stack
  /\ UNCHANGED <<stateVars, implVars, closeDue, lost>>

\* Socket::create up to the first report: its own close, then
\* SocketLinux::create with a close of its own.
Create(p, thenConnect) ==
  CloseImpl(<<Closing(FALSE), Opening(p, thenConnect)>> \o stack)

CallConnect ==
  /\ MayCall("connect")
  /\ \E p \in Protocols :
       \/ /\ state = "sClose" \/ p # protocol
          /\ Create(p, TRUE)
       \/ /\ state # "sClose" /\ p = protocol
          /\ StartConnect(stack)
          /\ UNCHANGED <<closeDue, lost>>
  /\ UNCHANGED <<config, ioTimeoutSecs>>

CallCreate ==
  /\ MayCall("create")
  /\ \E p \in Protocols \cup {-1} : Create(p, FALSE)
  /\ UNCHANGED <<config, ioTimeoutSecs>>

\* Socket::close, and Socket::shutdown, which shuts the stream down first.
CallClose ==
  /\ MayCall("close")
  /\ CloseImpl(stack)
  /\ UNCHANGED <<config, ioTimeoutSecs>>

\* Socket::send changes nothing here unless the kernel reports an error; it
\* neither closes the Socket nor reports sError.
CallSend ==
  /\ MayCall("send")
  /\ state = "sConnected"
  /\ IF sock = "none" THEN SetError("none", "SocketInvalid")
                      ELSE SetError("EOTHER", "InternalNone")
  /\ UNCHANGED <<stateVars, sock, protocol, config,
                 ioTimeoutSecs, stack, closeDue, lost>>

CallSetIOTimeout ==
  /\ MayCall("setIOTimeout")
  /\ \E sec \in {-1, IOTimeout} : ioTimeoutSecs' = sec
  /\ UNCHANGED <<stateVars, implVars, config, stack, closeDue, lost>>

(***************************************************************************)
(* The frames that continue a library function.                            *)
(***************************************************************************)
HandlerReturn ==
  /\ TopIs("handler")
  /\ stack' = Tail(stack)
  /\ UNCHANGED <<stateVars, implVars, config, ioTimeoutSecs,
                 closeDue, lost>>

DoClose ==
  /\ TopIs("close")
  /\ CloseImpl(Tail(stack))
  /\ UNCHANGED <<config, ioTimeoutSecs>>

\* create(-1) keeps the protocol of the implementation.
FaultyResolve(p) == p
Resolve(p) == IF p = -1 THEN protocol ELSE p

\* The rest of SocketLinux::create: the result of ::socket is assigned to
\* sock, whatever sock held, and Socket::create goes to sDisconnected.
DoOpen ==
  /\ TopIs("open")
  /\ protocol' = Resolve(Head(stack).protocol)
  /\ lost' = (lost \/ sock # "none")
  /\ \/ /\ sock' = "unconnected"
        /\ SetState("sDisconnected")
        /\ stack' = IF Head(stack).thenConnect
                      THEN <<Connecting>> \o Tail(stack)
                      ELSE Tail(stack)
     \/ /\ sock' = "none"
        /\ stack' = Tail(stack)
        /\ UNCHANGED stateVars
  /\ UNCHANGED <<errorCode, internalError, config, ioTimeoutSecs,
                 closeDue>>

DoConnect ==
  /\ TopIs("connect")
  /\ StartConnect(Tail(stack))
  /\ UNCHANGED <<config, ioTimeoutSecs, closeDue, lost>>

\* SocketStateConnected::update after recv(): return if the Socket was
\* closed, else restart the idle time.  If the object was deleted meanwhile,
\* the write goes to freed memory; no effect of it is modelled.
FaultyVisitsObject == TRUE     \* without the isClosed() test after recv()
VisitsObject == state # "sClose"

DoAfterRecv ==
  /\ TopIs("afterRecv")
  /\ stack' = Tail(stack)
  /\ elapsed' = IF VisitsObject /\ updating = "live" THEN 0 ELSE elapsed
  /\ updating' = "none"
  /\ UNCHANGED <<state, implVars, config, ioTimeoutSecs,
                 closeDue, lost>>

DoUpdateEnd ==
  /\ TopIs("updateEnd")
  /\ stack' = Tail(stack)
  /\ updating' = "none"
  /\ UNCHANGED <<state, elapsed, implVars, config, ioTimeoutSecs,
                 closeDue, lost>>

Continue == DoClose \/ DoOpen \/ DoConnect \/ DoAfterRecv \/ DoUpdateEnd

(***************************************************************************)
(* Socket::update, called by the main loop.  In sClose and sDisconnected   *)
(* the state object's update() is empty.                                   *)
(***************************************************************************)
Expired(timeout) == timeout > 0 /\ elapsed >= timeout

\* SocketBase::canWrite, external: select() on the descriptor.  WinSock shows
\* a failed handshake in the set of exceptions, which canWrite() leaves out.
CanBeWritable(s) ==
  IF windows THEN s = "established" ELSE s \notin {"none", "handshaking"}
CanBeUnwritable(s) ==
  windows \/ s \in {"none", "handshaking", "established", "unconnected"}

\* SocketLinux::checkConnected: only two errors count as a failed connect.
\* Reading SO_ERROR clears it; getsockopt itself may also fail.  SocketWin
\* keeps the checkConnected of SocketBase, which never fails.
FaultyCheckPasses(s) == s # "timedout"     \* ECONNREFUSED is forgotten
CheckPasses(s) == windows \/ s \notin {"refused", "timedout"}
CheckErrors(s) == {"EOTHER"} \cup (IF s = "refused" THEN {"ECONNREFUSED"}
                                   ELSE IF s = "timedout" THEN {"ETIMEDOUT"}
                                   ELSE {})
ErrorRead(s) == IF s = "established" THEN s ELSE "unconnected"

FaultyRecordError(e) == UNCHANGED <<errorCode, internalError>>
RecordError(e) == SetError(e, "InternalNone")

UpdateConnectExpired ==
  /\ stack = <<>> /\ state = "sConnecting"
  /\ Expired(connectTimeoutSecs)
  /\ state' = "sDisconnected"
  /\ elapsed' = 0
  /\ updating' = "deleted"
  /\ closeDue' = (sock # "none")
  /\ stack' = <<Closing(FALSE), UpdateEnd>>
  /\ UNCHANGED <<implVars, config, ioTimeoutSecs, lost>>

FaultyConnectPending ==    \* the start time is taken anew at every poll
  /\ stack = <<>> /\ state = "sConnecting"
  /\ ~Expired(connectTimeoutSecs)
  /\ CanBeUnwritable(sock)
  /\ elapsed' = 0
  /\ updating' = "live"
  /\ stack' = <<UpdateEnd>>
  /\ UNCHANGED <<state, implVars, config, ioTimeoutSecs, closeDue,
                 lost>>

UpdateConnectPending ==
  /\ stack = <<>> /\ state = "sConnecting"
  /\ ~Expired(connectTimeoutSecs)
  /\ CanBeUnwritable(sock)
  /\ updating' = "live"
  /\ stack' = <<UpdateEnd>>
  /\ UNCHANGED <<state, elapsed, implVars, config, ioTimeoutSecs,
                 closeDue, lost>>

FaultyConnectOk ==         \* writable is taken for connected, SO_ERROR not read
  /\ stack = <<>> /\ state = "sConnecting"
  /\ ~Expired(connectTimeoutSecs)
  /\ CanBeWritable(sock)
  /\ state' = "sConnected"
  /\ elapsed' = 0
  /\ updating' = "deleted"
  /\ stack' = <<Handler("sConnected"), UpdateEnd>>
  /\ UNCHANGED <<implVars, config, ioTimeoutSecs, closeDue, lost>>

\* checkConnected() passes: Socket::onConnect.
UpdateConnectOk ==
  /\ stack = <<>> /\ state = "sConnecting"
  /\ ~Expired(connectTimeoutSecs)
  /\ CanBeWritable(sock) /\ CheckPasses(sock)
  /\ sock' = ErrorRead(sock)
  /\ state' = "sConnected"
  /\ elapsed' = 0
  /\ updating' = "deleted"
  /\ stack' = <<Handler("sConnected"), UpdateEnd>>
  /\ UNCHANGED <<protocol, errorCode, internalError, config,
                 ioTimeoutSecs, closeDue, lost>>

\* checkConnected() fails: setState(sDisconnected), then emitError.
UpdateConnectFailed ==
  /\ stack = <<>> /\ state = "sConnecting" /\ ~windows
  /\ ~Expired(connectTimeoutSecs)
  /\ CanBeWritable(sock)
  /\ \E e \in CheckErrors(sock) : RecordError(e)
  /\ sock' = ErrorRead(sock)
  /\ state' = "sDisconnected"
  /\ elapsed' = 0
  /\ updating' = "deleted"
  /\ closeDue' = TRUE
  /\ stack' = EmitError(<<UpdateEnd>>)
  /\ UNCHANGED <<protocol, config, ioTimeoutSecs, lost>>

\* ::recv of a descriptor select() found readable, external.
RecvResults(s) == IF s = "established" THEN {"data", "eof", "again", "error"}
                  ELSE IF s = "unconnected" THEN {"eof", "error"}
                  ELSE {}

\* SocketStateConnected::update on a readable descriptor: Socket::recv up to
\* its first report.  After an error recv() closes a second time.
UpdateRecv ==
  /\ stack = <<>> /\ state = "sConnected"
  /\ updating' = "live"
  /\ \/ /\ "data" \in RecvResults(sock)
        /\ stack' = <<Handler("sData"), AfterRecv>>
        /\ UNCHANGED <<closeDue, errorCode, internalError>>
     \/ /\ "eof" \in RecvResults(sock)
        /\ closeDue' = TRUE
        /\ stack' = <<Closing(FALSE), AfterRecv>>
        /\ UNCHANGED <<errorCode, internalError>>
     \/ /\ "error" \in RecvResults(sock)
        /\ SetError("EOTHER", "InternalNone")
        /\ closeDue' = TRUE
        /\ stack' = EmitError(<<Closing(TRUE), AfterRecv>>)
     \/ /\ "again" \in RecvResults(sock)
        /\ stack' = <<AfterRecv>>
        /\ UNCHANGED <<closeDue, errorCode, internalError>>
  /\ UNCHANGED <<state, elapsed, sock, protocol, config,
                 ioTimeoutSecs, lost>>

\* The same with nothing to read: the idle timeout, which disarms itself.
UpdateIdle ==
  /\ stack = <<>> /\ state = "sConnected"
  /\ updating' = "live"
  /\ IF Expired(ioTimeoutSecs)
       THEN /\ ioTimeoutSecs' = -1
            /\ stack' = <<Handler("sTimeout"), UpdateEnd>>
       ELSE /\ stack' = <<UpdateEnd>>
            /\ UNCHANGED ioTimeoutSecs
  /\ UNCHANGED <<state, elapsed, implVars, config, closeDue, lost>>

Update == \/ UpdateConnectExpired \/ UpdateConnectPending
          \/ UpdateConnectOk \/ UpdateConnectFailed
          \/ UpdateRecv \/ UpdateIdle

(***************************************************************************)
(* The environment, external: the kernel finishes a handshake, and time    *)
(* passes.  Elapsed time is capped where every timeout has expired.        *)
(***************************************************************************)
Handshake ==
  /\ sock = "handshaking"
  /\ sock' \in {"established", "refused", "timedout", "unreachable"}
  /\ UNCHANGED <<stateVars, protocol, errorCode, internalError,
                 config, ioTimeoutSecs, stack, closeDue, lost>>

Tick ==
  /\ state \in {"sConnecting", "sConnected"}
  /\ elapsed < MaxElapsed
  /\ elapsed' = elapsed + 1
  /\ UNCHANGED <<state, updating, implVars, config, ioTimeoutSecs,
                 stack, closeDue, lost>>

\* Socket::Socket() and, for an accepted connection, Socket::Socket(impl).
\* The SocketBase constructor leaves internalError uninitialised.
Init ==
  /\ windows \in BOOLEAN
  /\ \/ state = "sClose" /\ sock = "none"
         /\ connectTimeoutSecs \in {-1, ConnectTimeout}
     \/ state = "sConnected" /\ sock = "established"
         /\ connectTimeoutSecs = -1
  /\ elapsed = 0
  /\ updating = "none"
  /\ protocol = 4
  /\ errorCode = "none"
  /\ internalError = "uninitialised"
  /\ ioTimeoutSecs = -1
  /\ stack = <<>>
  /\ closeDue = FALSE
  /\ lost = FALSE

Next ==
  \/ CallConnect \/ CallCreate \/ CallClose \/ CallSend \/ CallSetIOTimeout
  \/ HandlerReturn \/ Continue
  \/ Update
  \/ Handshake \/ Tick

\* The processor keeps running library code; handlers end, and the main loop
\* comes back to update() (README.md), whatever else they do in between, so
\* those two are strongly fair; and the clock advances.
Fairness ==
  /\ WF_vars(Continue)
  /\ SF_vars(HandlerReturn)
  /\ SF_vars(Update)
  /\ WF_vars(Tick)

Spec == Init /\ [][Next]_vars /\ Fairness

(***************************************************************************)
(* Properties.                                                             *)
(***************************************************************************)
\* The type invariant.
TypeOK ==
  /\ windows \in BOOLEAN
  /\ state \in StateTypes
  /\ elapsed \in 0..MaxElapsed
  /\ updating \in {"none", "live", "deleted"}
  /\ sock \in SockStates
  /\ protocol \in {4, 6}
  /\ errorCode \in Errnos \cup {"none"}
  /\ internalError \in {"uninitialised", "InternalNone", "SocketInvalid"}
  /\ connectTimeoutSecs \in {-1, ConnectTimeout}
  /\ ioTimeoutSecs \in {-1, IOTimeout}
  /\ stack \in Seq(Frames)
  /\ closeDue \in BOOLEAN
  /\ lost \in BOOLEAN

\* Whatever the handlers do, isClosed() tells whether there is a descriptor,
\* at every point where a handler or the kernel can look: no call can find
\* sock = -1 in an open state, or hide an open descriptor behind sClose.  The
\* one exception is a Socket whose descriptor was overwritten before.
FdMatchesState == ~lost => (sock = "none" <=> state = "sClose")

\* A connect that failed or ran out of time, a receive error and the end of
\* the stream always lead to the sClose report before update() returns to
\* the main loop, whatever the handlers called in between.
FailureEndsInClose == stack = <<>> => ~closeDue

\* While an sError report is being delivered both fields it carries were set
\* by some failed operation: the uninitialised internalError is never read.
\* An overwritten descriptor is the exception again.
ReportedErrorIsSet ==
  ~lost /\ (\E i \in 1..Len(stack) : stack[i] = Handler("sError"))
     => errorCode \in Errnos /\ internalError = "InternalNone"

\* A Socket is not in sConnected while its handshake is running, nor after
\* one that the peer refused or that the kernel timed out.  On Windows, where
\* nothing but canWrite() checks it, it even has its connection.
ConnectedMeansChecked ==
  state = "sConnected" =>
    /\ sock \notin {"handshaking", "refused", "timedout"}
    /\ windows /\ ~lost => sock = "established"

\* A connect that the peer refused or the kernel timed out ends in sClose: the
\* one SO_ERROR that tells is read by checkConnected() and not lost elsewhere.
\* On Windows nothing but the connect timeout tells.
RefusalEndsInClose ==
  (sock \in {"refused", "timedout"} /\ (windows => connectTimeoutSecs > 0))
    ~> state = "sClose"

\* A handshake that is running, or has failed with an error nobody has read,
\* belongs to an attempt that update() polls, or to a descriptor whose close is
\* due: no call and no handler makes the Socket forget it.
HandshakeIsWatched ==
  sock \in {"handshaking", "refused", "timedout", "unreachable"}
    => state = "sConnecting" \/ closeDue

\* The error of a refused or timed-out handshake can be read once.  Whoever
\* takes it, checkConnected() or a second ::connect, leaves the Socket closed
\* or about to be; it goes otherwise only with a descriptor that is lost.
RefusalIsNotLost ==
  [][sock' # sock /\ sock \in {"refused", "timedout"}
       => lost' \/ closeDue' \/ state' = "sClose"]_vars

\* An attempt with a connect timeout comes to an end even if the kernel never
\* answers and the application keeps calling connect().
ConnectResolves ==
  (state = "sConnecting" /\ connectTimeoutSecs > 0) ~> (state # "sConnecting")

\* With handlers that open nothing: no open descriptor is ever overwritten.
NoDescriptorLost == ~lost

\* update() does not touch its state object after recv() if a handler made
\* the Socket delete it (comment at SocketState.cpp:87).
NoStaleVisit == TopIs("afterRecv") /\ VisitsObject => updating = "live"

\* close(true) of an error path finds a descriptor open only if it is the one
\* whose failure was reported: it never hits one opened since.
CleanupHitsFailedDescriptor ==
  TopIs("close") /\ Head(stack).hasError /\ sock # "none" => closeDue

\* Every call of the library comes back to the main loop, although its sClose
\* handlers may call close() again.
CallsReturn == stack # <<>> ~> stack = <<>>

\* sConnected, and so the sConnected handlers that send at once, mean that
\* the kernel has a connection (README.md:60).
ConnectedIsEstablished == state = "sConnected" => sock = "established"

\* The promise of SocketLifecycle.
Lifecycle == INSTANCE SocketLifecycle WITH phase <- state
LifecycleSpec == Lifecycle!Spec

\* Its safety part, proved in StreamSocketProofs.
LifecycleSafety ==
  Lifecycle!Init /\ [][Lifecycle!Next]_(Lifecycle!lifeVars)

\* The same with handlers that may open descriptors: the promise is kept up to
\* the step, if there is one, that overwrites an open descriptor.
LifecycleUntilLoss ==
  Lifecycle!Init /\ [][lost' \/ Lifecycle!Next]_(Lifecycle!lifeVars)

(***************************************************************************)
(* Inductive strengthenings of the safety properties.                      *)
(***************************************************************************)
FramesOf(s) == {s[i] : i \in 1..Len(s)}
NoFrame(op, s) == \A f \in FramesOf(s) : f.op # op

\* The frame of a connect() that has just opened its descriptor is on top,
\* where nothing but connect() itself can run: FdMatchesState follows.
FdInv ==
  /\ FdMatchesState
  /\ TopIs("connect") => state = "sDisconnected" /\ sock = "unconnected"
  /\ stack # <<>> => NoFrame("connect", Tail(stack))

\* While the sClose of a failed descriptor is due, that descriptor is open, a
\* close frame waits for it, and no create() is between close and open.
CloseDueInv ==
  closeDue => sock # "none" /\ ~NoFrame("close", stack) /\ NoFrame("open", stack)

Inv == /\ TypeOK /\ FdInv /\ CloseDueInv
       /\ ReportedErrorIsSet /\ ConnectedMeansChecked

\* Handlers that open nothing: update(), and a create() that has yet to open,
\* are called from the main loop and so at the bottom of the stack; a create()
\* waits there without a descriptor.
Disciplined == HandlerCalls \cap {"connect", "create"} = {}

AtBottom(s) ==
  \A i \in 1..(Len(s) - 1) : s[i].op \notin {"open", "afterRecv", "updateEnd"}

OpenInv ==
  /\ ~lost
  /\ AtBottom(stack)
  /\ sock # "none" => NoFrame("open", stack)

\* Nothing is opened while update() is in its recv(), or while an error path
\* has its close(true) to do: what they come back to is as they left it, or
\* closed.
Guarded == {AfterRecv, Closing(TRUE)}

RecvInv ==
  /\ Guarded \cap FramesOf(stack) # {}
       => NoFrame("open", stack) /\ NoFrame("connect", stack)
  /\ AfterRecv \in FramesOf(stack)
       => state = "sClose" \/ (state = "sConnected" /\ updating = "live")
  /\ Closing(TRUE) \in FramesOf(stack) /\ sock # "none" => closeDue

DisciplinedInv == Inv /\ OpenInv /\ RecvInv

\* Why calls come back although sClose handlers may call close() again: every
\* step inside a call brings its end nearer, in that order by the descriptors
\* it may still open, the one that is open, and the frames left (a connect
\* frame counting once more, since its handler comes in its place), and what
\* handlers do meanwhile never takes the end further away.
Opens == IF NoFrame("open", stack) THEN 0 ELSE 1
Holds == IF sock = "none" THEN 0 ELSE 1
Depth == 2 * Len(stack) + (IF TopIs("connect") THEN 1 ELSE 0)

Nearer == \/ Opens' < Opens
          \/ Opens' = Opens /\ Holds' < Holds
          \/ Opens' = Opens /\ Holds' = Holds /\ Depth' < Depth

CallsDescend ==
  [][stack # <<>> =>
       \/ Nearer
       \/ ~(HandlerReturn \/ Continue) /\ UNCHANGED <<Opens, Holds, Depth>>]_vars
=============================================================================
