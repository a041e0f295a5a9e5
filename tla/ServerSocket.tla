---------------------------- MODULE ServerSocket ----------------------------
(***************************************************************************)
(* A listening TCP Socket and the connection Sockets it owns: listen(),    *)
(* accept(), closeConnection(), closeAllConnections(), the update() that   *)
(* polls the listener and then every connection in turn, and the           *)
(* destructors (Socket.cpp, SocketState.cpp, SocketLinux.cpp,              *)
(* SocketWin.cpp).                                                         *)
(*                                                                         *)
(* Here the matter is lifetime: `connections` is a vector of counted       *)
(* pointers that update() walks with an iterator, while the handlers it    *)
(* calls on the way may close connections or edit the same vector.  As in  *)
(* StreamSocket the call stack is explicit and update() is called by the   *)
(* main loop only.  How a single connection receives and fails is detailed *)
(* there; here an update of it reports data, an error, or finds the end of *)
(* the stream.  Positions are counted from 1, not 0.  Names starting with  *)
(* Faulty are wrong variants, for mutation testing of the properties.      *)
(***************************************************************************)
EXTENDS Integers, Sequences, FiniteSets

CONSTANTS
  Conns,            \* heap addresses of connection Sockets; bounds the model
  Server,           \* the listening Socket, as the subject of a report
  MaxConnections,   \* maxConnections
  MaxFrames,        \* bound: handlers call only with this many pending frames
  MainCalls,        \* the methods the main loop calls besides update()
  ServerCalls,      \* those called by handlers of the server's reports
  ConnCalls         \* those called by handlers of a connection's reports

Calls == {"listen", "close", "closeOne", "closeConnection", "closeAll", "delete"}

ASSUME ServerAssumption == Conns \cap {Server, "null", "free"} = {}
ASSUME MaxAssumption == MaxConnections \in Nat
ASSUME FramesAssumption == MaxFrames \in Nat
ASSUME CallsAssumption ==
  /\ MainCalls \subseteq Calls
  /\ ServerCalls \cup ConnCalls \subseteq Calls \ {"delete"}

VARIABLES
  state,         \* type of the server's SocketState object; "deleted"
  sock,          \* the server's descriptor: "none" (-1), "fresh" or "bound"
  connections,   \* the vector Socket::connections
  alive,         \* the connection Sockets that have not been deleted
  connState,     \* the state of each connection Socket
  scratch,       \* Socket::addrTemp: "null", "free" (one reference), or the
                 \* connection that holds the second reference to it
  inited,        \* SocketWin::__inited, which counts the implementations
  stack,         \* the pending frames, innermost first
  polled,        \* history: the connections polled by the running update()
  undermined     \* history: a call has edited the vector at or before the
                 \* place of a pending frame, or released its connection

vars == <<state, sock, connections, alive, connState, scratch, inited, stack,
          polled, undermined>>

States == {"sClose", "sDisconnected", "sListening", "deleted"}
ConnStates == {"sConnected", "sClose"}
Events == {"sListening", "sConnection", "sData", "sError", "sClose"}

(***************************************************************************)
(* Frames.                                                                 *)
(***************************************************************************)
Handler(ev, s)  == [op |-> "handler", ev |-> ev, s |-> s]  \* handlers of s
Closing         == [op |-> "close"]                 \* the server's impl->close
Opening         == [op |-> "open"]                  \* listen() after its close
ConnClosing(c)  == [op |-> "connClose", c |-> c]    \* the connection's close
Accepted        == [op |-> "accepted"]              \* accept() after the report
Walk(i)         == [op |-> "walk", i |-> i]         \* update(): itr at i
AfterUpdate(i, c) == [op |-> "afterUpdate", i |-> i, c |-> c]
                               \* update() after (*itr)->update(), itr at i
CloseTail(i, c) == [op |-> "closeTail", i |-> i, c |-> c]
                               \* closeConnection(i) after p->close()
CloseAll(i)     == [op |-> "closeAll", i |-> i]     \* closeAllConnections
AllTail(i, c)   == [op |-> "allTail", i |-> i, c |-> c]
ImplGone        == [op |-> "implGone"]              \* ~Socket after its close
Dismantle(i)    == [op |-> "dismantle", i |-> i]    \* ~Socket, connections
Gone(i, c)      == [op |-> "gone", i |-> i, c |-> c]
                               \* the same after the close in a connection's

Place == 1..MaxConnections
Index == 1..(MaxConnections + 1)
Frames == [op : {"handler"}, ev : Events, s : Conns \cup {Server}]
     \cup [op : {"close", "open", "accepted", "implGone"}]
     \cup [op : {"connClose"}, c : Conns]
     \cup [op : {"walk", "closeAll", "dismantle"}, i : Index]
     \cup [op : {"afterUpdate", "closeTail", "allTail", "gone"}, i : Place, c : Conns]

TopIs(op) == stack # <<>> /\ Head(stack).op = op

\* The connection a frame will come back to.  The handlers of sConnection are
\* the server's: they may well close and release the connection they are told.
Subject(f) == IF f.op = "handler"
                THEN IF f.ev = "sConnection" THEN {} ELSE {f.s} \cap Conns
              ELSE IF f.op \in {"connClose", "gone", "afterUpdate", "closeTail", "allTail"}
                THEN {f.c} ELSE {}

\* The frames that will come back to a place in the vector: by an iterator, or
\* closeConnection() by its index.
Placed(f) == f.op \in {"afterUpdate", "closeTail", "allTail", "gone"}

\* A frame finds what it left.  One that does not is undefined behaviour, and
\* is not followed.
Sound(f) == /\ Subject(f) \subseteq alive
            /\ Placed(f) => f.i <= Len(connections) /\ connections[f.i] = f.c
Resumes(op) == TopIs(op) /\ Sound(Head(stack))

\* Taking connection i out pulls the vector from under a frame that is placed
\* there or later, and releases the connection of a frame that belongs to it.
Undermines(i) == \E k \in 1..Len(stack) :
                   \/ Placed(stack[k]) /\ stack[k].i >= i
                   \/ connections[i] \in Subject(stack[k])

\* After a call that undermines a frame no handler calls again: what follows
\* is only to show that such a call is not survived.
MayCall(call) ==
  /\ ~undermined
  /\ \/ stack = <<>> /\ state # "deleted" /\ call \in MainCalls
     \/ /\ TopIs("handler") /\ Len(stack) <= MaxFrames
        /\ call \in (IF Head(stack).ev = "sConnection" \/ Head(stack).s = Server
                       THEN ServerCalls ELSE ConnCalls)

FaultyEraseAt(seq, i) == seq       \* the released pointer stays in the vector
EraseAt(seq, i) == SubSeq(seq, 1, i - 1) \o SubSeq(seq, i + 1, Len(seq))

\* Socket::close of the server or of a connection: SocketLinux::close closes
\* an open descriptor, then onClose changes the state and reports.
CloseServer(rest) ==
  /\ sock' = "none"
  /\ state' = IF sock # "none" THEN "sClose" ELSE state
  /\ stack' = (IF sock # "none" THEN <<Handler("sClose", Server)>> ELSE <<>>) \o rest
  /\ UNCHANGED <<connections, alive, connState, scratch, inited, polled>>

CloseConn(c, rest) ==
  /\ connState' = [connState EXCEPT ![c] = "sClose"]
  /\ stack' = (IF connState[c] = "sConnected" THEN <<Handler("sClose", c)>>
                                              ELSE <<>>) \o rest
  /\ UNCHANGED <<state, sock, connections, alive, scratch, inited, polled>>

\* Ref::release of the vector's only reference deletes the Socket, and with
\* it its reference to the address object it shares with addrTemp.
FaultyRelease(c) ==        \* the vector's reference is not given back
  UNCHANGED <<alive, scratch, inited>>

Release(c) ==
  /\ alive' = alive \ {c}
  /\ scratch' = IF scratch = c THEN "free" ELSE scratch
  /\ inited' = inited - 1

(***************************************************************************)
(* The application's calls.                                                *)
(***************************************************************************)

\* bind and listen of SocketBase, each of which may fail, and onListening.
BindAndListen(before, rest) ==
  /\ \/ sock' \in {"fresh", "bound"} /\ state' = before /\ stack' = rest
     \/ /\ sock' = "bound" /\ state' = "sListening"
        /\ stack' = <<Handler("sListening", Server)>> \o rest
  /\ UNCHANGED <<connections, alive, connState, scratch, inited, polled>>

\* Socket::listen.  create() comes first when the Socket is closed or another
\* protocol is called for.  A descriptor is bound only once, so that without
\* create() the call fails on one that is bound.
CallListen ==
  /\ MayCall("listen") /\ state # "deleted"
  /\ \/ CloseServer(<<Closing, Opening>> \o stack)
     \/ state # "sClose" /\ sock = "fresh" /\ BindAndListen(state, stack)
  /\ UNCHANGED undermined

CallClose == MayCall("close") /\ CloseServer(stack) /\ UNCHANGED undermined

\* close() on a connection, by the pointer sConnection handed out; after its
\* sClose the application does not use that pointer again.
CallCloseOne ==
  /\ MayCall("closeOne")
  /\ \E c \in alive : connState[c] = "sConnected" /\ CloseConn(c, stack)
  /\ UNCHANGED undermined

FaultyCloseConnection(i) ==    \* closes nothing before the release
  /\ stack' = <<CloseTail(i, connections[i])>> \o stack
  /\ UNCHANGED <<state, sock, connections, alive, connState, scratch, inited, polled>>

FaultyReleaseFirst(i) ==       \* release() before close()
  /\ Release(connections[i])
  /\ connState' = [connState EXCEPT ![connections[i]] = "sClose"]
  /\ stack' = <<Handler("sClose", connections[i]),
                CloseTail(i, connections[i])>> \o stack
  /\ UNCHANGED <<state, sock, connections, polled>>

CloseConnection(i) ==
  CloseConn(connections[i], <<CloseTail(i, connections[i])>> \o stack)

CallCloseConnection ==
  /\ MayCall("closeConnection")
  /\ \E i \in 1..Len(connections) :
       CloseConnection(i) /\ undermined' = Undermines(i)

CallCloseAll ==
  /\ MayCall("closeAll")
  /\ stack' = <<CloseAll(1)>> \o stack
  /\ undermined' = \E i \in 1..Len(connections) : Undermines(i)
  /\ UNCHANGED <<state, sock, connections, alive, connState, scratch, inited, polled>>

(***************************************************************************)
(* The frames that continue a library function.                            *)
(***************************************************************************)
HandlerReturn ==
  /\ Resumes("handler")
  /\ stack' = Tail(stack)
  /\ UNCHANGED <<state, sock, connections, alive, connState, scratch, inited,
                 polled, undermined>>

DoClose == TopIs("close") /\ CloseServer(Tail(stack))

\* ::socket, which may fail, over whatever descriptor there is by now.
DoOpen ==
  /\ TopIs("open")
  /\ \/ /\ sock' = "none"
        /\ stack' = Tail(stack)
        /\ UNCHANGED <<state, connections, alive, connState, scratch, inited, polled>>
     \/ BindAndListen("sDisconnected", Tail(stack))

DoConnClose == Resumes("connClose") /\ CloseConn(Head(stack).c, Tail(stack))

\* Socket::accept gives addrTemp away if the connection still refers to it.
FaultyKeepScratch == scratch    \* addrTemp is kept for the next accept()
NextScratch == IF scratch \in Conns THEN "null" ELSE scratch

DoAccepted ==
  /\ TopIs("accepted")
  /\ scratch' = NextScratch
  /\ stack' = Tail(stack)
  /\ UNCHANGED <<state, sock, connections, alive, connState, inited, polled>>

DoCloseTail ==
  /\ Resumes("closeTail")
  /\ Release(Head(stack).c)
  /\ connections' = EraseAt(connections, Head(stack).i)
  /\ stack' = Tail(stack)
  /\ UNCHANGED <<state, sock, connState, polled>>

DoCloseAll ==
  /\ TopIs("closeAll")
  /\ LET i == Head(stack).i IN
       \/ /\ i <= Len(connections) /\ connections[i] \in alive
          /\ CloseConn(connections[i], <<AllTail(i, connections[i])>> \o Tail(stack))
       \/ /\ i > Len(connections)
          /\ connections' = <<>>
          /\ stack' = Tail(stack)
          /\ UNCHANGED <<state, sock, alive, connState, scratch, inited, polled>>

DoAllTail ==
  /\ Resumes("allTail")
  /\ Release(Head(stack).c)
  /\ stack' = <<CloseAll(Head(stack).i + 1)>> \o Tail(stack)
  /\ UNCHANGED <<state, sock, connections, connState, polled>>

\* One round of the loop of Socket::update.  The connection's own update()
\* finds nothing, data, the end of the stream or an error.
DoWalk ==
  /\ TopIs("walk")
  /\ LET i == Head(stack).i IN
       \/ /\ i > Len(connections)
          /\ stack' = Tail(stack)
          /\ polled' = {}
       \/ /\ i <= Len(connections)
          /\ polled' = polled \cup {connections[i]}
          /\ LET c == connections[i]
                 rest == <<AfterUpdate(i, c)>> \o Tail(stack)
             IN \/ stack' = rest
                \/ /\ connState[c] = "sConnected"
                   /\ stack' \in {<<Handler("sData", c)>> \o rest,
                                  <<ConnClosing(c)>> \o rest,
                                  <<Handler("sError", c), ConnClosing(c)>> \o rest}
  /\ UNCHANGED <<state, sock, connections, alive, connState, scratch, inited>>

\* The iterator stays where it is when the element under it is erased.
FaultyAdvance(i, closed) == i + 1
FaultyStepBack(i, closed) == IF closed THEN i - 1 ELSE i + 1
Advance(i, closed) == IF closed THEN i ELSE i + 1

DoAfterUpdate ==
  /\ Resumes("afterUpdate")
  /\ LET i == Head(stack).i
         c == connections[i]
         closed == connState[c] = "sClose"
     IN /\ IF closed
             THEN Release(c) /\ connections' = EraseAt(connections, i)
             ELSE UNCHANGED <<alive, scratch, inited, connections>>
        /\ stack' = <<Walk(Advance(i, closed))>> \o Tail(stack)
  /\ UNCHANGED <<state, sock, connState, polled>>

(***************************************************************************)
(* Socket::~Socket.  It deletes the implementation, whose destructor       *)
(* closes the descriptor and so still reports sClose, then the state       *)
(* object and addrTemp, then releases the connections, which close in      *)
(* their own destructors.  On Windows each implementation gives up its     *)
(* share of the WinSock library.                                           *)
(***************************************************************************)
CallDelete ==
  MayCall("delete") /\ CloseServer(<<ImplGone>>) /\ UNCHANGED undermined

DoImplGone ==
  /\ TopIs("implGone")
  /\ state' = "deleted"
  /\ sock' = "none"
  /\ inited' = inited - 1
  /\ scratch' = "null"
  /\ stack' = <<Dismantle(1)>> \o Tail(stack)
  /\ UNCHANGED <<connections, alive, connState, polled>>

DoDismantle ==
  /\ TopIs("dismantle")
  /\ LET i == Head(stack).i IN
       \/ /\ i <= Len(connections) /\ connections[i] \in alive
          /\ CloseConn(connections[i], <<Gone(i, connections[i])>> \o Tail(stack))
       \/ /\ i > Len(connections)
          /\ connections' = <<>>
          /\ stack' = Tail(stack)
          /\ UNCHANGED <<state, sock, alive, connState, scratch, inited, polled>>

DoGone ==
  /\ Resumes("gone")
  /\ Release(Head(stack).c)
  /\ stack' = <<Dismantle(Head(stack).i + 1)>> \o Tail(stack)
  /\ UNCHANGED <<state, sock, connections, connState, polled>>

\* The application makes another server.
Construct ==
  /\ stack = <<>> /\ state = "deleted"
  /\ state' = "sClose"
  /\ inited' = inited + 1
  /\ UNCHANGED <<sock, connections, alive, connState, scratch, stack, polled, undermined>>

Continue == /\ \/ DoClose \/ DoOpen \/ DoConnClose \/ DoAccepted \/ DoCloseTail
               \/ DoCloseAll \/ DoAllTail \/ DoWalk \/ DoAfterUpdate
               \/ DoImplGone \/ DoDismantle \/ DoGone
            /\ UNCHANGED undermined

(***************************************************************************)
(* Socket::update: first the listener, then the walk over the connections. *)
(***************************************************************************)
FaultyHasRoom == Len(connections) <= MaxConnections
HasRoom == Len(connections) < MaxConnections

\* ::accept yields a connection: a new Socket, put into the vector and
\* reported.  A fresh heap address is one no object and no frame refers to.
FaultyStarted == inited        \* only the constructor of Socket counts
Started == inited + 1

AcceptOk(c) ==
  /\ state = "sListening" /\ sock = "bound" /\ HasRoom
  /\ c \notin alive
  /\ alive' = alive \cup {c}
  /\ connState' = [connState EXCEPT ![c] = "sConnected"]
  /\ connections' = Append(connections, c)
  /\ scratch' = c
  /\ inited' = Started
  /\ stack' = <<Handler("sConnection", c), Accepted, Walk(1)>>
  /\ UNCHANGED <<state, sock, polled>>

\* ::accept fails, or there is no descriptor: SocketStateListening gives the
\* server up.
AcceptError ==
  /\ state = "sListening" /\ HasRoom
  /\ state' = "sDisconnected"
  /\ scratch' = IF scratch = "null" THEN "free" ELSE scratch
  /\ stack' = <<Handler("sError", Server), Closing, Walk(1)>>
  /\ UNCHANGED <<sock, connections, alive, connState, inited, polled>>

\* Nothing to accept, no room, or not listening.
NoAccept ==
  /\ state = "sListening" /\ HasRoom => sock = "bound"
  /\ scratch' = IF state = "sListening" /\ HasRoom /\ scratch = "null"
                  THEN "free" ELSE scratch
  /\ stack' = <<Walk(1)>>
  /\ UNCHANGED <<state, sock, connections, alive, connState, inited, polled>>

Update ==
  /\ stack = <<>> /\ state # "deleted"
  /\ (\E c \in Conns : AcceptOk(c)) \/ AcceptError \/ NoAccept
  /\ UNCHANGED undermined

Init ==
  /\ state = "sClose"
  /\ sock = "none"
  /\ connections = <<>>
  /\ alive = {}
  /\ connState = [c \in Conns |-> "sClose"]
  /\ scratch = "null"
  /\ inited = 1
  /\ stack = <<>>
  /\ polled = {}
  /\ undermined = FALSE

Next ==
  \/ CallListen \/ CallClose \/ CallCloseOne \/ CallCloseConnection \/ CallCloseAll
  \/ CallDelete \/ Construct
  \/ HandlerReturn \/ Continue
  \/ Update

\* As in StreamSocket: library code runs on, handlers end, and the main loop
\* comes back to update().
Fairness == WF_vars(Continue) /\ SF_vars(HandlerReturn) /\ SF_vars(Update)

Spec == Init /\ [][Next]_vars /\ Fairness

(***************************************************************************)
(* Properties.  A connection Socket is taken to be used as accept() made   *)
(* it: the application does not call its connect() or listen().            *)
(***************************************************************************)
\* The type invariant.
TypeOK ==
  /\ state \in States
  /\ sock \in {"none", "fresh", "bound"}
  /\ connections \in Seq(Conns)
  /\ alive \subseteq Conns
  /\ connState \in [Conns -> ConnStates]
  /\ scratch \in {"null", "free"} \cup Conns
  /\ inited \in Int
  /\ stack \in Seq(Frames)
  /\ polled \subseteq Conns
  /\ undermined \in BOOLEAN

\* Handlers of any event may close connections, and take them out of the vector
\* at places after those of the pending frames.  No library function then comes
\* back to a connection Socket that was deleted, or to a place in the vector
\* that holds another one or none: neither update() with its iterator, nor
\* closeAllConnections() and the destructor with theirs, nor closeConnection()
\* with its index, however they are nested.
NoDanglingFrame == ~undermined => \A k \in 1..Len(stack) : Sound(stack[k])

\* And no other call is survived: with closeConnection() at or before a pending
\* place, or of the connection whose handler calls, some frame is left that
\* comes back to what is gone.
UnderminedIsFatal == stack = <<>> => ~undermined

\* The vector holds no Socket twice, and between two calls exactly the
\* living ones: nothing leaks, nothing is released twice.
VectorOwnsConnections ==
  /\ \A i, j \in 1..Len(connections) : connections[i] = connections[j] => i = j
  /\ stack = <<>> => alive = {connections[i] : i \in 1..Len(connections)}

\* accept() never makes more connections than maxConnections.
NotAboveMax == Len(connections) <= MaxConnections

\* When accept() starts, no living connection shares the address object the
\* kernel is about to write the next peer's address to.
ScratchNotShared == stack = <<>> => scratch \notin Conns

\* A connection Socket is gone only when it is closed and has reported it, also
\* when the server is destroyed with its connections open.
DeletedOnlyWhenClosed ==
  [][\A c \in alive : c \notin alive' => connState[c] = "sClose"]_vars

\* On Windows the WinSock library stays started as long as there is an
\* implementation that may close a descriptor, although the server's own goes
\* first, and is given back with the last one.
WinSockCounted ==
  inited = Cardinality(alive) + (IF state = "deleted" THEN 0 ELSE 1)

\* One update() polls every connection once: none is left out because an
\* earlier one was erased under the iterator, and none is polled again.
PolledOncePerWalk ==
  TopIs("walk") =>
    \A k \in 1..Len(connections) :
      connections[k] \in polled <=> k < Head(stack).i

\* What ConnectionPool promises, its connections being the living ones.
Phase == IF state = "sListening" THEN "listening"
         ELSE IF state = "deleted" THEN "deleted" ELSE "idle"
Connected == {c \in alive : connState[c] = "sConnected"}
Closed == {c \in alive : connState[c] = "sClose"}

Pool == INSTANCE ConnectionPool
  WITH phase <- Phase, connected <- Connected, closed <- Closed

\* The server implements it: connections come only within the limit and while
\* it listens, go only when they are closed, and do go in the end, also when
\* the server itself is destroyed.
PoolSpec == Pool!Spec
=============================================================================
