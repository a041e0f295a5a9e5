--------------------------- MODULE ConnectionPool ---------------------------
(***************************************************************************)
(* What a listening Socket promises about its connections, with the vector *)
(* and the iterator that walks it, the handlers, the call stack and the    *)
(* descriptors left out: connections come only while it listens and while  *)
(* there is room; one that was closed keeps its place until it is released *)
(* and none is released before; and a deleted server takes no further      *)
(* ones, but releases those it has before another server is made.          *)
(* ServerSocket is shown to implement it.                                  *)
(***************************************************************************)
EXTENDS Naturals, FiniteSets

CONSTANTS
  Conns,            \* addresses of connections
  MaxConnections    \* how many there may be

VARIABLES
  phase,        \* of the server: "idle", "listening" or "deleted"
  connected,    \* its connections that are in use
  closed        \* those that are closed and not yet released

poolVars == <<phase, connected, closed>>

Init ==
  /\ phase = "idle"
  /\ connected = {} /\ closed = {}

Listen ==
  /\ phase = "idle" /\ phase' = "listening"
  /\ UNCHANGED <<connected, closed>>

\* close(), listen() again, or an error of the listener.
Stop ==
  /\ phase = "listening" /\ phase' = "idle"
  /\ UNCHANGED <<connected, closed>>

Accept(c) ==
  /\ phase = "listening"
  /\ Cardinality(connected \cup closed) < MaxConnections
  /\ c \notin connected \cup closed
  /\ connected' = connected \cup {c}
  /\ UNCHANGED <<phase, closed>>

\* By the application or by the peer.
Close(c) ==
  /\ c \in connected
  /\ connected' = connected \ {c}
  /\ closed' = closed \cup {c}
  /\ UNCHANGED phase

Release(c) ==
  /\ c \in closed
  /\ closed' = closed \ {c}
  /\ UNCHANGED <<phase, connected>>

Delete ==
  /\ phase # "deleted" /\ phase' = "deleted"
  /\ UNCHANGED <<connected, closed>>

\* The next server starts with nothing left of the previous one.
Construct ==
  /\ phase = "deleted" /\ connected \cup closed = {}
  /\ phase' = "idle"
  /\ UNCHANGED <<connected, closed>>

Next ==
  \/ Listen \/ Stop \/ Delete \/ Construct
  \/ \E c \in Conns : Accept(c) \/ Close(c) \/ Release(c)

\* A closed connection is released in the end.
Releases == \A c \in Conns : c \in closed ~> c \notin closed

Safety == Init /\ [][Next]_poolVars
Spec == Safety /\ Releases
=============================================================================
