-------------------------- MODULE SocketLifecycle --------------------------
(***************************************************************************)
(* What a TCP Socket promises the application that polls it, with the      *)
(* call structure, the kernel and the clock left out: the order of the     *)
(* states Socket::getState() shows, and that a descriptor whose use has    *)
(* failed (an error, an expired connect, the end of the stream) is         *)
(* closed, and reported closed, before it is used for anything else but a  *)
(* further connect.  StreamSocket is shown to implement it.                *)
(***************************************************************************)

VARIABLES
  phase,        \* the StateType of Socket::state
  closeDue      \* the descriptor has failed and its sClose is still due

lifeVars == <<phase, closeDue>>

Phases == {"sClose", "sDisconnected", "sConnecting", "sConnected"}

\* A Socket of the application starts closed, one made by accept() connected.
Init ==
  /\ phase \in {"sClose", "sConnected"}
  /\ closeDue = FALSE

\* A descriptor is opened only when the previous one is closed.
Open ==
  /\ phase = "sClose"
  /\ phase' = "sDisconnected"
  /\ UNCHANGED closeDue

\* connect() starts an attempt; on a connected socket it starts a new one.
Attempt ==
  /\ phase \in {"sDisconnected", "sConnected"}
  /\ phase' = "sConnecting"
  /\ UNCHANGED closeDue

\* An attempt succeeds, at once or when it is polled.
Establish ==
  /\ phase \in {"sDisconnected", "sConnecting"}
  /\ phase' = "sConnected"
  /\ UNCHANGED closeDue

\* An attempt is given up: refused, or out of time.
GiveUp ==
  /\ phase = "sConnecting"
  /\ phase' = "sDisconnected"
  /\ closeDue' = TRUE

\* An established connection breaks: an error, or the end of the stream.
Break ==
  /\ phase = "sConnected"
  /\ closeDue' = TRUE
  /\ UNCHANGED phase

\* The descriptor is closed, by the application or because it had failed.
Close ==
  /\ phase # "sClose"
  /\ phase' = "sClose"
  /\ closeDue' = FALSE

Next == Open \/ Attempt \/ Establish \/ GiveUp \/ Break \/ Close

Spec == Init /\ [][Next]_lifeVars /\ WF_lifeVars(closeDue /\ Close)
=============================================================================
