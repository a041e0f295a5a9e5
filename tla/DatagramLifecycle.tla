-------------------------- MODULE DatagramLifecycle -------------------------
(***************************************************************************)
(* What a UDP Socket promises the application that polls it, with the call *)
(* stack, the addresses and the lookups left out: the order of the states  *)
(* getState() shows, that a descriptor is bound once and for good, by      *)
(* listen() or by the first send, that memberships last as long as it does,*)
(* and that when receiving has failed the state stays until its close.     *)
(* UdpSocket is shown to implement it.                                     *)
(***************************************************************************)
CONSTANT Groups    \* multicast groups

VARIABLES
  phase,        \* the StateType of Socket::state
  binding,      \* the descriptor is not bound, bound by a send, or by listen()
  joined,       \* the groups it is a member of
  closeDue      \* receiving has failed and the sClose is still due

lifeVars == <<phase, binding, joined, closeDue>>

Init ==
  /\ phase = "sClose" /\ binding = "no"
  /\ joined = {} /\ closeDue = FALSE

\* A descriptor is opened only when the previous one is closed.
Open ==
  /\ phase = "sClose" /\ phase' = "sDisconnected"
  /\ UNCHANGED <<binding, joined, closeDue>>

Listen ==
  /\ phase = "sDisconnected" /\ binding = "no"
  /\ phase' = "sListening" /\ binding' = "listen"
  /\ UNCHANGED <<joined, closeDue>>

\* A Socket that was sent from first cannot listen before it is made anew.
FirstSend ==
  /\ phase = "sDisconnected" /\ binding = "no"
  /\ binding' = "auto"
  /\ UNCHANGED <<phase, joined, closeDue>>

Join(g) ==
  /\ phase # "sClose" /\ g \notin joined
  /\ joined' = joined \cup {g}
  /\ UNCHANGED <<phase, binding, closeDue>>

Leave(g) ==
  /\ g \in joined
  /\ joined' = joined \ {g}
  /\ UNCHANGED <<phase, binding, closeDue>>

\* Only a Socket that listens receives, and so finds its descriptor failed.
Fail ==
  /\ phase = "sListening" /\ ~closeDue
  /\ closeDue' = TRUE
  /\ UNCHANGED <<phase, binding, joined>>

Close ==
  /\ phase # "sClose" /\ phase' = "sClose"
  /\ binding' = "no" /\ joined' = {} /\ closeDue' = FALSE

Next ==
  \/ Open \/ Listen \/ FirstSend \/ Fail \/ Close
  \/ \E g \in Groups : Join(g) \/ Leave(g)

Spec == Init /\ [][Next]_lifeVars
=============================================================================
