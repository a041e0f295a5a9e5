--------------------------- MODULE StreamTransfer ---------------------------
(***************************************************************************)
(* The bytes of a TCP connection between two Sockets of the library, after *)
(* both reached sConnected: Socket::send, the receiving half of update(),  *)
(* and close(), over a kernel that holds a bounded number of bytes in each *)
(* direction (Socket.cpp, SocketState.cpp, SocketLinux.cpp).               *)
(*                                                                         *)
(* The client's descriptor comes from create(), which makes it             *)
(* non-blocking: a send that does not fit is cut short or refused.  The    *)
(* server's comes from accept(), which on Linux leaves it blocking: a send *)
(* that does not fit keeps the one thread, and with it update(), waiting.  *)
(*                                                                         *)
(* What a report lets handlers do in the middle of a function is the       *)
(* matter of StreamSocket; a handler's send or close is here one that      *)
(* follows the report.  The application ignores SIGPIPE, so that a send to *)
(* a closed peer returns.  Names starting with Faulty are wrong variants,  *)
(* for mutation testing of the properties.                                 *)
(***************************************************************************)
EXTENDS Integers, Sequences

CONSTANTS
  Capacity,    \* bytes the kernels hold in one direction
  MaxMessage,  \* bound: the longest message
  MaxBytes     \* bound: bytes an end hands to send()

ASSUME CapacityAssumption == Capacity \in Nat \ {0}
ASSUME MessageAssumption == MaxMessage \in Nat \ {0}
ASSUME BytesAssumption == MaxBytes \in Nat

VARIABLES
  open,        \* per end: sConnected, else sClose
  net,         \* per end: bytes on their way to it, in either kernel
  reset,       \* per end: the connection was reset under it
  sending,     \* per end: the send() that blocks, or Idle
  offered,     \* history, per end: number of bytes given to send()
  sent,        \* history, per end: bytes its kernel accepted, by number
  received,    \* history, per end: bytes reported by sData
  confirmed,   \* history, per end: messages for which send() returned true
  ended        \* history, per end: how receiving ended

vars == <<open, net, reset, sending, offered, sent, received, confirmed, ended>>

Ends == {"client", "server"}
Peer(e) == IF e = "client" THEN "server" ELSE "client"
Bytes == 1..MaxBytes

\* A message is a range of byte numbers; of a blocked one, `next` is the
\* first byte not yet accepted.
Idle == [first |-> 1, next |-> 1, last |-> 0]
Numbers(a, b) == [i \in 1..(b - a + 1) |-> a + i - 1]
Prefixes(s) == {SubSeq(s, 1, k) : k \in 0..Len(s)}
FromTo(m) == m.first..m.last
ElementsOf(s) == {s[i] : i \in DOMAIN s}

\* SocketLinux::create unblocks its descriptor, SocketLinux::accept does not.
FaultyBlocking == Ends
Blocking == {"server"}

Free(e) == open[e] /\ sending[e] = Idle      \* its thread is in the main loop

(***************************************************************************)
(* The kernel, external.                                                   *)
(***************************************************************************)
Room(e) == Capacity - Len(net[Peer(e)])

\* It accepts bytes a..b of e.  Those for a closed peer come back as a reset,
\* which may cost e the bytes it has not read.
Accept(e, a, b) ==
  /\ sent' = [sent EXCEPT ![e] = @ \o Numbers(a, b)]
  /\ \/ /\ open[Peer(e)]
        /\ net' = [net EXCEPT ![Peer(e)] = @ \o Numbers(a, b)]
        /\ UNCHANGED reset
     \/ /\ ~open[Peer(e)]
        /\ reset' = [reset EXCEPT ![e] = TRUE]
        /\ \E p \in Prefixes(net[e]) : net' = [net EXCEPT ![e] = p]

\* ::close.  Bytes e has not read make it a reset, which may cost the peer
\* the bytes it has not read; otherwise they are all followed by the end.
KernelClose(e) ==
  /\ reset' = [reset EXCEPT ![Peer(e)] = @ \/ (open[Peer(e)] /\ net[e] # <<>>)]
  /\ \E p \in Prefixes(net[Peer(e)]) :
       /\ net[e] = <<>> => p = net[Peer(e)]
       /\ net' = [net EXCEPT ![e] = <<>>, ![Peer(e)] = p]

(***************************************************************************)
(* SocketLinux::send.                                                      *)
(***************************************************************************)

\* The result of send(): everything was accepted.
FaultyIsWhole(accepted, n) == accepted > 0
IsWhole(accepted, n) == accepted = n

\* The bytes of a message of length n; Socket::send adds one for the
\* terminator only where it counts the length itself.
FaultyLastByte(first, n) == first + n
LastByte(first, n) == first + n - 1

Confirm(e, m, accepted) ==
  confirmed' = IF IsWhole(accepted, m.last - m.first + 1)
               THEN [confirmed EXCEPT ![e] = @ \cup {m}] ELSE confirmed

Message(e, n) ==
  LET first == offered[e] + 1
  IN [first |-> first, next |-> first, last |-> LastByte(first, n)]

\* Non-blocking: the kernel takes what it likes, up to its room, or nothing
\* (EAGAIN, or an error of a connection that was reset).
SendNow(e, n) ==
  /\ e \notin Blocking /\ Free(e)
  /\ offered[e] + n <= MaxBytes
  /\ offered' = [offered EXCEPT ![e] = @ + n]
  /\ LET m == Message(e, n) IN
       \E k \in 0..(m.last - m.first + 1) :
         /\ Confirm(e, m, k)
         /\ \/ /\ k > 0 /\ k <= Room(e) /\ ~reset[e]
               /\ Accept(e, m.first, m.first + k - 1)
            \/ k = 0 /\ UNCHANGED <<sent, net, reset>>
  /\ UNCHANGED <<open, sending, received, ended>>

\* Blocking: send() is entered,
SendBlocking(e, n) ==
  /\ e \in Blocking /\ Free(e)
  /\ offered[e] + n <= MaxBytes
  /\ offered' = [offered EXCEPT ![e] = @ + n]
  /\ sending' = [sending EXCEPT ![e] = Message(e, n)]
  /\ UNCHANGED <<open, net, reset, sent, received, confirmed, ended>>

\* and returns when the kernel has taken the last byte
Queue(e) ==
  /\ sending[e] # Idle /\ Room(e) > 0 /\ ~reset[e]
  /\ LET m == sending[e] IN
       /\ Accept(e, m.next, m.next)
       /\ IF m.next = m.last
            THEN /\ sending' = [sending EXCEPT ![e] = Idle]
                 /\ Confirm(e, [m EXCEPT !.next = m.first], m.last - m.first + 1)
            ELSE /\ sending' = [sending EXCEPT ![e].next = @ + 1]
                 /\ UNCHANGED confirmed
  /\ UNCHANGED <<open, offered, received, ended>>

\* or the connection is reset: with the number of bytes taken, or an error.
QueueFails(e) ==
  /\ sending[e] # Idle /\ reset[e]
  /\ sending' = [sending EXCEPT ![e] = Idle]
  /\ LET m == sending[e] IN Confirm(e, [m EXCEPT !.next = m.first], m.next - m.first)
  /\ UNCHANGED <<open, net, reset, offered, sent, received, ended>>

(***************************************************************************)
(* Socket::close, and SocketStateConnected::update with Socket::recv: what *)
(* ::recv returns is reported, 0 and -1 close the Socket.                  *)
(***************************************************************************)
CloseAs(e, how) ==
  /\ KernelClose(e)
  /\ open' = [open EXCEPT ![e] = FALSE]
  /\ ended' = [ended EXCEPT ![e] = how]
  /\ UNCHANGED <<sending, offered, sent, received, confirmed>>

CallClose(e) == Free(e) /\ CloseAs(e, "broken")

\* Some of the bytes that are there, all of them if they fit the array.
RecvData(e) ==
  /\ \E k \in 1..Len(net[e]) :
       /\ received' = [received EXCEPT ![e] = @ \o SubSeq(net[e], 1, k)]
       /\ net' = [net EXCEPT ![e] = SubSeq(@, k + 1, Len(@))]
  /\ UNCHANGED <<open, reset, sending, offered, sent, confirmed, ended>>

FaultyAtEnd(e) == ~open[Peer(e)]         \* the end is looked for first
AtEnd(e) == net[e] = <<>> /\ ~reset[e] /\ ~open[Peer(e)]

FaultyOnEnd(e) == UNCHANGED vars         \* 0 is taken for "nothing yet"
OnEnd(e) == CloseAs(e, "complete")

RecvError(e) == net[e] = <<>> /\ reset[e] /\ CloseAs(e, "broken")

Update(e) ==
  /\ Free(e)
  /\ RecvData(e) \/ (AtEnd(e) /\ OnEnd(e)) \/ RecvError(e)

Init ==
  /\ open = [e \in Ends |-> TRUE]
  /\ net = [e \in Ends |-> <<>>]
  /\ reset = [e \in Ends |-> FALSE]
  /\ sending = [e \in Ends |-> Idle]
  /\ offered = [e \in Ends |-> 0]
  /\ sent = [e \in Ends |-> <<>>]
  /\ received = [e \in Ends |-> <<>>]
  /\ confirmed = [e \in Ends |-> {}]
  /\ ended = [e \in Ends |-> "no"]

Next ==
  \E e \in Ends :
    \/ \E n \in 1..MaxMessage : SendNow(e, n) \/ SendBlocking(e, n)
    \/ Queue(e) \/ QueueFails(e)
    \/ CallClose(e)
    \/ Update(e)

\* The kernels make progress, and both main loops come back to update()
\* whenever they are not inside a send.
Fairness == \A e \in Ends : /\ WF_vars(Queue(e) \/ QueueFails(e))
                            /\ SF_vars(Update(e))

Spec == Init /\ [][Next]_vars /\ Fairness

(***************************************************************************)
(* Properties.                                                             *)
(***************************************************************************)
\* The type invariant.
Messages == [first : Bytes, next : Bytes, last : Bytes]

TypeOK ==
  /\ open \in [Ends -> BOOLEAN]
  /\ net \in [Ends -> Seq(Bytes)]
  /\ \A e \in Ends : Len(net[e]) <= Capacity
  /\ reset \in [Ends -> BOOLEAN]
  /\ sending \in [Ends -> Messages \cup {Idle}]
  /\ offered \in [Ends -> 0..MaxBytes]
  /\ sent \in [Ends -> Seq(Bytes)]
  /\ received \in [Ends -> Seq(Bytes)]
  /\ confirmed \in [Ends -> SUBSET Messages]
  /\ ended \in [Ends -> {"no", "complete", "broken"}]

\* send() returns true only for a message of which every byte was accepted,
\* in one piece: no byte of another message is between them.
SendTrueIsWhole ==
  \A e \in Ends : \A m \in confirmed[e] :
    \E i \in 0..Len(sent[e]) :
      \A b \in FromTo(m) : /\ i + b - m.first + 1 \in DOMAIN sent[e]
                           /\ sent[e][i + b - m.first + 1] = b

\* When an end is told that the stream is complete (sEnd with 0 bytes read),
\* every message for which the other end's send() returned true has been
\* reported to it, in one piece.
ConfirmedArrives ==
  \A e \in Ends : ended[Peer(e)] = "complete" =>
    \A m \in confirmed[e] :
      \E i \in 0..Len(received[Peer(e)]) :
        \A b \in FromTo(m) : /\ i + b - m.first + 1 \in DOMAIN received[Peer(e)]
                             /\ received[Peer(e)][i + b - m.first + 1] = b

\* A send that has to wait for room waits for an end whose thread is in its
\* main loop and has bytes to read, or for nobody: the two programs never
\* wait for each other inside send().
NoMutualWait ==
  \A e \in Ends :
    sending[e] # Idle /\ Room(e) = 0 /\ ~reset[e]
      => Free(Peer(e)) /\ net[Peer(e)] # <<>>

\* A send on a blocking descriptor comes back, although its thread does not
\* read meanwhile: the other end, which never blocks, does.
BlockedSendReturns ==
  \A e \in Ends : sending[e] # Idle ~> sending[e] = Idle

\* When one end is closed the other one learns of it and closes.
CloseIsNoticed == \A e \in Ends : ~open[e] ~> ~open[Peer(e)]

\* Each direction is a ByteChannel.
ToClient == INSTANCE ByteChannel
  WITH sent <- sent["server"], received <- received["client"],
       writing <- open["server"], ended <- ended["client"]
ToServer == INSTANCE ByteChannel
  WITH sent <- sent["client"], received <- received["server"],
       writing <- open["client"], ended <- ended["server"]

ChannelSpec == ToClient!Spec /\ ToServer!Spec
=============================================================================
