----------------------------- MODULE UdpSocket ------------------------------
(***************************************************************************)
(* A datagram Socket: setUdp() right after construction, then listen(),    *)
(* send() to an address, addMembership(), dropMembership(), create(),      *)
(* close(), getIp() and the update() that reads datagrams (Socket.cpp,     *)
(* SocketBase.cpp, SocketLinux.cpp, SockAddr.cpp).                         *)
(*                                                                         *)
(* Each call first asks checkProtocol() for a protocol and, if the         *)
(* descriptor has another one, closes it and opens a new one; what the     *)
(* descriptor had (its binding, its memberships) goes with it.  The        *)
(* address objects `addr` and `addrUdp` stay, with the family they were    *)
(* made for.  The module follows both.                                     *)
(*                                                                         *)
(* Closing runs handlers of sClose, and they may call anything: a nested   *)
(* call looks up an address of its own (`addrInfo`), and may open a        *)
(* descriptor that the outer create() then overwrites (`lost`).            *)
(*                                                                         *)
(* The call stack is explicit and update() is called by the main loop      *)
(* only, as in StreamSocket.  Addresses are numeric, ports are left out,   *)
(* and so are errorCode and internalError (see StreamSocket).  Names       *)
(* starting with Faulty are wrong variants, for mutation testing.          *)
(***************************************************************************)
EXTENDS Integers, Sequences, FiniteSets

CONSTANTS
  Hosts4, Hosts6,  \* addresses of peers and interfaces, by family
  Groups,          \* multicast groups of IPv4
  CheckIpv6Only,   \* the values setCheckIpv6Only may be given at the start
  LookupFails,     \* whether getaddrinfo may fail
  MainCalls,       \* the methods the main loop calls besides update()
  MessageCalls,    \* those called by handlers of sMessage and sListening
  OtherCalls,      \* those called by handlers of sError and sClose
  MaxFrames        \* bound: handlers make no call above this stack depth

Calls == {"listen", "send", "reply", "addMembership", "dropMembership",
          "create", "close", "getIp"}

ASSUME HostsAssumption ==
  /\ Hosts4 \cap Hosts6 = {}
  /\ (Hosts4 \cup Hosts6) \cap {"null", "any", "local", "garbled", "no", "auto"} = {}
ASSUME CheckAssumption == CheckIpv6Only \subseteq BOOLEAN /\ LookupFails \in BOOLEAN
ASSUME CallsAssumption == MainCalls \cup MessageCalls \cup OtherCalls \subseteq Calls
ASSUME FramesAssumption == MaxFrames \in Nat

VARIABLES
  state,          \* type of the SocketState object
  sock,           \* "none" is -1; the family of an open one is `protocol`
  protocol,       \* SocketBase::protocol
  bound,          \* the kernel's: "no", "auto" by a first send, or an address
  groups,         \* the kernel's: memberships of the descriptor
  addr,           \* SocketBase::addr, family 0 is the null pointer
  addrUdp,        \* the family of Socket::addrUdp, 0 is the null pointer
  addrInfo,       \* Socket::addrInfo, the address looked up last, or null
  checkIpv6Only,
  stack,          \* the pending frames, innermost first
  believed,       \* history: what reports and results told the application
  families,       \* history: the families used with the Socket
  misdirected,    \* history: calls whose datagram went to someone else
  closeDue,       \* history: receiving failed and the sClose is due
  lost            \* history: an open descriptor was overwritten

kernelVars == <<bound, groups>>
history == <<believed, families, misdirected, closeDue, lost>>
vars == <<state, sock, protocol, kernelVars, addr, addrUdp, addrInfo,
          checkIpv6Only, stack, history>>

Hosts == Hosts4 \cup Hosts6
NoHost == "null"                 \* a null `ip`
Zero == "any"                    \* 0.0.0.0 and ::
Loopback == "local"              \* 127.0.0.1
Garbled == "garbled"             \* an IPv4 address read as an IPv6 one
Shows == Hosts \cup {Zero, Loopback, Garbled}
Family(h) == IF h \in Hosts6 \cup {Garbled} THEN 6 ELSE 4
NullAddr == [family |-> 0, host |-> Zero]
Nothing == [at |-> "nowhere", groups |-> {}]

(***************************************************************************)
(* A request is the second half of a call, once the descriptor is known:   *)
(* what to do, the address the library was given, and the peer that was    *)
(* meant by it.                                                            *)
(***************************************************************************)
Requests == [call : {"listen", "send", "reply", "join", "leave", "none"},
             host : Shows \cup Groups \cup {NoHost},
             to : Hosts \cup {NoHost}]
Request(call, host, to) == [call |-> call, host |-> host, to |-> to]

Handler(ev, from) == [op |-> "handler", ev |-> ev, from |-> from]
Closing == [op |-> "close"]                        \* impl->close
Opening(p, req) == [op |-> "open", protocol |-> p, req |-> req]
Running(req) == [op |-> "run", req |-> req]        \* a call after its create()

Frames == [op : {"handler"}, ev : {"sListening", "sMessage", "sError", "sClose"},
           from : Hosts \cup {NoHost}]
     \cup [op : {"close"}]
     \cup [op : {"open"}, protocol : {-1, 4, 6}, req : Requests]
     \cup [op : {"run"}, req : Requests]

TopIs(op) == stack # <<>> /\ Head(stack).op = op

MayCall(call) ==
  \/ stack = <<>> /\ call \in MainCalls
  \/ /\ TopIs("handler") /\ Len(stack) <= MaxFrames
     /\ call \in (IF Head(stack).ev \in {"sListening", "sMessage"}
                    THEN MessageCalls ELSE OtherCalls)

(***************************************************************************)
(* SocketLinux::close, with Socket::onClose and its report.                *)
(***************************************************************************)
FaultyCloseImpl(rest) ==       \* closes without telling the delegate
  /\ sock' = "none"
  /\ bound' = "no" /\ groups' = {}
  /\ stack' = rest
  /\ UNCHANGED <<state, protocol, addr, believed, misdirected, closeDue, lost>>

CloseImpl(rest) ==
  /\ \/ /\ sock = "none"
        /\ stack' = rest
        /\ UNCHANGED <<state, sock, kernelVars, believed, closeDue>>
     \/ /\ sock # "none"
        /\ sock' = "none" /\ bound' = "no" /\ groups' = {}
        /\ state' = "sClose"
        /\ believed' = Nothing
        /\ closeDue' = FALSE
        /\ stack' = <<Handler("sClose", NoHost)>> \o rest
  /\ UNCHANGED <<protocol, addr, misdirected, lost>>

(***************************************************************************)
(* SocketBase::getSockAddr with SockAddr::setIp: the object is made for    *)
(* the protocol of its first use, and an address of the other family is    *)
(* not put into it.                                                        *)
(***************************************************************************)
FaultySockAddr(host) ==        \* an address, once set, is kept
  IF addr = NullAddr THEN [family |-> protocol, host |-> host] ELSE addr

SockAddr(host) ==
  LET a == IF addr = NullAddr THEN [NullAddr EXCEPT !.family = protocol] ELSE addr
  IN IF host = NoHost THEN [a EXCEPT !.host = Zero]
     ELSE IF Family(host) = a.family THEN [a EXCEPT !.host = host]
     ELSE a

\* bind(addrInfo) takes the address of the last lookup, whoever made it;
\* bind(port, ip) goes through getSockAddr().
FaultyByLookup(req, info) == info # NoHost    \* also when `ip` is null
ByLookup(req, info) == info # NoHost /\ req.host # NoHost
BindAddr(req, info) ==
  IF ByLookup(req, info) THEN [family |-> Family(info), host |-> info]
                         ELSE SockAddr(req.host)

\* Socket::listen once its create() is done.  Linux binds a descriptor once,
\* and to an address of its family.
Listen(req, info, rest) ==
  /\ addr' = IF sock = "none" /\ ~ByLookup(req, info) THEN addr
             ELSE BindAddr(req, info)
  /\ \/ /\ sock = "open" /\ bound = "no" /\ addr'.family = protocol
        /\ bound' = addr'.host
        /\ state' = "sListening"
        /\ believed' = [believed EXCEPT !.at = IF req.host = NoHost THEN Zero
                                               ELSE req.host]
        /\ stack' = <<Handler("sListening", NoHost)>> \o rest
     \/ /\ stack' = rest
        /\ UNCHANGED <<state, bound, believed>>
  /\ UNCHANGED <<sock, protocol, groups, misdirected, closeDue>>

\* SocketLinux::sendto.  An IPv6 descriptor takes an IPv4 address, an IPv4
\* one no IPv6 address; the first send binds.
SendTo(req, rest) ==
  /\ stack' = rest
  /\ addr' = IF sock = "none" THEN addr ELSE SockAddr(req.host)
  /\ \/ /\ sock = "open" /\ addr'.family <= protocol
        /\ bound' = IF bound = "no" THEN "auto" ELSE bound
        /\ misdirected' = misdirected \cup
             (IF addr'.host = req.to THEN {} ELSE {req.call})
     \/ /\ bound' = bound \/ (sock = "open" /\ bound = "no" /\ bound' = "auto")
        /\ UNCHANGED misdirected
  /\ UNCHANGED <<state, sock, protocol, groups, believed, closeDue>>

\* SocketBase::addMembership and dropMembership.  For protocol 6 both test
\* `ret` before anything has set it.
Join(req, rest) ==
  /\ stack' = rest
  /\ \/ /\ sock = "open" /\ protocol = 4 /\ req.host \notin groups
        /\ groups' = groups \cup {req.host}
        /\ believed' = [believed EXCEPT !.groups = @ \cup {req.host}]
     \/ UNCHANGED <<groups, believed>>
  /\ UNCHANGED <<state, sock, protocol, bound, addr, misdirected, closeDue>>

Leave(req, rest) ==
  /\ stack' = rest
  /\ \/ /\ sock = "open" /\ protocol = 4 /\ req.host \in groups
        /\ groups' = groups \ {req.host}
        /\ believed' = [believed EXCEPT !.groups = @ \ {req.host}]
     \/ UNCHANGED <<groups, believed>>
  /\ UNCHANGED <<state, sock, protocol, bound, addr, misdirected, closeDue>>

Run(req, info, rest) ==
  \/ req.call = "listen" /\ Listen(req, info, rest)
  \/ req.call \in {"send", "reply"} /\ SendTo(req, rest)
  \/ req.call = "join" /\ Join(req, rest)
  \/ req.call = "leave" /\ Leave(req, rest)

(***************************************************************************)
(* The application's calls.                                                *)
(***************************************************************************)

\* Socket::create up to the first report: it closes, and SocketLinux::create
\* closes again.
Create(p, req) == CloseImpl(<<Closing, Opening(p, req)>> \o stack)

\* Socket::checkProtocol: the family of the address getaddrinfo finds (for a
\* null one 127.0.0.1), 4 for a lookup that fails, or, with the check off, what
\* the descriptor has.
Named(h) == IF h = NoHost THEN Loopback ELSE h
Lookup(h) ==
  IF ~checkIpv6Only
    THEN {[protocol |-> protocol, info |-> addrInfo]}
    ELSE {[protocol |-> Family(Named(h)), info |-> Named(h)]}
         \cup (IF LookupFails THEN {[protocol |-> 4, info |-> NoHost]} ELSE {})

\* The families a call uses: its address's and the answer of the lookup.  An
\* answer to a datagram uses the sender's; the address shown is the library's.
Uses(req, answer) ==
  (IF req.call = "reply" /\ answer.info # NoHost THEN {} ELSE {answer.protocol})
  \cup (IF req.to # NoHost THEN {Family(req.to)} ELSE {})
  \cup (IF req.call = "listen" /\ req.host # NoHost THEN {Family(req.host)} ELSE {})

\* The first half of every call: checkProtocol(), and create() if the
\* descriptor is closed or of the other family.
Call(req, h) ==
  \E answer \in Lookup(h) :
    /\ addrInfo' = answer.info
    /\ families' = families \cup Uses(req, answer)
    /\ IF state = "sClose" \/ answer.protocol # protocol
         THEN Create(answer.protocol, req)
         ELSE Run(req, answer.info, stack) /\ UNCHANGED lost
    /\ UNCHANGED <<addrUdp, checkIpv6Only>>

CallListen ==
  /\ MayCall("listen")
  /\ \E h \in Hosts \cup {NoHost} : Call(Request("listen", h, NoHost), h)

CallSend ==
  /\ MayCall("send")
  /\ \E h \in Hosts : Call(Request("send", h, h), h)

\* What addr->getIp() of an sMessage report shows.  The kernel writes the
\* sender into an object of the family of the first receive.
Shown(sender) == IF addrUdp = Family(sender) THEN sender
                 ELSE IF addrUdp = 4 THEN Zero ELSE Garbled

\* A handler of sMessage answers the address it was shown (main.cpp).
CallReply ==
  /\ MayCall("reply") /\ TopIs("handler") /\ Head(stack).ev = "sMessage"
  /\ LET sender == Head(stack).from
     IN Call(Request("reply", Shown(sender), sender), Shown(sender))

CallAddMembership ==
  /\ MayCall("addMembership")
  /\ \E g \in Groups : Call(Request("join", g, NoHost), NoHost)

CallDropMembership ==
  /\ MayCall("dropMembership")
  /\ \E g \in Groups : Call(Request("leave", g, NoHost), NoHost)

\* create(-1) keeps the protocol of the implementation.
FaultyResolve(p) == p
Resolve(p) == IF p = -1 THEN protocol ELSE p

CallCreate ==
  /\ MayCall("create")
  /\ \E p \in {-1, 4, 6} :
       /\ Create(p, Request("none", NoHost, NoHost))
       /\ families' = families \cup {IF p = -1 THEN protocol ELSE p}
  /\ UNCHANGED <<addrUdp, addrInfo, checkIpv6Only>>

CallClose ==
  /\ MayCall("close")
  /\ CloseImpl(stack)
  /\ UNCHANGED <<addrUdp, addrInfo, checkIpv6Only, families>>

\* Socket::getIp and getPort make the address object if there is none.
CallGetIp ==
  /\ MayCall("getIp")
  /\ addr' = IF addr = NullAddr THEN [NullAddr EXCEPT !.family = protocol] ELSE addr
  /\ families' = families \cup {protocol}
  /\ UNCHANGED <<state, sock, protocol, kernelVars, addrUdp, addrInfo,
                 checkIpv6Only, stack, believed, misdirected, closeDue, lost>>

(***************************************************************************)
(* The frames that continue a library function.                            *)
(***************************************************************************)
HandlerReturn ==
  /\ TopIs("handler")
  /\ stack' = Tail(stack)
  /\ UNCHANGED <<state, sock, protocol, kernelVars, addr, addrUdp, addrInfo,
                 checkIpv6Only, history>>

DoClose ==
  /\ TopIs("close")
  /\ CloseImpl(Tail(stack))
  /\ UNCHANGED <<addrUdp, addrInfo, checkIpv6Only, families>>

\* The rest of SocketLinux::create, which assigns the result of ::socket to sock
\* whatever sock held, and of Socket::create.
DoOpen ==
  /\ TopIs("open")
  /\ lost' = (lost \/ sock # "none")
  /\ protocol' = Resolve(Head(stack).protocol)
  /\ bound' = "no" /\ groups' = {}
  /\ \/ /\ sock' = "open"
        /\ state' = "sDisconnected"
        /\ stack' = IF Head(stack).req.call = "none" THEN Tail(stack)
                    ELSE <<Running(Head(stack).req)>> \o Tail(stack)
     \/ /\ sock' = "none"
        /\ stack' = Tail(stack)
        /\ UNCHANGED state
  /\ UNCHANGED <<addr, addrUdp, addrInfo, checkIpv6Only, believed, families,
                 misdirected, closeDue>>

DoRun ==
  /\ TopIs("run")
  /\ Run(Head(stack).req, addrInfo, Tail(stack))
  /\ UNCHANGED <<addrUdp, addrInfo, checkIpv6Only, families, lost>>

Continue == DoClose \/ DoOpen \/ DoRun

(***************************************************************************)
(* Socket::update: only SocketStateListening reads, by Socket::recvfrom.   *)
(* An empty datagram is taken for the end of a stream.  After an error     *)
(* recvfrom() closes a second time.  Without a descriptor there is nothing *)
(* that select() could find readable.                                      *)
(***************************************************************************)
FaultyUdpFamily == 4           \* addrUdp is made by the constructor
UdpFamily == IF addrUdp = 0 THEN protocol ELSE addrUdp

Update ==
  /\ stack = <<>> /\ state = "sListening" /\ sock = "open"
  /\ addrUdp' = UdpFamily
  /\ \/ /\ \E h \in Hosts : /\ Family(h) = protocol
                            /\ stack' = <<Handler("sMessage", h)>>
        /\ UNCHANGED closeDue
     \/ /\ closeDue' = TRUE
        /\ stack' \in {<<Closing>>,
                       <<Handler("sError", NoHost), Closing, Closing>>}
     \/ UNCHANGED <<stack, closeDue>>
  /\ UNCHANGED <<state, sock, protocol, kernelVars, addr, addrInfo, checkIpv6Only,
                 believed, families, misdirected, lost>>

\* Socket::Socket().
Init ==
  /\ state = "sClose" /\ sock = "none" /\ protocol = 4
  /\ bound = "no" /\ groups = {}
  /\ addr = NullAddr /\ addrUdp = 0 /\ addrInfo = NoHost
  /\ checkIpv6Only \in CheckIpv6Only
  /\ stack = <<>>
  /\ believed = Nothing /\ families = {} /\ misdirected = {}
  /\ closeDue = FALSE /\ lost = FALSE

Next ==
  \/ CallListen \/ CallSend \/ CallReply
  \/ CallAddMembership \/ CallDropMembership
  \/ CallCreate \/ CallClose \/ CallGetIp
  \/ HandlerReturn \/ Continue
  \/ Update

Spec == Init /\ [][Next]_vars

(***************************************************************************)
(* Properties.                                                             *)
(***************************************************************************)
\* The type invariant.
TypeOK ==
  /\ state \in {"sClose", "sDisconnected", "sListening"}
  /\ sock \in {"none", "open"}
  /\ protocol \in {4, 6}
  /\ bound \in {"no", "auto"} \cup Shows
  /\ groups \subseteq Groups
  /\ addr \in [family : {0, 4, 6}, host : Shows]
  /\ addrUdp \in {0, 4, 6}
  /\ addrInfo \in Shows \cup {NoHost}
  /\ checkIpv6Only \in BOOLEAN
  /\ stack \in Seq(Frames)
  /\ believed \in [at : Shows \cup {"nowhere"}, groups : SUBSET Groups]
  /\ families \subseteq {4, 6}
  /\ misdirected \subseteq {"send", "reply"}
  /\ closeDue \in BOOLEAN
  /\ lost \in BOOLEAN

\* One family was used: by the addresses of calls, the answers they got from
\* checkProtocol() (IPv4 for a null address, a membership, a failed lookup)
\* and the senders that were answered.
OneFamily == Cardinality(families) <= 1

\* What the application was told and has not seen end by sClose is so, until a
\* descriptor that a handler opened inside create() is overwritten
\* (SocketLinux.cpp:31), of which no report tells: after sListening the
\* descriptor is bound, to the address that was asked for as long as there was
\* one family, and after addMembership() it is in the group.
BeliefIsTrue ==
  ~lost =>
    /\ believed.at # "nowhere" =>
         /\ sock = "open" /\ state = "sListening"
         /\ bound \notin {"no", "auto"}
         /\ OneFamily => bound = believed.at
    /\ believed.groups \subseteq groups

\* With one family of addresses, a datagram for which send() succeeds goes to
\* the address that was named, whatever was sent, bound or read before.
SentToPeer == OneFamily => "send" \notin misdirected

\* With one family, an answer to the address an sMessage report shows goes to
\* the sender of that datagram (main.cpp:253).
ReplyReachesSender == OneFamily => "reply" \notin misdirected

\* An error of recvfrom, and what it takes for the end, have led to sClose by
\* the time update() returns, whatever the handlers called in between.
FailureEndsInClose == stack = <<>> => ~closeDue

\* The same as SentToPeer for a Socket that uses both families, as one that
\* supports "socket ipv4/v6" (CHANGELOG.md:9) may.
AlwaysSentToPeer == "send" \notin misdirected

\* What DatagramLifecycle promises.
Binding == IF bound \in {"no", "auto"} THEN bound ELSE "listen"

Lifecycle == INSTANCE DatagramLifecycle
  WITH phase <- state, binding <- Binding, joined <- groups

\* The Socket implements it, whatever its handlers call while a create() is
\* going on or an error is being reported, up to the step, if there is one, that
\* overwrites an open descriptor: a descriptor is bound once, keeps its
\* memberships until it is closed, and is closed before another is opened.
LifecycleUntilLoss ==
  Lifecycle!Init /\ [][lost' \/ Lifecycle!Next]_(Lifecycle!lifeVars)
=============================================================================
