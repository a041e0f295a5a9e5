--------------------------- MODULE UdpSocketProofs --------------------------
(***************************************************************************)
(* Proofs about UdpSocket, for any hosts, groups and calls of the          *)
(* application and any depth of its handlers.                              *)
(***************************************************************************)
EXTENDS UdpSocket, SequenceTheorems, FiniteSetTheorems, TLAPS

(***************************************************************************)
(* The inductive invariant.  Its parts on addresses hold by what has been  *)
(* seen of families: whatever was put into an address object was counted,  *)
(* and with one family a call finds the descriptor closed or of that       *)
(* family, so that no handler runs between its lookup and its bind().      *)
(***************************************************************************)
One(fs) == \A x, y \in fs : x = y

\* A pending request, by the families counted; held: there is an `addr`.
RequestFor(r, fs, held) ==
  /\ r.call \in {"listen", "send"} /\ r.host # NoHost =>
       r.host \in Hosts /\ Family(r.host) \in fs
  /\ r.call = "listen" => r.host \in Hosts \cup {NoHost}
  /\ r.call = "send" => r.host # NoHost /\ r.to = r.host
  /\ r.call = "reply" =>
       /\ r.to \in Hosts /\ Family(r.to) \in fs /\ held
       /\ r.host \in Shows /\ (One(fs) => r.host = r.to)
  /\ r.call \in {"join", "leave"} => r.host \in Groups

\* With one family listen() finds its own lookup, or none.
LookedUp(r, fs, info) ==
  One(fs) /\ r.call = "listen" /\ r.host # NoHost => info \in {NoHost, r.host}

\* A descriptor is opened for a family that counts.
FrameOK(f) ==
  /\ f.op = "handler" /\ f.ev = "sMessage" =>
       f.from \in Hosts /\ addr.family # 0 /\ addrUdp # 0
  /\ f.op = "open" =>
       /\ RequestFor(f.req, families, addr.family # 0)
       /\ LookedUp(f.req, families, addrInfo)
       /\ Resolve(f.protocol) \in families
  /\ f.op = "run" =>
       /\ RequestFor(f.req, families, addr.family # 0)
       /\ LookedUp(f.req, families, addrInfo)
       /\ sock = "open"

NoRun(s) == \A k \in 1..Len(s) : s[k].op # "run"
NoOpen(s) == \A k \in 1..Len(s) : s[k].op # "open"

\* Frames that open a descriptor for listen(): there are none, or nothing but
\* closing is going on above them.
Listens(f) == f.op = "open" /\ f.req.call = "listen"
NoListen(s) == \A k \in 1..Len(s) : ~Listens(s[k])
Waiting(s) ==
  \A k \in 1..Len(s) : Listens(s[k]) => \A j \in 1..(k - 1) : s[j].op = "close"
Undisturbed(s, fs, descriptor) ==
  One(fs) => NoListen(s) \/ (descriptor = "none" /\ Waiting(s))

Shape(s, due) ==
  /\ \A k \in 1..Len(s) : s[k].op = "run" => k = 1
  /\ due => s # <<>> /\ s[Len(s)].op = "close" /\ NoOpen(s)

StackOK ==
  /\ \A k \in 1..Len(stack) : FrameOK(stack[k])
  /\ Shape(stack, closeDue)
  /\ Undisturbed(stack, families, sock)

\* What the application believes of a descriptor that is not lost.
Believable ==
  /\ sock = "none" => state = "sClose" /\ believed = Nothing
  /\ believed.at # "nowhere" =>
       /\ state = "sListening" /\ bound \notin {"no", "auto"}
       /\ One(families) => bound = believed.at
  /\ believed.groups \subseteq groups

SocketOK ==
  /\ sock = "open" =>
       /\ state # "sClose" /\ protocol \in families
       /\ state = "sListening" => bound # "no"
  /\ sock = "none" => ~closeDue /\ bound = "no" /\ groups = {}
  /\ ~lost => Believable
  /\ state = "sListening" => addr.family # 0
  /\ addr.family = 0 => addr = NullAddr
  /\ addr.family # 0 => addr.family \in families
  /\ addrUdp # 0 => addrUdp \in families
  /\ addrInfo # NoHost => checkIpv6Only /\ Family(addrInfo) \in families
  /\ One(families) => misdirected = {}

Inv == TypeOK /\ StackOK /\ SocketOK

(***************************************************************************)
(* Frames and stacks.                                                      *)
(***************************************************************************)
LEMMA FrameParts ==
  ASSUME NEW f \in Frames
  PROVE  /\ f.op \in {"handler", "close", "open", "run"}
         /\ f.op = "handler" =>
              f.ev \in {"sListening", "sMessage", "sError", "sClose"}
              /\ f.from \in Hosts \cup {NoHost}
         /\ f.op = "open" => f.protocol \in {-1, 4, 6} /\ f.req \in Requests
         /\ f.op = "run" => f.req \in Requests
BY DEF Frames

LEMMA HandlerFrame ==
  ASSUME NEW ev \in {"sListening", "sMessage", "sError", "sClose"},
         NEW from \in Hosts \cup {NoHost}
  PROVE  /\ Handler(ev, from) \in Frames /\ Handler(ev, from).op = "handler"
         /\ Handler(ev, from).ev = ev /\ Handler(ev, from).from = from
BY DEF Handler, Frames

LEMMA OtherFrames ==
  ASSUME NEW p \in {-1, 4, 6}, NEW r \in Requests
  PROVE  /\ Closing \in Frames /\ Closing.op = "close"
         /\ Opening(p, r) \in Frames /\ Opening(p, r).op = "open"
         /\ Opening(p, r).protocol = p /\ Opening(p, r).req = r
         /\ Running(r) \in Frames /\ Running(r).op = "run" /\ Running(r).req = r
BY DEF Closing, Opening, Running, Frames

LEMMA Push ==
  ASSUME NEW s \in Seq(Frames), NEW f \in Frames
  PROVE  /\ <<f>> \o s \in Seq(Frames) /\ Len(<<f>> \o s) = Len(s) + 1
         /\ Len(s) \in Nat
         /\ \A k \in 1..(Len(s) + 1) :
              (<<f>> \o s)[k] = IF k = 1 THEN f ELSE s[k - 1]
<1>1. <<f>> \in Seq(Frames) /\ Len(<<f>>) = 1 /\ <<f>>[1] = f
  OBVIOUS
<1> QED BY <1>1, ConcatProperties, LenProperties

LEMMA PushTwo ==
  ASSUME NEW s \in Seq(Frames), NEW c \in Frames, NEW o \in Frames
  PROVE  <<c, o>> \o s = <<c>> \o (<<o>> \o s)
<1>1. <<c>> \in Seq(Frames) /\ <<o>> \in Seq(Frames)
  OBVIOUS
<1>2. <<c>> \o (<<o>> \o s) = (<<c>> \o <<o>>) \o s
  BY <1>1, ConcatAssociative
<1>3. <<c>> \o <<o>> = <<c, o>>
  <2>1. /\ Len(<<c>> \o <<o>>) = 2 /\ <<c>> \o <<o>> \in Seq(Frames)
        /\ (<<c>> \o <<o>>)[1] = c /\ (<<c>> \o <<o>>)[2] = o
    BY Push, <1>1, Len(<<o>>) = 1, <<o>>[1] = o
  <2>2. <<c, o>> \in Seq(Frames) /\ Len(<<c, o>>) = 2
    OBVIOUS
  <2>3. <<c, o>>[1] = c /\ <<c, o>>[2] = o
    OBVIOUS
  <2>4. \A i \in 1..2 : i = 1 \/ i = 2
    OBVIOUS
  <2> QED BY <2>1, <2>2, <2>3, <2>4, SeqEqual
<1> QED BY <1>2, <1>3

LEMMA Pop ==
  ASSUME NEW s \in Seq(Frames), s # <<>>
  PROVE  /\ Head(s) \in Frames /\ Tail(s) \in Seq(Frames)
         /\ Head(s) = s[1] /\ Len(s) \in Nat /\ Len(s) > 0
         /\ Len(Tail(s)) = Len(s) - 1
         /\ \A k \in 1..(Len(s) - 1) : Tail(s)[k] = s[k + 1]
<1>1. Head(s) = s[1] /\ Len(s) > 0
  OBVIOUS
<1> QED BY <1>1, HeadTailProperties, LenProperties

\* A frame is put on a stack on which no request runs.
LEMMA PushShape ==
  ASSUME NEW s \in Seq(Frames), NEW f \in Frames, NEW due \in BOOLEAN,
         Shape(s, due), NoRun(s), due => f.op # "open"
  PROVE  /\ Shape(<<f>> \o s, due)
         /\ f.op # "run" => NoRun(<<f>> \o s)
         /\ ~Listens(f) /\ NoListen(s) => NoListen(<<f>> \o s)
         /\ f.op = "close" /\ Waiting(s) => Waiting(<<f>> \o s)
         /\ NoListen(s) => Waiting(<<f>> \o s)
<1> DEFINE t == <<f>> \o s
<1>1. PICK l \in Nat : l = Len(s)
  BY LenProperties
<1>2. /\ t \in Seq(Frames) /\ Len(t) = l + 1
      /\ \A k \in 1..(l + 1) : t[k] = IF k = 1 THEN f ELSE s[k - 1]
  BY <1>1, Push
<1> HIDE DEF t
<1>3. /\ t[1] = f /\ \A k \in 2..(l + 1) : k - 1 \in 1..l /\ t[k] = s[k - 1]
  BY <1>2
<1>4. \A k \in 1..(l + 1) : k = 1 \/ k \in 2..(l + 1)
  OBVIOUS
<1>5. ASSUME NEW k \in 1..(l + 1), t[k].op = "run" PROVE k = 1
  BY <1>1, <1>3, <1>4, <1>5 DEF NoRun
<1>6. ASSUME due PROVE t # <<>> /\ t[Len(t)].op = "close" /\ NoOpen(t)
  <2>1. s # <<>> /\ s[l].op = "close" /\ NoOpen(s)
    BY <1>1, <1>6 DEF Shape
  <2>2. l > 0
    BY <1>1, <2>1, EmptySeq
  <2>3. l + 1 \in 2..(l + 1) /\ (l + 1) - 1 = l
    BY <2>2
  <2>4. t[l + 1] = s[l]
    BY <1>3, <2>3
  <2>5. t # <<>>
    BY <1>2, EmptySeq
  <2>6. NoOpen(t)
    BY <1>1, <1>2, <1>3, <1>4, <1>6, <2>1 DEF NoOpen
  <2> QED BY <1>2, <2>1, <2>4, <2>5, <2>6
<1>7. Shape(t, due)
  BY <1>2, <1>5, <1>6 DEF Shape
<1>8. f.op # "run" => NoRun(t)
  BY <1>1, <1>2, <1>3, <1>4 DEF NoRun
<1>9. ~Listens(f) /\ NoListen(s) => NoListen(t)
  BY <1>1, <1>2, <1>3, <1>4 DEF NoListen
<1>10. ASSUME f.op = "close", Waiting(s) PROVE Waiting(t)
  <2> SUFFICES ASSUME NEW k \in 1..(l + 1), Listens(t[k]), NEW j \in 1..(k - 1)
               PROVE  t[j].op = "close"
    BY <1>2 DEF Waiting
  <2>1. k \in 2..(l + 1) /\ (j = 1 \/ (j \in 2..(l + 1) /\ j - 1 \in 1..((k - 1) - 1)))
    OBVIOUS
  <2>2. Listens(s[k - 1]) /\ k - 1 \in 1..Len(s)
    BY <1>1, <1>3, <2>1
  <2>3. \A i \in 1..((k - 1) - 1) : s[i].op = "close"
    BY <1>10, <2>2 DEF Waiting
  <2> QED BY <1>3, <1>10, <2>1, <2>3
<1>11. ASSUME NoListen(s) PROVE Waiting(t)
  <2> SUFFICES ASSUME NEW k \in 1..(l + 1), Listens(t[k]) PROVE 1..(k - 1) = {}
    BY <1>2 DEF Waiting
  <2>1. k = 1
    BY <1>1, <1>3, <1>4, <1>11 DEF NoListen
  <2> QED BY <2>1
<1> QED BY <1>7, <1>8, <1>9, <1>10, <1>11 DEF t

LEMMA PopShape ==
  ASSUME NEW s \in Seq(Frames), s # <<>>, NEW due \in BOOLEAN, NEW due2 \in BOOLEAN,
         Shape(s, due), due2 => due /\ Head(s).op # "close"
  PROVE  /\ Shape(Tail(s), due2) /\ NoRun(Tail(s))
         /\ NoListen(s) => NoListen(Tail(s))
         /\ Waiting(s) => Waiting(Tail(s))
         /\ Waiting(s) /\ Head(s).op # "close" => NoListen(Tail(s))
<1> DEFINE t == Tail(s)
<1>1. PICK l \in Nat : l = Len(s)
  BY LenProperties
<1>2. /\ Head(s) = s[1] /\ l > 0 /\ t \in Seq(Frames) /\ Len(t) = l - 1
      /\ \A k \in 1..(l - 1) : t[k] = s[k + 1]
  BY <1>1, Pop
<1> HIDE DEF t
<1>3. \A k \in 1..(l - 1) : k + 1 \in 1..l /\ k + 1 # 1 /\ 1 \in 1..((k + 1) - 1)
  OBVIOUS
<1>4. NoRun(t)
  BY <1>1, <1>2, <1>3 DEF NoRun, Shape
<1>5. ASSUME due2 PROVE t # <<>> /\ t[Len(t)].op = "close" /\ NoOpen(t)
  <2>1. s[l].op = "close" /\ s[1].op # "close" /\ NoOpen(s)
    BY <1>1, <1>2, <1>5 DEF Shape
  <2>2. l - 1 \in 1..(l - 1) /\ (l - 1) + 1 = l
    BY <1>2, <2>1
  <2>3. t[l - 1] = s[l]
    BY <1>2, <2>2
  <2>4. t # <<>>
    BY <1>2, <2>2, EmptySeq
  <2>5. NoOpen(t)
    BY <1>1, <1>2, <1>3, <2>1 DEF NoOpen
  <2> QED BY <1>2, <2>1, <2>3, <2>4, <2>5
<1>6. Shape(t, due2)
  BY <1>2, <1>4, <1>5 DEF Shape, NoRun
<1>7. NoListen(s) => NoListen(t)
  BY <1>1, <1>2, <1>3 DEF NoListen
<1>8. ASSUME Waiting(s) PROVE Waiting(t)
  <2> SUFFICES ASSUME NEW k \in 1..(l - 1), Listens(t[k]), NEW j \in 1..(k - 1)
               PROVE  t[j].op = "close"
    BY <1>2 DEF Waiting
  <2>1. k + 1 \in 1..l /\ j + 1 \in 1..((k + 1) - 1) /\ j \in 1..(l - 1)
    OBVIOUS
  <2>2. s[j + 1].op = "close"
    BY <1>1, <1>2, <1>8, <2>1 DEF Waiting
  <2> QED BY <1>2, <2>1, <2>2
<1>9. ASSUME Waiting(s), Head(s).op # "close" PROVE NoListen(t)
  BY <1>1, <1>2, <1>3, <1>9 DEF Waiting, NoListen
<1> QED BY <1>4, <1>6, <1>7, <1>8, <1>9 DEF t

\* Frames stay as they should be when families are added and address objects
\* are made, while no request is about to run.
LEMMA FramesKept ==
  ASSUME NEW s \in Seq(Frames), \A k \in 1..Len(s) : FrameOK(s[k]), NoRun(s),
         families \subseteq families', addr.family # 0 => addr'.family # 0,
         addrUdp # 0 => addrUdp' # 0,
         protocol' = protocol \/ protocol' \in families',
         addrInfo' = addrInfo \/ (One(families') => NoListen(s))
  PROVE  \A k \in 1..Len(s) : FrameOK(s[k])'
<1> SUFFICES ASSUME NEW k \in 1..Len(s) PROVE FrameOK(s[k])'
  OBVIOUS
<1>1. s[k] \in Frames /\ FrameOK(s[k]) /\ s[k].op # "run"
  BY ElementOfSeq DEF NoRun
<1>2. One(families') => One(families)
  BY DEF One
<1>3. ASSUME NEW r, RequestFor(r, families, addr.family # 0)
      PROVE  RequestFor(r, families', addr'.family # 0)
  BY <1>2, <1>3 DEF RequestFor
<1>4. ASSUME s[k].op = "open"
      PROVE  LookedUp(s[k].req, families', addrInfo')
  <2>1. LookedUp(s[k].req, families, addrInfo)
    BY <1>1, <1>4 DEF FrameOK
  <2>2. One(families') /\ NoListen(s) => s[k].req.call # "listen"
    BY <1>4 DEF NoListen, Listens
  <2> QED BY <1>2, <2>1, <2>2 DEF LookedUp
<1>5. ASSUME s[k].op = "open"
      PROVE  (IF s[k].protocol = -1 THEN protocol' ELSE s[k].protocol) \in families'
  BY <1>1, <1>5 DEF FrameOK, Resolve
<1> QED BY <1>1, <1>3, <1>4, <1>5 DEF FrameOK, Resolve

LEMMA PushFrames ==
  ASSUME NEW s \in Seq(Frames), NEW f \in Frames,
         \A k \in 1..Len(s) : FrameOK(s[k])', FrameOK(f)'
  PROVE  \A k \in 1..Len(<<f>> \o s) : FrameOK((<<f>> \o s)[k])'
<1> DEFINE t == <<f>> \o s
<1>1. PICK l \in Nat : l = Len(s)
  BY LenProperties
<1>2. /\ Len(t) = l + 1
      /\ \A k \in 1..(l + 1) : t[k] = IF k = 1 THEN f ELSE s[k - 1]
  BY <1>1, Push
<1> HIDE DEF t
<1>3. ASSUME NEW k \in 1..(l + 1) PROVE FrameOK(t[k])'
  <2>1. CASE k = 1
    BY <1>2, <2>1
  <2>2. CASE k # 1
    <3>1. k - 1 \in 1..l /\ t[k] = s[k - 1]
      BY <1>2, <2>2
    <3> QED BY <1>1, <3>1
  <2> QED BY <2>1, <2>2
<1> QED BY <1>2, <1>3 DEF t

(***************************************************************************)
(* The library's functions, called with the frames `rest` below them.      *)
(***************************************************************************)
Ready(rest) ==
  /\ rest \in Seq(Frames) /\ Shape(rest, closeDue) /\ NoRun(rest)
  /\ One(families) => NoListen(rest)
  /\ \A k \in 1..Len(rest) : FrameOK(rest[k])

Counted ==
  /\ families \subseteq families' /\ families' \subseteq {4, 6}
  /\ addrInfo' # NoHost => checkIpv6Only /\ Family(addrInfo') \in families'
  /\ addrInfo' \in Shows \cup {NoHost}
  /\ UNCHANGED <<addrUdp, checkIpv6Only>>

LEMMA Hosting ==
  /\ Hosts \subseteq Shows /\ Zero \in Shows /\ Loopback \in Shows
  /\ NoHost \notin Shows
  /\ \A h \in Shows : Family(h) \in {4, 6} /\ h \notin {"no", "auto"}
BY HostsAssumption DEF Shows, Hosts, Zero, Loopback, Garbled, NoHost, Family

LEMMA SockAddrFacts ==
  ASSUME TypeOK, SocketOK, Counted, NEW host \in Shows \cup {NoHost},
         addr.family # 0 \/ protocol \in families'
  PROVE  /\ SockAddr(host) \in [family : {4, 6}, host : Shows]
         /\ SockAddr(host).family \in families'
         /\ host = NoHost => SockAddr(host).host = Zero
         /\ One(families') /\ host # NoHost /\ Family(host) \in families' =>
              SockAddr(host).host = host
<1> DEFINE a == IF addr = NullAddr THEN [NullAddr EXCEPT !.family = protocol] ELSE addr
<1>1. NullAddr = [family |-> 0, host |-> Zero] /\ NullAddr.family = 0
  BY DEF NullAddr
<1>2. /\ a \in [family : {4, 6}, host : Shows] /\ a.family \in families'
  <2>1. CASE addr = NullAddr
    <3>1. a = [family |-> protocol, host |-> Zero]
      BY <1>1, <2>1
    <3>2. protocol \in {4, 6} /\ protocol \in families'
      BY <1>1, <2>1 DEF TypeOK
    <3> HIDE DEF a
    <3> QED BY <3>1, <3>2, Hosting
  <2>2. CASE addr # NullAddr
    <3>1. a = addr
      BY <2>2
    <3> HIDE DEF a
    <3> QED BY <2>2, <3>1 DEF TypeOK, SocketOK, Counted
  <2> QED BY <2>1, <2>2
<1>3. SockAddr(host) = IF host = NoHost THEN [a EXCEPT !.host = Zero]
                       ELSE IF Family(host) = a.family THEN [a EXCEPT !.host = host]
                       ELSE a
  BY DEF SockAddr
<1> HIDE DEF a
<1>4. /\ a = [family |-> a.family, host |-> a.host]
      /\ a.family \in {4, 6} /\ a.host \in Shows
  BY <1>2
<1>5. CASE host = NoHost
  <2>1. SockAddr(host) = [a EXCEPT !.host = Zero]
    BY <1>3, <1>5
  <2>2. SockAddr(host) = [family |-> a.family, host |-> Zero]
    BY <1>4, <2>1
  <2> QED BY <1>2, <1>4, <1>5, <2>2, Hosting
<1>6. CASE host # NoHost /\ Family(host) = a.family
  <2>1. SockAddr(host) = [a EXCEPT !.host = host]
    BY <1>3, <1>6, Hosting
  <2>2. SockAddr(host) = [family |-> a.family, host |-> host]
    BY <1>4, <2>1
  <2> QED BY <1>2, <1>4, <1>6, <2>2, Hosting
<1>7. CASE host # NoHost /\ Family(host) # a.family
  <2>1. SockAddr(host) = a
    BY <1>3, <1>7
  <2> QED BY <1>2, <1>7, <2>1 DEF One
<1> QED BY <1>5, <1>6, <1>7

LEMMA OneKept == ASSUME Counted PROVE One(families') => One(families)
BY DEF Counted, One

\* close().
LEMMA CloseStep ==
  ASSUME TypeOK, SocketOK, Counted, NEW rest \in Seq(Frames), Shape(rest, FALSE),
         NoRun(rest), Undisturbed(rest, families', sock),
         \A k \in 1..Len(rest) : FrameOK(rest[k])', CloseImpl(rest)
  PROVE  Inv'
<1>1. /\ sock' = "none" /\ UNCHANGED <<protocol, addr, misdirected, lost>>
      /\ bound' = "no" /\ groups' = {} /\ closeDue' = FALSE
      /\ believed' = Nothing \/ believed' = believed
      /\ state' \in {"sClose", state} /\ (state' = "sListening" => state = "sListening")
      /\ ~lost => state' = "sClose" /\ believed' = Nothing
  BY DEF CloseImpl, SocketOK, Believable, kernelVars, TypeOK
<1>2. stack' \in Seq(Frames) /\ StackOK'
  <2>1. CASE sock = "none" /\ stack' = rest
    BY <1>1, <2>1 DEF StackOK, Undisturbed
  <2>2. CASE sock # "none" /\ stack' = <<Handler("sClose", NoHost)>> \o rest
    <3>1. PICK f \in Frames : /\ f = Handler("sClose", NoHost)
                              /\ f.op = "handler" /\ f.ev = "sClose"
      BY HandlerFrame
    <3>2. FrameOK(f)' /\ ~Listens(f)
      BY <3>1 DEF FrameOK, Listens
    <3>3. PICK t : t = <<f>> \o rest
      OBVIOUS
    <3>4. t \in Seq(Frames) /\ Shape(t, FALSE) /\ (NoListen(rest) => NoListen(t))
      BY <3>2, <3>3, Push, PushShape
    <3>5. \A k \in 1..Len(t) : FrameOK(t[k])'
      BY <3>2, <3>3, PushFrames
    <3>6. One(families') => NoListen(t)
      BY <2>2, <3>4 DEF Undisturbed
    <3> QED BY <1>1, <2>2, <3>1, <3>3, <3>4, <3>5, <3>6 DEF StackOK, Undisturbed
  <2> QED BY <2>1, <2>2 DEF CloseImpl
<1>3. Nothing.at = "nowhere" /\ Nothing.groups = {}
      /\ Nothing \in [at : Shows \cup {"nowhere"}, groups : SUBSET Groups]
  BY DEF Nothing
<1>4. ~lost' => Believable'
  BY <1>1, <1>3 DEF Believable
<1>5. SocketOK'
  BY <1>1, <1>4, OneKept DEF SocketOK, Counted
<1>6. believed' \in [at : Shows \cup {"nowhere"}, groups : SUBSET Groups]
      /\ state' \in {"sClose", "sDisconnected", "sListening"}
  BY <1>1, <1>3 DEF TypeOK
<1>7. TypeOK'
  BY <1>1, <1>2, <1>6 DEF TypeOK, Counted
<1> QED BY <1>2, <1>5, <1>7 DEF Inv

\* The pending frames after a function that leaves them, or reports first.
LEMMA RestKept ==
  ASSUME TypeOK, Counted, NEW rest, Ready(rest), addr.family # 0 => addr'.family # 0,
         closeDue' = closeDue, sock' = sock, protocol' = protocol,
         \/ stack' = rest
         \/ stack' = <<Handler("sListening", NoHost)>> \o rest
  PROVE  StackOK' /\ stack' \in Seq(Frames)
<1>1. One(families') => NoListen(rest)
  BY OneKept DEF Ready
<1>2. \A k \in 1..Len(rest) : FrameOK(rest[k])'
  BY <1>1, FramesKept DEF Ready, Counted
<1>3. CASE stack' = rest
  BY <1>1, <1>2, <1>3 DEF StackOK, Ready, Undisturbed
<1>4. CASE stack' = <<Handler("sListening", NoHost)>> \o rest
  <2>1. PICK f \in Frames : /\ f = Handler("sListening", NoHost)
                            /\ f.op = "handler" /\ f.ev = "sListening"
    BY HandlerFrame
  <2>2. FrameOK(f)' /\ ~Listens(f) /\ f.op # "open"
    BY <2>1 DEF FrameOK, Listens
  <2>3. PICK t : t = <<f>> \o rest
    OBVIOUS
  <2>4. closeDue \in BOOLEAN
    BY DEF TypeOK
  <2>5. t \in Seq(Frames) /\ Shape(t, closeDue) /\ (One(families') => NoListen(t))
    BY <1>1, <2>2, <2>3, <2>4, Push, PushShape DEF Ready
  <2>6. \A k \in 1..Len(t) : FrameOK(t[k])'
    BY <1>2, <2>2, <2>3, PushFrames DEF Ready
  <2> QED BY <1>4, <2>1, <2>3, <2>5, <2>6 DEF StackOK, Undisturbed
<1> QED BY <1>3, <1>4

\* listen().
LEMMA ListenStep ==
  ASSUME TypeOK, SocketOK, Counted, NEW rest, Ready(rest), NEW r \in Requests,
         r.call = "listen", RequestFor(r, families', addr.family # 0),
         LookedUp(r, families', addrInfo'),
         protocol \in families', lost' = lost, Listen(r, addrInfo', rest)
  PROVE  Inv'
<1>1. /\ r.host \in Hosts \cup {NoHost} /\ r.host \in Shows \cup {NoHost}
      /\ r.host # NoHost => Family(r.host) \in families'
  BY Hosting DEF RequestFor
<1>2. PICK b : b = BindAddr(r, addrInfo')
  OBVIOUS
<1>3. /\ b \in [family : {4, 6}, host : Shows]
      /\ b.family \in families'
      /\ One(families') => b.host = IF r.host = NoHost THEN Zero ELSE r.host
  <2>1. CASE ByLookup(r, addrInfo')
    <3>1. b = [family |-> Family(addrInfo'), host |-> addrInfo']
      BY <1>2, <2>1 DEF BindAddr
    <3>2. addrInfo' \in Shows /\ Family(addrInfo') \in families' /\ r.host # NoHost
      BY <2>1 DEF ByLookup, Counted
    <3>3. One(families') => addrInfo' = r.host
      BY <2>1, <3>2 DEF LookedUp, ByLookup
    <3> QED BY <3>1, <3>2, <3>3, Hosting
  <2>2. CASE ~ByLookup(r, addrInfo')
    <3>1. b = SockAddr(r.host)
      BY <1>2, <2>2 DEF BindAddr
    <3> QED BY <1>1, <3>1, SockAddrFacts
  <2> QED BY <2>1, <2>2
<1>4. /\ addr' = b \/ (addr' = addr /\ sock = "none")
      /\ UNCHANGED <<sock, protocol, groups, misdirected, closeDue, lost>>
  BY <1>2 DEF Listen
<1>5. /\ addr' \in [family : {0, 4, 6}, host : Shows]
      /\ addr.family # 0 => addr'.family # 0
      /\ addr'.family = 0 => addr' = NullAddr
      /\ addr'.family # 0 => addr'.family \in families'
  BY <1>3, <1>4 DEF TypeOK, SocketOK, Counted
<1>6. CASE /\ sock = "open" /\ bound = "no" /\ addr'.family = protocol
           /\ bound' = addr'.host
           /\ state' = "sListening"
           /\ believed' = [believed EXCEPT !.at = IF r.host = NoHost THEN Zero
                                                  ELSE r.host]
           /\ stack' = <<Handler("sListening", NoHost)>> \o rest
  <2>1. addr' = b
    BY <1>4, <1>6
  <2>2. /\ believed'.at = (IF r.host = NoHost THEN Zero ELSE r.host)
        /\ believed'.groups = believed.groups
        /\ believed' \in [at : Shows \cup {"nowhere"}, groups : SUBSET Groups]
    <3>1. believed \in [at : Shows \cup {"nowhere"}, groups : SUBSET Groups]
      BY DEF TypeOK
    <3>2. (IF r.host = NoHost THEN Zero ELSE r.host) \in Shows
      BY <1>1, Hosting
    <3> QED BY <1>6, <3>1, <3>2
  <2>3. bound' \in Shows /\ bound' \notin {"no", "auto"}
    BY <1>3, <1>6, <2>1, Hosting
  <2>4. protocol # 0
    BY DEF TypeOK
  <2>5. ~lost' => Believable'
    BY <1>3, <1>4, <1>6, <2>1, <2>2, <2>3, OneKept DEF SocketOK, Believable
  <2>6. SocketOK'
    BY <1>3, <1>4, <1>5, <1>6, <2>3, <2>4, <2>5, OneKept DEF SocketOK, Counted
  <2>7. StackOK' /\ stack' \in Seq(Frames)
    BY <1>4, <1>5, <1>6, RestKept
  <2>8. TypeOK'
    BY <1>4, <1>5, <1>6, <2>2, <2>3, <2>7 DEF TypeOK, Counted
  <2> QED BY <2>6, <2>7, <2>8 DEF Inv
<1>7. CASE stack' = rest /\ UNCHANGED <<state, bound, believed>>
  <2>1. SocketOK'
    <3>1. ~lost' => Believable'
      BY <1>4, <1>7, OneKept DEF SocketOK, Believable
    <3> QED BY <1>4, <1>5, <1>7, <3>1, OneKept DEF SocketOK, Counted
  <2>2. StackOK' /\ stack' \in Seq(Frames)
    BY <1>4, <1>5, <1>7, RestKept
  <2>3. TypeOK'
    BY <1>4, <1>5, <1>7, <2>2 DEF TypeOK, Counted
  <2> QED BY <2>1, <2>2, <2>3 DEF Inv
<1> QED BY <1>6, <1>7 DEF Listen

\* send() and the answer to an sMessage.
LEMMA SendToStep ==
  ASSUME TypeOK, SocketOK, Counted, NEW rest, Ready(rest), NEW r \in Requests,
         r.call \in {"send", "reply"}, RequestFor(r, families', addr.family # 0),
         protocol \in families', lost' = lost, SendTo(r, rest)
  PROVE  Inv'
<1>1. /\ r.host \in Shows
      /\ One(families') => r.host = r.to /\ Family(r.host) \in families'
  BY Hosting DEF RequestFor
<1>2. /\ SockAddr(r.host) \in [family : {4, 6}, host : Shows]
      /\ SockAddr(r.host).family \in families'
      /\ One(families') => SockAddr(r.host).host = r.to
  BY <1>1, SockAddrFacts, Hosting
<1>3. /\ addr' = SockAddr(r.host) \/ (addr' = addr /\ sock = "none")
      /\ UNCHANGED <<state, sock, protocol, groups, believed, closeDue, lost>>
      /\ stack' = rest
      /\ bound' = bound \/ (sock = "open" /\ bound = "no" /\ bound' = "auto")
  BY DEF SendTo
<1>4. /\ addr' \in [family : {0, 4, 6}, host : Shows]
      /\ addr.family # 0 => addr'.family # 0
      /\ addr'.family = 0 => addr' = NullAddr
      /\ addr'.family # 0 => addr'.family \in families'
  BY <1>2, <1>3 DEF TypeOK, SocketOK, Counted
<1>5. /\ misdirected' \in {misdirected, misdirected \cup {r.call}}
      /\ One(families') => misdirected' = misdirected
  BY <1>1, <1>2 DEF SendTo
<1>6. ~lost' => Believable'
  BY <1>3, OneKept DEF SocketOK, Believable
<1>7. SocketOK'
  BY <1>3, <1>4, <1>5, <1>6, OneKept DEF SocketOK, Counted
<1>8. StackOK' /\ stack' \in Seq(Frames)
  BY <1>3, <1>4, RestKept
<1>9. TypeOK'
  BY <1>3, <1>4, <1>5, <1>8 DEF TypeOK, Counted
<1> QED BY <1>7, <1>8, <1>9 DEF Inv

\* addMembership() and dropMembership().
LEMMA MembershipStep ==
  ASSUME TypeOK, SocketOK, Counted, NEW rest, Ready(rest), NEW r \in Requests,
         r.host \in Groups, lost' = lost, Join(r, rest) \/ Leave(r, rest)
  PROVE  Inv'
<1>1. believed \in [at : Shows \cup {"nowhere"}, groups : SUBSET Groups]
      /\ groups \subseteq Groups
  BY DEF TypeOK
<1>2. /\ stack' = rest
      /\ UNCHANGED <<state, sock, protocol, bound, addr, misdirected, closeDue, lost>>
  BY DEF Join, Leave
<1>3. /\ believed'.at = believed.at
      /\ believed.groups \subseteq groups => believed'.groups \subseteq groups'
      /\ groups' \subseteq Groups
      /\ believed' \in [at : Shows \cup {"nowhere"}, groups : SUBSET Groups]
      /\ sock = "none" => believed' = believed /\ groups' = groups
  <2>1. CASE UNCHANGED <<groups, believed>>
    BY <1>1, <2>1
  <2>2. CASE /\ sock = "open" /\ groups' = groups \cup {r.host}
             /\ believed' = [believed EXCEPT !.groups = believed.groups \cup {r.host}]
    <3>1. believed' = [at |-> believed.at, groups |-> believed.groups \cup {r.host}]
      BY <1>1, <2>2
    <3> QED BY <1>1, <2>2, <3>1
  <2>3. CASE /\ sock = "open" /\ groups' = groups \ {r.host}
             /\ believed' = [believed EXCEPT !.groups = believed.groups \ {r.host}]
    <3>1. believed' = [at |-> believed.at, groups |-> believed.groups \ {r.host}]
      BY <1>1, <2>3
    <3> QED BY <1>1, <2>3, <3>1
  <2> QED BY <2>1, <2>2, <2>3 DEF Join, Leave
<1>4. SocketOK'
  <2>1. ~lost' => Believable'
    BY <1>2, <1>3, OneKept DEF SocketOK, Believable
  <2> QED BY <1>2, <1>3, <2>1, OneKept DEF SocketOK, Counted
<1>5. StackOK' /\ stack' \in Seq(Frames)
  BY <1>2, RestKept
<1>6. TypeOK'
  BY <1>2, <1>3, <1>5 DEF TypeOK, Counted
<1> QED BY <1>4, <1>5, <1>6 DEF Inv

LEMMA RunStep ==
  ASSUME TypeOK, SocketOK, Counted, NEW rest, Ready(rest), NEW r \in Requests,
         RequestFor(r, families', addr.family # 0),
         LookedUp(r, families', addrInfo'),
         protocol \in families', lost' = lost, Run(r, addrInfo', rest)
  PROVE  Inv'
<1>1. CASE r.call = "listen" /\ Listen(r, addrInfo', rest)
  BY <1>1, ListenStep
<1>2. CASE r.call \in {"send", "reply"} /\ SendTo(r, rest)
  BY <1>2, SendToStep
<1>3. CASE r.call \in {"join", "leave"} /\ (Join(r, rest) \/ Leave(r, rest))
  <2>1. r.host \in Groups
    BY <1>3 DEF RequestFor
  <2> QED BY <1>3, <2>1, MembershipStep
<1> QED BY <1>1, <1>2, <1>3 DEF Run

\* create() up to its first report.
LEMMA CreateStep ==
  ASSUME TypeOK, SocketOK, Counted, NEW rest, Ready(rest), stack = rest,
         NEW p \in {-1, 4, 6}, NEW r \in Requests,
         RequestFor(r, families', addr.family # 0),
         LookedUp(r, families', addrInfo'), Resolve(p) \in families',
         r.call = "listen" /\ One(families') => sock = "none",
         Create(p, r)
  PROVE  Inv'
<1>1. PICK o \in Frames : /\ o = Opening(p, r) /\ o.op = "open"
                          /\ o.protocol = p /\ o.req = r
  BY OtherFrames
<1>2. PICK c \in Frames : c = Closing /\ c.op = "close"
  BY <1>1, OtherFrames
<1>3. PICK t : t = <<c, o>> \o rest
  OBVIOUS
<1>4. PICK u : u = <<o>> \o rest
  OBVIOUS
<1>5. t = <<c>> \o u
  BY <1>3, <1>4, PushTwo DEF Ready
<1>6. CloseImpl(t)
  BY <1>1, <1>2, <1>3 DEF Create
<1>7. sock' = "none" /\ addr' = addr /\ protocol' = protocol
  BY <1>6 DEF CloseImpl, TypeOK
<1>8. FrameOK(o)' /\ FrameOK(c)' /\ ~Listens(c)
  BY <1>1, <1>2, <1>7 DEF FrameOK, Listens, Resolve
<1>9. One(families') => NoListen(rest)
  BY OneKept DEF Ready
<1>10. \A k \in 1..Len(rest) : FrameOK(rest[k])'
  BY <1>7, <1>9, FramesKept DEF Ready, Counted
<1>11. Shape(rest, FALSE) /\ FALSE \in BOOLEAN
  BY DEF Ready, Shape
<1>12. /\ u \in Seq(Frames) /\ Shape(u, FALSE) /\ NoRun(u)
       /\ NoListen(rest) => Waiting(u)
       /\ ~Listens(o) /\ NoListen(rest) => NoListen(u)
  BY <1>1, <1>4, <1>11, Push, PushShape DEF Ready
<1>13. \A k \in 1..Len(u) : FrameOK(u[k])'
  BY <1>4, <1>8, <1>10, PushFrames DEF Ready
<1>14. /\ t \in Seq(Frames) /\ Shape(t, FALSE) /\ NoRun(t)
       /\ Waiting(u) => Waiting(t)
       /\ NoListen(u) => NoListen(t)
  BY <1>2, <1>5, <1>8, <1>11, <1>12, Push, PushShape
<1>15. \A k \in 1..Len(t) : FrameOK(t[k])'
  BY <1>5, <1>8, <1>12, <1>13, PushFrames
<1>16. Undisturbed(t, families', sock)
  BY <1>1, <1>9, <1>12, <1>14 DEF Undisturbed, Listens
<1> QED BY <1>6, <1>14, <1>15, <1>16, CloseStep

(***************************************************************************)
(* The application's calls.                                                *)
(***************************************************************************)
LEMMA Known ==
  ASSUME Inv
  PROVE  /\ stack \in Seq(Frames) /\ Shape(stack, closeDue) /\ closeDue \in BOOLEAN
         /\ Undisturbed(stack, families, sock)
         /\ \A k \in 1..Len(stack) : FrameOK(stack[k])
BY DEF Inv, TypeOK, StackOK

\* A handler does not run while a request is about to; and with one family not
\* while a descriptor is being opened for listen().
LEMMA Callers ==
  ASSUME Inv, stack = <<>> \/ TopIs("handler")
  PROVE  Ready(stack)
<1>1. CASE stack = <<>>
  <2>1. Len(stack) = 0
    BY <1>1
  <2> QED BY <2>1, Known DEF NoRun, NoListen, Ready
<1>2. CASE stack # <<>> /\ Head(stack).op = "handler"
  <2>1. stack[1].op = "handler" /\ Len(stack) \in Nat /\ Len(stack) > 0
    BY <1>2, Known, Pop
  <2>2. NoRun(stack)
    BY <2>1, Known DEF NoRun, Shape
  <2>3. ASSUME Waiting(stack), NEW k \in 1..Len(stack), Listens(stack[k])
        PROVE  FALSE
    <3>1. k # 1
      BY <2>1, <2>3 DEF Listens
    <3>2. 1 \in 1..(k - 1)
      BY <3>1
    <3> QED BY <2>1, <2>3, <3>2 DEF Waiting
  <2>4. One(families) => NoListen(stack)
    BY <2>3, Known DEF NoListen, Undisturbed
  <2> QED BY <2>2, <2>4, Known DEF Ready
<1> QED BY <1>1, <1>2 DEF TopIs

LEMMA MayCallReady ==
  ASSUME Inv, NEW call, MayCall(call)
  PROVE  Ready(stack)
BY Callers DEF MayCall

LEMMA LookupFacts ==
  ASSUME TypeOK, SocketOK, NEW h \in Shows \cup {NoHost}, NEW answer \in Lookup(h)
  PROVE  /\ answer.protocol \in {4, 6} /\ answer.info \in Shows \cup {NoHost}
         /\ answer.info # NoHost =>
              checkIpv6Only /\ Family(answer.info) = answer.protocol
         /\ h # NoHost => answer.info \in {NoHost, h}
<1>1. Named(h) \in Shows /\ (h # NoHost => Named(h) = h) /\ Family(Named(h)) \in {4, 6}
  BY Hosting DEF Named
<1>2. CASE ~checkIpv6Only
  <2>1. answer = [protocol |-> protocol, info |-> addrInfo] /\ addrInfo = NoHost
    BY <1>2 DEF Lookup, SocketOK
  <2> QED BY <2>1 DEF TypeOK
<1>3. CASE checkIpv6Only
  <2>1. \/ answer = [protocol |-> Family(Named(h)), info |-> Named(h)]
        \/ answer = [protocol |-> 4, info |-> NoHost]
    BY <1>3 DEF Lookup
  <2> QED BY <1>1, <1>3, <2>1
<1> QED BY <1>2, <1>3 DEF TypeOK

\* The first half of a call.
LEMMA CallStep ==
  ASSUME Inv, Ready(stack), NEW req \in Requests,
         NEW h \in Shows \cup {NoHost},
         req.call = "reply" => h # NoHost /\ Family(h) \in families,
         req.call = "listen" => h = req.host,
         RequestFor(req, families', addr.family # 0), Call(req, h)
  PROVE  Inv'
<1>1. PICK answer \in Lookup(h) :
        /\ addrInfo' = answer.info
        /\ families' = families \cup Uses(req, answer)
        /\ IF state = "sClose" \/ answer.protocol # protocol
             THEN Create(answer.protocol, req)
             ELSE Run(req, answer.info, stack) /\ UNCHANGED lost
        /\ UNCHANGED <<addrUdp, checkIpv6Only>>
  BY DEF Call
<1>2. /\ answer.protocol \in {4, 6} /\ answer.info \in Shows \cup {NoHost}
      /\ answer.info # NoHost =>
           checkIpv6Only /\ Family(answer.info) = answer.protocol
      /\ h # NoHost => answer.info \in {NoHost, h}
  BY LookupFacts DEF Inv
<1>3. answer.protocol \in families'
  <2>1. CASE req.call = "reply" /\ answer.info # NoHost
    BY <1>1, <1>2, <2>1
  <2>2. CASE ~(req.call = "reply" /\ answer.info # NoHost)
    BY <1>1, <2>2 DEF Uses
  <2> QED BY <2>1, <2>2
<1>4. Counted
  <2>1. Family(req.to) \in {4, 6} /\ Family(req.host) \in {4, 6}
    BY DEF Family
  <2>2. families' \subseteq {4, 6}
    BY <1>1, <1>2, <2>1 DEF Uses, Inv, TypeOK
  <2> QED BY <1>1, <1>2, <1>3, <2>2 DEF Counted
<1>5. LookedUp(req, families', addrInfo')
  BY <1>1, <1>2 DEF LookedUp
<1>6. PICK s \in Seq(Frames) : s = stack
  BY Known
<1>7. Ready(s)
  BY <1>6
<1>8. CASE /\ state = "sClose" \/ answer.protocol # protocol
           /\ Create(answer.protocol, req)
  <2>1. Resolve(answer.protocol) = answer.protocol
    BY <1>2 DEF Resolve
  <2>2. ASSUME One(families') PROVE sock = "none"
    <3>1. sock = "open" => state # "sClose" /\ protocol \in families'
      BY <1>4 DEF Counted, Inv, SocketOK
    <3> QED BY <1>3, <1>8, <2>2, <3>1 DEF One, Inv, TypeOK
  <2> QED BY <1>2, <1>3, <1>4, <1>5, <1>6, <1>7, <1>8, <2>1, <2>2, CreateStep DEF Inv
<1>9. CASE answer.protocol = protocol /\ Run(req, answer.info, stack) /\ UNCHANGED lost
  <2>1. Run(req, addrInfo', s)
    BY <1>1, <1>6, <1>9 DEF Run, Listen, SendTo, Join, Leave
  <2> QED BY <1>3, <1>4, <1>5, <1>7, <1>9, <2>1, RunStep DEF Inv
<1> QED BY <1>1, <1>8, <1>9

LEMMA RequestParts ==
  ASSUME NEW call \in {"listen", "send", "reply", "join", "leave", "none"},
         NEW host \in Shows \cup Groups \cup {NoHost}, NEW to \in Hosts \cup {NoHost}
  PROVE  /\ Request(call, host, to) \in Requests /\ Request(call, host, to).call = call
         /\ Request(call, host, to).host = host /\ Request(call, host, to).to = to
BY DEF Request, Requests

LEMMA ListenCall == ASSUME Inv, CallListen PROVE Inv'
<1>1. PICK h \in Hosts \cup {NoHost} : Call(Request("listen", h, NoHost), h)
  BY DEF CallListen
<1>2. PICK req \in Requests : /\ req = Request("listen", h, NoHost)
                              /\ req.call = "listen" /\ req.host = h
  BY RequestParts, Hosting
<1>3. Call(req, h)
  BY <1>1, <1>2
<1>4. h # NoHost => Family(h) \in families'
  BY <1>2, <1>3 DEF Call, Uses
<1>5. RequestFor(req, families', addr.family # 0)
  BY <1>2, <1>4 DEF RequestFor
<1>6. Ready(stack)
  BY MayCallReady DEF CallListen
<1> QED BY <1>2, <1>3, <1>5, <1>6, Hosting, CallStep

LEMMA SendCall == ASSUME Inv, CallSend PROVE Inv'
<1>1. PICK h \in Hosts : Call(Request("send", h, h), h)
  BY DEF CallSend
<1>2. PICK req \in Requests : /\ req = Request("send", h, h)
                              /\ req.call = "send" /\ req.host = h /\ req.to = h
  BY RequestParts, Hosting
<1>3. Call(req, h)
  BY <1>1, <1>2
<1>4. Family(h) \in families' /\ h # NoHost
  BY <1>2, <1>3, Hosting DEF Call, Uses
<1>5. RequestFor(req, families', addr.family # 0)
  BY <1>2, <1>4 DEF RequestFor
<1>6. Ready(stack)
  BY MayCallReady DEF CallSend
<1> QED BY <1>2, <1>3, <1>5, <1>6, Hosting, CallStep

LEMMA ReplyCall == ASSUME Inv, CallReply PROVE Inv'
<1>1. PICK sender : sender = Head(stack).from
  OBVIOUS
<1>2. /\ sender \in Hosts /\ addr.family # 0 /\ addrUdp # 0
  <2>1. stack # <<>> /\ Head(stack).op = "handler" /\ Head(stack).ev = "sMessage"
    BY DEF CallReply, TopIs
  <2>2. Head(stack) = stack[1] /\ 1 \in 1..Len(stack)
    BY <2>1, Known, Pop
  <2>3. FrameOK(stack[1])
    BY <2>2, Known
  <2> QED BY <1>1, <2>1, <2>2, <2>3 DEF FrameOK
<1>3. Call(Request("reply", Shown(sender), sender), Shown(sender))
  BY <1>1 DEF CallReply
<1>4. /\ Shown(sender) \in Shows /\ (addrUdp = Family(sender) => Shown(sender) = sender)
      /\ Family(Shown(sender)) = addrUdp
  <2>1. addrUdp \in {4, 6} /\ Family(sender) \in {4, 6}
    BY <1>2, Hosting DEF Inv, TypeOK
  <2>2. Family(Zero) = 4 /\ Family(Garbled) = 6 /\ Zero \in Shows /\ Garbled \in Shows
    BY HostsAssumption DEF Family, Zero, Garbled, Shows
  <2> QED BY <1>2, <2>1, <2>2, Hosting DEF Shown
<1>5. PICK req \in Requests : /\ req = Request("reply", Shown(sender), sender)
                              /\ req.call = "reply" /\ req.host = Shown(sender)
                              /\ req.to = sender
  BY <1>2, <1>4, RequestParts, Hosting
<1>6. Call(req, Shown(sender))
  BY <1>3, <1>5
<1>7. Family(sender) \in families' /\ families \subseteq families'
  BY <1>2, <1>5, <1>6, Hosting DEF Call, Uses
<1>8. addrUdp \in families
  BY <1>2 DEF Inv, SocketOK
<1>9. One(families') => req.host = req.to
  BY <1>2, <1>4, <1>5, <1>7, <1>8 DEF One
<1>10. RequestFor(req, families', addr.family # 0)
  BY <1>2, <1>4, <1>5, <1>7, <1>9 DEF RequestFor
<1>11. Ready(stack)
  BY MayCallReady DEF CallReply
<1> QED BY <1>4, <1>5, <1>6, <1>8, <1>10, <1>11, Hosting, CallStep

LEMMA MembershipCall == ASSUME Inv, CallAddMembership \/ CallDropMembership PROVE Inv'
<1>1. PICK g \in Groups, call \in {"join", "leave"} : Call(Request(call, g, NoHost), NoHost)
  BY DEF CallAddMembership, CallDropMembership
<1>2. PICK req \in Requests : /\ req = Request(call, g, NoHost)
                              /\ req.call = call /\ req.host = g
  BY RequestParts
<1>3. Call(req, NoHost)
  BY <1>1, <1>2
<1>4. RequestFor(req, families', addr.family # 0)
  BY <1>2 DEF RequestFor
<1>5. Ready(stack)
  BY MayCallReady DEF CallAddMembership, CallDropMembership
<1> QED BY <1>2, <1>3, <1>4, <1>5, CallStep

LEMMA CreateCall == ASSUME Inv, CallCreate PROVE Inv'
<1>1. PICK p \in {-1, 4, 6} :
        /\ Create(p, Request("none", NoHost, NoHost))
        /\ families' = families \cup {IF p = -1 THEN protocol ELSE p}
  BY DEF CallCreate
<1>2. PICK req \in Requests : /\ req = Request("none", NoHost, NoHost)
                              /\ req.call = "none"
  BY RequestParts
<1>3. addrInfo' = addrInfo /\ UNCHANGED <<addrUdp, checkIpv6Only>>
  BY DEF CallCreate
<1>4. Counted
  BY <1>1, <1>3 DEF Counted, Inv, TypeOK, SocketOK
<1>5. RequestFor(req, families', addr.family # 0) /\ LookedUp(req, families', addrInfo')
  BY <1>2 DEF RequestFor, LookedUp
<1>6. PICK s \in Seq(Frames) : s = stack
  BY Known
<1>7. Ready(s)
  BY <1>6, MayCallReady DEF CallCreate
<1>8. Create(p, req) /\ Resolve(p) \in families'
  BY <1>1, <1>2 DEF Resolve
<1> QED BY <1>2, <1>4, <1>5, <1>6, <1>7, <1>8, CreateStep DEF Inv

LEMMA CloseCall == ASSUME Inv, CallClose PROVE Inv'
<1>1. PICK s \in Seq(Frames) : s = stack
  BY Known
<1>2. Ready(s)
  BY <1>1, MayCallReady DEF CallClose
<1>3. CloseImpl(s)
  BY <1>1 DEF CallClose, CloseImpl
<1>4. UNCHANGED <<addrUdp, addrInfo, checkIpv6Only, families>>
  BY DEF CallClose
<1>5. Counted
  BY <1>4 DEF Counted, Inv, TypeOK, SocketOK
<1>6. addr' = addr /\ protocol' = protocol
  BY <1>3 DEF CloseImpl
<1>7. \A k \in 1..Len(s) : FrameOK(s[k])'
  BY <1>2, <1>4, <1>6, FramesKept DEF Ready
<1>8. Undisturbed(s, families', sock)
  BY <1>2, <1>4 DEF Ready, Undisturbed
<1>9. Shape(s, FALSE) /\ NoRun(s)
  BY <1>2 DEF Ready, Shape
<1> QED BY <1>3, <1>5, <1>7, <1>8, <1>9, CloseStep DEF Inv

LEMMA GetIpCall == ASSUME Inv, CallGetIp PROVE Inv'
<1>1. PICK s \in Seq(Frames) : s = stack
  BY Known
<1>2. Ready(s) /\ stack' = s
  BY <1>1, MayCallReady DEF CallGetIp
<1>3. /\ families' = families \cup {protocol}
      /\ addr' = IF addr = NullAddr THEN [NullAddr EXCEPT !.family = protocol] ELSE addr
      /\ UNCHANGED <<state, sock, protocol, bound, groups, addrUdp, addrInfo,
                     checkIpv6Only, believed, misdirected, closeDue, lost>>
  BY DEF CallGetIp, kernelVars
<1>4. Counted
  BY <1>3 DEF Counted, Inv, TypeOK, SocketOK
<1>5. /\ addr' \in [family : {0, 4, 6}, host : Shows]
      /\ addr.family # 0 => addr'.family # 0
      /\ addr'.family # 0 => addr'.family \in families'
      /\ addr'.family = 0 => addr' = NullAddr
  <2>1. CASE addr = NullAddr
    <3>1. addr' = [family |-> protocol, host |-> Zero] /\ addr.family = 0
      BY <1>3, <2>1 DEF NullAddr
    <3> QED BY <1>3, <3>1, Hosting DEF Inv, TypeOK
  <2>2. CASE addr # NullAddr
    BY <1>3, <2>2 DEF Inv, TypeOK, SocketOK
  <2> QED BY <2>1, <2>2
<1>6. StackOK'
  BY <1>2, <1>3, <1>4, <1>5, RestKept DEF Inv
<1>7. SocketOK'
  <2>1. ~lost' => Believable'
    BY <1>3, <1>4, OneKept DEF Inv, SocketOK, Believable
  <2> QED BY <1>3, <1>4, <1>5, <2>1, OneKept DEF Inv, SocketOK, Counted
<1>8. TypeOK'
  BY <1>1, <1>2, <1>3, <1>4, <1>5 DEF Inv, TypeOK, Counted
<1> QED BY <1>6, <1>7, <1>8 DEF Inv

(***************************************************************************)
(* The frames, and update().                                               *)
(***************************************************************************)
LEMMA Popped ==
  ASSUME Inv, stack # <<>>, NEW s, s = Tail(stack)
  PROVE  /\ Head(stack) \in Frames /\ FrameOK(Head(stack)) /\ s \in Seq(Frames)
         /\ \A k \in 1..Len(s) : FrameOK(s[k])
         /\ NoRun(s) /\ Shape(s, FALSE) /\ Undisturbed(s, families, sock)
         /\ Head(stack).op # "close" => Ready(s)
         /\ Head(stack).op = "open" => ~closeDue
<1>1. /\ Head(stack) \in Frames /\ s \in Seq(Frames) /\ Head(stack) = stack[1]
      /\ Len(stack) \in Nat /\ Len(stack) > 0 /\ Len(s) = Len(stack) - 1
      /\ \A k \in 1..(Len(stack) - 1) : s[k] = stack[k + 1]
  BY Known, Pop
<1>2. FrameOK(Head(stack)) /\ 1 \in 1..Len(stack)
  <2>1. 1 \in 1..Len(stack)
    BY <1>1
  <2> QED BY <1>1, <2>1, Known
<1>3. ASSUME NEW k \in 1..Len(s) PROVE FrameOK(s[k])
  <2>1. k + 1 \in 1..Len(stack) /\ k \in 1..(Len(stack) - 1)
    BY <1>1
  <2>2. FrameOK(stack[k + 1])
    BY <2>1, Known
  <2> QED BY <1>1, <2>1, <2>2
<1>4. /\ NoRun(s) /\ Shape(s, FALSE)
      /\ NoListen(stack) => NoListen(s)
      /\ Waiting(stack) => Waiting(s)
      /\ Waiting(stack) /\ Head(stack).op # "close" => NoListen(s)
  BY Known, PopShape
<1>5. Undisturbed(s, families, sock)
  BY <1>4, Known DEF Undisturbed
<1>6. ASSUME Head(stack).op # "close" PROVE Ready(s)
  <2>1. Shape(s, closeDue)
    BY <1>6, Known, PopShape
  <2>2. One(families) => NoListen(s)
    BY <1>4, <1>6, Known DEF Undisturbed
  <2> QED BY <1>1, <1>3, <1>4, <2>1, <2>2 DEF Ready
<1>7. Head(stack).op = "open" => ~closeDue
  BY <1>1, <1>2, Known DEF Shape, NoOpen
<1> QED BY <1>1, <1>2, <1>3, <1>4, <1>5, <1>6, <1>7

LEMMA ReturnStep == ASSUME Inv, HandlerReturn PROVE Inv'
<1>1. PICK s : s = Tail(stack)
  OBVIOUS
<1>2. Ready(s)
  BY <1>1, Popped DEF HandlerReturn, TopIs
<1>3. /\ stack' = s
      /\ UNCHANGED <<state, sock, protocol, bound, groups, addr, addrUdp, addrInfo,
                     checkIpv6Only, believed, families, misdirected, closeDue, lost>>
  BY <1>1 DEF HandlerReturn, history, kernelVars
<1>4. Counted
  BY <1>3 DEF Counted, Inv, TypeOK, SocketOK
<1>5. StackOK' /\ stack' \in Seq(Frames)
  BY <1>2, <1>3, <1>4, RestKept DEF Inv
<1>6. SocketOK' /\ TypeOK'
  BY <1>3, <1>5 DEF Inv, SocketOK, Believable, TypeOK
<1> QED BY <1>5, <1>6 DEF Inv

LEMMA DoCloseStep == ASSUME Inv, DoClose PROVE Inv'
<1>1. PICK s : s = Tail(stack)
  OBVIOUS
<1>2. /\ s \in Seq(Frames) /\ \A k \in 1..Len(s) : FrameOK(s[k])
      /\ NoRun(s) /\ Shape(s, FALSE) /\ Undisturbed(s, families, sock)
  BY <1>1, Popped DEF DoClose, TopIs
<1>3. CloseImpl(s)
  BY <1>1 DEF DoClose, CloseImpl
<1>4. UNCHANGED <<addrUdp, addrInfo, checkIpv6Only, families>>
  BY DEF DoClose
<1>5. Counted
  BY <1>4 DEF Counted, Inv, TypeOK, SocketOK
<1>6. addr' = addr /\ protocol' = protocol
  BY <1>3 DEF CloseImpl
<1>7. \A k \in 1..Len(s) : FrameOK(s[k])'
  BY <1>2, <1>4, <1>6, FramesKept
<1>8. Undisturbed(s, families', sock)
  BY <1>2, <1>4
<1> QED BY <1>2, <1>3, <1>5, <1>7, <1>8, CloseStep DEF Inv

LEMMA DoRunStep == ASSUME Inv, DoRun PROVE Inv'
<1>1. PICK s : s = Tail(stack)
  OBVIOUS
<1>2. PICK f : f = Head(stack)
  OBVIOUS
<1>3. stack # <<>> /\ f.op = "run"
  BY <1>2 DEF DoRun, TopIs
<1>4. /\ f \in Frames /\ FrameOK(f) /\ Ready(s)
  BY <1>1, <1>2, <1>3, Popped
<1>5. f.req \in Requests
  BY <1>3, <1>4, FrameParts
<1>6. UNCHANGED <<addrUdp, addrInfo, checkIpv6Only, families, lost>>
  BY DEF DoRun
<1>7. Counted
  BY <1>6 DEF Counted, Inv, TypeOK, SocketOK
<1>8. /\ RequestFor(f.req, families', addr.family # 0)
      /\ LookedUp(f.req, families', addrInfo')
      /\ protocol \in families'
  BY <1>3, <1>4, <1>6 DEF FrameOK, Inv, SocketOK
<1>9. Run(f.req, addrInfo', s)
  BY <1>1, <1>2, <1>6 DEF DoRun, Run, Listen, SendTo, Join, Leave
<1> QED BY <1>4, <1>5, <1>6, <1>7, <1>8, <1>9, RunStep DEF Inv

LEMMA DoOpenStep == ASSUME Inv, DoOpen PROVE Inv'
<1>1. PICK s : s = Tail(stack)
  OBVIOUS
<1>2. PICK f : f = Head(stack)
  OBVIOUS
<1>3. stack # <<>> /\ f.op = "open"
  BY <1>2 DEF DoOpen, TopIs
<1>4. /\ f \in Frames /\ FrameOK(f) /\ Ready(s) /\ ~closeDue
  BY <1>1, <1>2, <1>3, Popped
<1>5. f.protocol \in {-1, 4, 6} /\ f.req \in Requests
  BY <1>3, <1>4, FrameParts
<1>6. /\ protocol' = Resolve(f.protocol) /\ bound' = "no" /\ groups' = {}
      /\ lost' = (lost \/ sock # "none")
      /\ UNCHANGED <<addr, addrUdp, addrInfo, checkIpv6Only, believed, families,
                     misdirected, closeDue>>
      /\ \/ /\ sock' = "open" /\ state' = "sDisconnected"
            /\ stack' = IF f.req.call = "none" THEN s ELSE <<Running(f.req)>> \o s
         \/ sock' = "none" /\ stack' = s /\ UNCHANGED state
  BY <1>1, <1>2 DEF DoOpen
<1>7. Counted
  BY <1>6 DEF Counted, Inv, TypeOK, SocketOK
<1>8. protocol' \in {4, 6} /\ protocol' \in families'
  BY <1>3, <1>4, <1>5, <1>6 DEF Resolve, FrameOK, Inv, TypeOK
<1>9. \A k \in 1..Len(s) : FrameOK(s[k])'
  BY <1>4, <1>6, <1>7, <1>8, FramesKept DEF Ready, Counted
<1>10. StackOK' /\ stack' \in Seq(Frames)
  <2>1. CASE stack' = s
    BY <1>4, <1>6, <1>9, <2>1 DEF StackOK, Ready, Undisturbed
  <2>2. CASE sock' = "open" /\ stack' = <<Running(f.req)>> \o s
    <3>1. PICK r \in Frames : /\ r = Running(f.req) /\ r.op = "run" /\ r.req = f.req
      BY <1>5, OtherFrames
    <3>2. FrameOK(r)' /\ ~Listens(r)
      BY <1>3, <1>4, <1>6, <2>2, <3>1 DEF FrameOK, Listens
    <3>3. PICK t : t = <<r>> \o s
      OBVIOUS
    <3>4. t \in Seq(Frames) /\ Shape(t, closeDue) /\ (NoListen(s) => NoListen(t))
      BY <1>4, <3>1, <3>2, <3>3, Push, PushShape, Known DEF Ready
    <3>5. \A k \in 1..Len(t) : FrameOK(t[k])'
      BY <1>4, <1>9, <3>2, <3>3, PushFrames DEF Ready
    <3> QED BY <1>4, <1>6, <2>2, <3>1, <3>3, <3>4, <3>5
            DEF StackOK, Ready, Undisturbed
  <2> QED BY <1>6, <2>1, <2>2
<1>11. ASSUME ~lost' PROVE Believable'
  <2>1. state = "sClose" /\ believed = Nothing
    BY <1>6, <1>11 DEF Inv, SocketOK, Believable, TypeOK
  <2>2. Nothing.at = "nowhere" /\ Nothing.groups = {}
    BY DEF Nothing
  <2> QED BY <1>6, <2>1, <2>2 DEF Believable
<1>12. state' = "sListening" => state = "sListening" /\ sock' = "none"
  BY <1>6
<1>13. SocketOK'
  BY <1>4, <1>6, <1>8, <1>11, <1>12 DEF Inv, SocketOK
<1>14. TypeOK'
  BY <1>6, <1>8, <1>10 DEF Inv, TypeOK
<1> QED BY <1>10, <1>13, <1>14 DEF Inv

\* New frames that open nothing.
LEMMA FreshStack ==
  ASSUME NEW t \in Seq(Frames), stack' = t, \A k \in 1..Len(t) : t[k].op # "open",
         \A k \in 1..Len(t) : t[k].op # "run", \A k \in 1..Len(t) : FrameOK(t[k])',
         closeDue' => t # <<>> /\ t[Len(t)].op = "close"
  PROVE  StackOK' /\ stack' \in Seq(Frames)
BY DEF StackOK, Shape, Undisturbed, NoListen, Listens, NoOpen

LEMMA UpdateStep == ASSUME Inv, Update PROVE Inv'
<1>1. /\ addr.family # 0 /\ protocol \in families /\ sock = "open"
      /\ protocol \in {4, 6}
  BY DEF Update, Inv, SocketOK, TypeOK
<1>2. /\ addrUdp' \in families /\ addrUdp' \in {4, 6}
      /\ UNCHANGED <<state, sock, protocol, bound, groups, addr, addrInfo,
                     checkIpv6Only, believed, families, misdirected, lost>>
  BY <1>1 DEF Update, UdpFamily, kernelVars, Inv, SocketOK, TypeOK
<1>3. SocketOK'
  BY <1>1, <1>2 DEF Inv, SocketOK, Believable
<1>4. PICK c \in Frames : c = Closing /\ c.op = "close"
  <2>1. Request("none", NoHost, NoHost) \in Requests
    BY RequestParts
  <2> QED BY <2>1, OtherFrames
<1>5. FrameOK(c)'
  BY <1>4 DEF FrameOK
<1>6. stack = <<>> /\ ~closeDue
  BY Known DEF Update, Shape
<1>7. StackOK' /\ stack' \in Seq(Frames) /\ closeDue' \in BOOLEAN
  <2>1. CASE \E h \in Hosts : stack' = <<Handler("sMessage", h)>> /\ closeDue' = closeDue
    <3>1. PICK h \in Hosts : stack' = <<Handler("sMessage", h)>> /\ closeDue' = closeDue
      BY <2>1
    <3>2. PICK f \in Frames : /\ f = Handler("sMessage", h) /\ f.op = "handler"
                              /\ f.ev = "sMessage" /\ f.from = h
      BY HandlerFrame
    <3>3. FrameOK(f)'
      BY <1>1, <1>2, <3>2 DEF FrameOK
    <3>4. PICK t : t = <<f>>
      OBVIOUS
    <3>5. t \in Seq(Frames) /\ Len(t) = 1 /\ t[1] = f
      BY <3>4
    <3>6. \A k \in 1..Len(t) : t[k] = f
      BY <3>5
    <3>7. stack' = t /\ ~closeDue'
      BY <1>6, <3>1, <3>2, <3>4
    <3>8. StackOK' /\ stack' \in Seq(Frames)
      BY <3>2, <3>3, <3>5, <3>6, <3>7, FreshStack
    <3> QED BY <3>1, <3>8, Known
  <2>2. CASE stack' = <<Closing>> /\ closeDue' = TRUE
    <3>1. PICK t : t = <<c>>
      OBVIOUS
    <3>2. t \in Seq(Frames) /\ Len(t) = 1 /\ t[1] = c /\ t # <<>>
      BY <3>1
    <3>3. \A k \in 1..Len(t) : t[k] = c
      BY <3>2
    <3> QED BY <1>4, <1>5, <2>2, <3>1, <3>2, <3>3, FreshStack
  <2>3. CASE /\ stack' = <<Handler("sError", NoHost), Closing, Closing>>
             /\ closeDue' = TRUE
    <3>1. PICK f \in Frames : /\ f = Handler("sError", NoHost) /\ f.op = "handler"
                              /\ f.ev = "sError"
      BY HandlerFrame
    <3>2. FrameOK(f)'
      BY <3>1 DEF FrameOK
    <3>3. PICK t : t = <<f, c, c>>
      OBVIOUS
    <3>4. /\ t \in Seq(Frames) /\ Len(t) = 3 /\ t[1] = f /\ t[2] = c /\ t[3] = c
          /\ t # <<>>
      BY <3>3
    <3>5. \A k \in 1..Len(t) : t[k] = f \/ t[k] = c
      BY <3>4
    <3> QED BY <1>4, <1>5, <2>3, <3>1, <3>2, <3>3, <3>4, <3>5, FreshStack
  <2>4. CASE UNCHANGED <<stack, closeDue>>
    <3>1. PICK t : t = <<>>
      OBVIOUS
    <3>2. t \in Seq(Frames) /\ Len(t) = 0 /\ 1..Len(t) = {}
      BY <3>1
    <3>3. stack' = t /\ ~closeDue'
      BY <1>6, <2>4, <3>1
    <3>4. StackOK' /\ stack' \in Seq(Frames)
      BY <3>2, <3>3, FreshStack
    <3> QED BY <2>4, <3>4, Known
  <2> QED BY <2>1, <2>2, <2>3, <2>4 DEF Update
<1>8. TypeOK'
  BY <1>2, <1>7 DEF Inv, TypeOK
<1> QED BY <1>3, <1>7, <1>8 DEF Inv

(***************************************************************************)
(* The theorems.                                                           *)
(***************************************************************************)
LEMMA InitOK == ASSUME Init PROVE Inv
<1>1. TypeOK
  <2>1. NullAddr \in [family : {0, 4, 6}, host : Shows]
    BY Hosting DEF NullAddr
  <2>2. Nothing \in [at : Shows \cup {"nowhere"}, groups : SUBSET Groups]
    BY DEF Nothing
  <2>3. stack \in Seq(Frames) /\ checkIpv6Only \in BOOLEAN
    BY CheckAssumption DEF Init
  <2> QED BY <2>1, <2>2, <2>3 DEF Init, TypeOK
<1>2. Len(stack) = 0
  BY DEF Init
<1>3. StackOK
  BY <1>2 DEF Init, StackOK, Shape, Undisturbed, NoListen
<1>4. SocketOK
  BY DEF Init, SocketOK, Believable, NullAddr, Nothing
<1> QED BY <1>1, <1>3, <1>4 DEF Inv

LEMMA StutterOK == ASSUME Inv, UNCHANGED vars PROVE Inv'
<1>1. StackOK'
  BY DEF vars, history, kernelVars, Inv, StackOK, FrameOK, Resolve
<1>2. TypeOK' /\ SocketOK'
  BY DEF vars, history, kernelVars, Inv, TypeOK, SocketOK, Believable
<1> QED BY <1>1, <1>2 DEF Inv

LEMMA Invariance == Spec => []Inv
<1>1. Inv /\ [Next]_vars => Inv'
  BY ListenCall, SendCall, ReplyCall, MembershipCall, CreateCall, CloseCall, GetIpCall,
     ReturnStep, DoCloseStep, DoOpenStep, DoRunStep, UpdateStep, StutterOK
     DEF Next, Continue
<1> QED BY <1>1, InitOK, PTL DEF Spec

LEMMA OneFamilyIsOne == ASSUME TypeOK, OneFamily PROVE One(families)
<1>1. IsFiniteSet(4..6)
  <2>1. 4 \in Int /\ 6 \in Int
    OBVIOUS
  <2> QED BY <2>1, FS_Interval
<1>2. families \subseteq 4..6
  BY DEF TypeOK
<1>3. IsFiniteSet(families)
  BY <1>1, <1>2, FS_Subset
<1>4. SUFFICES ASSUME NEW x \in families, NEW y \in families, x # y PROVE FALSE
  BY DEF One
<1>5. /\ IsFiniteSet(families \ {x}) /\ y \in families \ {x}
      /\ Cardinality(families \ {x}) = Cardinality(families) - 1
      /\ Cardinality(families \ {x}) \in Nat /\ Cardinality(families) \in Nat
  BY <1>3, <1>4, FS_RemoveElement, FS_CardinalityType
<1>6. Cardinality(families \ {x}) = 0
  BY <1>5 DEF OneFamily
<1> QED BY <1>5, <1>6, FS_EmptySet

\* A Socket's fields, its pending frames and its requests stay in their types.
THEOREM TypeCorrect == Spec => []TypeOK
<1>1. Inv => TypeOK
  BY DEF Inv
<1> QED BY <1>1, Invariance, PTL

\* Until a descriptor that a handler opened inside create() is overwritten
\* (SocketLinux.cpp:31), no call replaces, unbinds or takes out of its group a
\* descriptor without sClose having told the application, whatever handlers
\* call; and with one family a nested listen() cannot spoil the address a
\* pending one looked up.
THEOREM BeliefHolds == Spec => []BeliefIsTrue
<1>1. ASSUME Inv PROVE BeliefIsTrue
  <2> SUFFICES ASSUME ~lost PROVE Believable /\ (believed.at # "nowhere" => sock = "open")
                                  /\ (OneFamily => One(families))
    BY DEF BeliefIsTrue, Believable
  <2>1. Believable
    BY <1>1 DEF Inv, SocketOK
  <2>2. ASSUME believed.at # "nowhere" PROVE sock = "open"
    BY <1>1, <2>1, <2>2 DEF Inv, Believable, TypeOK, Nothing
  <2> QED BY <1>1, <2>1, <2>2, OneFamilyIsOne DEF Inv
<1> QED BY <1>1, Invariance, PTL

\* With addresses of one family sendto() hands the kernel the address that was
\* named, not one that an earlier or a nested call left in `addr`
\* (SocketBase::getSockAddr).
THEOREM SendsToPeer == Spec => []SentToPeer
<1>1. Inv => SentToPeer
  BY OneFamilyIsOne DEF Inv, SocketOK, SentToPeer
<1> QED BY <1>1, Invariance, PTL

\* With one family the address an sMessage handler sees and answers is the
\* sender's (SocketLinux::recvfrom and Socket::recvfrom).
THEOREM RepliesToSender == Spec => []ReplyReachesSender
<1>1. Inv => ReplyReachesSender
  BY OneFamilyIsOne DEF Inv, SocketOK, ReplyReachesSender
<1> QED BY <1>1, Invariance, PTL

\* Once receiving has failed, update() does not return before the descriptor has
\* been closed and sClose reported, whatever the handlers of sError and of sClose
\* call, create() and listen() included.
THEOREM FailureCloses == Spec => []FailureEndsInClose
<1>1. Inv => FailureEndsInClose
  BY DEF Inv, StackOK, Shape, FailureEndsInClose, TypeOK
<1> QED BY <1>1, Invariance, PTL

(***************************************************************************)
(* The refinement.                                                         *)
(***************************************************************************)

\* What every step does.
Keeps == lost' \/ [Lifecycle!Next]_(Lifecycle!lifeVars)

\* close() is a Close, or changes nothing that shows.
LEMMA CloseKeeps ==
  ASSUME Inv, NEW rest, CloseImpl(rest)
  PROVE  Keeps
<1>1. CASE sock = "none" /\ UNCHANGED <<state, bound, groups, closeDue>>
  BY <1>1 DEF Keeps, Lifecycle!lifeVars, Binding
<1>2. CASE /\ sock # "none"
           /\ bound' = "no" /\ groups' = {} /\ state' = "sClose" /\ closeDue' = FALSE
  <2>1. state # "sClose"
    BY <1>2 DEF Inv, SocketOK, TypeOK
  <2>2. Lifecycle!Close
    BY <1>2, <2>1 DEF Lifecycle!Close, Binding
  <2> QED BY <2>2 DEF Keeps, Lifecycle!Next
<1> QED BY <1>1, <1>2 DEF CloseImpl, kernelVars

\* The second half of a call.
LEMMA RunKeeps ==
  ASSUME Inv, TypeOK', NEW req, NEW info, NEW rest, Run(req, info, rest)
  PROVE  Keeps
<1>1. closeDue' = closeDue
  BY DEF Run, Listen, SendTo, Join, Leave
<1>2. sock = "open" /\ bound = "no" => state = "sDisconnected"
  BY DEF Inv, SocketOK, TypeOK
<1>3. CASE Listen(req, info, rest)
  <2>1. CASE sock = "open" /\ bound = "no" /\ bound' = addr'.host /\ state' = "sListening"
    <3>1. groups' = groups /\ bound' \notin {"no", "auto"}
      BY <1>3, <2>1, Hosting DEF Listen, TypeOK
    <3>2. Lifecycle!Listen
      BY <1>1, <1>2, <2>1, <3>1 DEF Lifecycle!Listen, Binding
    <3> QED BY <3>2 DEF Keeps, Lifecycle!Next
  <2>2. CASE UNCHANGED <<state, bound>>
    <3>1. groups' = groups
      BY <1>3 DEF Listen
    <3> QED BY <1>1, <2>2, <3>1 DEF Keeps, Lifecycle!lifeVars, Binding
  <2> QED BY <1>3, <2>1, <2>2 DEF Listen
<1>4. CASE SendTo(req, rest)
  <2>1. /\ UNCHANGED <<state, groups>>
        /\ bound' = bound \/ (sock = "open" /\ bound = "no" /\ bound' = "auto")
    BY <1>4 DEF SendTo
  <2>2. CASE bound' = bound
    BY <1>1, <2>1, <2>2 DEF Keeps, Lifecycle!lifeVars, Binding
  <2>3. CASE sock = "open" /\ bound = "no" /\ bound' = "auto"
    <3>1. Lifecycle!FirstSend
      BY <1>1, <1>2, <2>1, <2>3 DEF Lifecycle!FirstSend, Binding
    <3> QED BY <3>1 DEF Keeps, Lifecycle!Next
  <2> QED BY <2>1, <2>2, <2>3
<1>5. CASE Join(req, rest) \/ Leave(req, rest)
  <2>1. /\ UNCHANGED <<state, bound>>
        /\ \/ /\ sock = "open" /\ req.host \notin groups
              /\ groups' = groups \cup {req.host}
           \/ req.host \in groups /\ groups' = groups \ {req.host}
           \/ UNCHANGED groups
    BY <1>5 DEF Join, Leave
  <2>2. groups \subseteq Groups /\ groups' \subseteq Groups /\ Binding' = Binding
    BY <2>1 DEF Inv, TypeOK, Binding
  <2>3. CASE /\ sock = "open" /\ req.host \notin groups
             /\ groups' = groups \cup {req.host}
    <3>1. state # "sClose"
      BY <2>3 DEF Inv, SocketOK
    <3>2. req.host \in Groups /\ Lifecycle!Join(req.host)
      BY <1>1, <2>1, <2>2, <2>3, <3>1 DEF Lifecycle!Join
    <3> QED BY <3>2 DEF Keeps, Lifecycle!Next
  <2>4. CASE req.host \in groups /\ groups' = groups \ {req.host}
    <3>1. req.host \in Groups /\ Lifecycle!Leave(req.host)
      BY <1>1, <2>1, <2>2, <2>4 DEF Lifecycle!Leave
    <3> QED BY <3>1 DEF Keeps, Lifecycle!Next
  <2>5. CASE UNCHANGED groups
    BY <1>1, <2>1, <2>2, <2>5 DEF Keeps, Lifecycle!lifeVars
  <2> QED BY <2>1, <2>3, <2>4, <2>5
<1> QED BY <1>3, <1>4, <1>5 DEF Run

LEMMA CallKeeps ==
  ASSUME Inv, TypeOK', NEW req, NEW h, Call(req, h)
  PROVE  Keeps
BY CloseKeeps, RunKeeps DEF Call, Create

\* ::socket opens what was closed, or overwrites what was not.
LEMMA OpenKeeps == ASSUME Inv, DoOpen PROVE Keeps
<1>1. SUFFICES ASSUME ~lost' PROVE Keeps
  BY DEF Keeps
<1>2. sock = "none" /\ state = "sClose" /\ bound = "no" /\ groups = {}
  BY <1>1 DEF DoOpen, Inv, SocketOK, Believable, TypeOK
<1>3. /\ bound' = "no" /\ groups' = {} /\ closeDue' = closeDue
      /\ state' = "sDisconnected" \/ state' = state
  BY DEF DoOpen
<1>4. CASE state' = "sDisconnected"
  <2>1. Lifecycle!Open
    BY <1>2, <1>3, <1>4 DEF Lifecycle!Open, Binding
  <2> QED BY <2>1 DEF Keeps, Lifecycle!Next
<1>5. CASE state' = state
  BY <1>2, <1>3, <1>5 DEF Keeps, Lifecycle!lifeVars, Binding
<1> QED BY <1>3, <1>4, <1>5

LEMMA UpdateKeeps == ASSUME Inv, Update PROVE Keeps
<1>1. /\ state = "sListening" /\ ~closeDue /\ UNCHANGED <<state, bound, groups>>
      /\ closeDue' = closeDue \/ closeDue' = TRUE
  BY Known DEF Update, kernelVars, Shape
<1>2. CASE closeDue' = closeDue
  BY <1>1, <1>2 DEF Keeps, Lifecycle!lifeVars, Binding
<1>3. CASE closeDue' = TRUE
  <2>1. Lifecycle!Fail
    BY <1>1, <1>3 DEF Lifecycle!Fail, Binding
  <2> QED BY <2>1 DEF Keeps, Lifecycle!Next
<1> QED BY <1>1, <1>2, <1>3

LEMMA StepKeeps == ASSUME Inv, TypeOK', [Next]_vars PROVE Keeps
<1>1. CASE \/ CallListen \/ CallSend \/ CallReply
           \/ CallAddMembership \/ CallDropMembership
  BY <1>1, CallKeeps
     DEF CallListen, CallSend, CallReply, CallAddMembership, CallDropMembership
<1>2. CASE CallCreate \/ CallClose \/ DoClose
  BY <1>2, CloseKeeps DEF CallCreate, CallClose, DoClose, Create
<1>3. CASE DoRun
  BY <1>3, RunKeeps DEF DoRun
<1>4. CASE CallGetIp \/ HandlerReturn \/ UNCHANGED vars
  <2>1. UNCHANGED <<state, bound, groups, closeDue>>
    BY <1>4 DEF CallGetIp, HandlerReturn, vars, kernelVars, history
  <2> QED BY <2>1 DEF Keeps, Lifecycle!lifeVars, Binding
<1> QED BY <1>1, <1>2, <1>3, <1>4, OpenKeeps, UpdateKeeps DEF Next, Continue

LEMMA InitLife == ASSUME Init PROVE Lifecycle!Init
BY DEF Init, Lifecycle!Init, Binding

\* A UDP Socket keeps the promise of DatagramLifecycle whatever its handlers call:
\* create() closes before it opens, bind() happens once for each descriptor, and
\* update() finds one failed once; only the step that overwrites a descriptor
\* (SocketLinux.cpp:31) is outside it.
THEOREM KeepsLifecycleUntilLoss == Spec => LifecycleUntilLoss
<1>1. Inv' => TypeOK'
  BY DEF Inv
<1> QED BY <1>1, InitLife, StepKeeps, Invariance, PTL DEF Spec, Keeps, LifecycleUntilLoss

(***************************************************************************)
(* Handlers of sError and sClose that only close and ask for the address:  *)
(* above a create() there is then nothing but its close() and what that    *)
(* reports, so the descriptor it overwrites is closed.                     *)
(***************************************************************************)
Disciplined == OtherCalls \subseteq {"close", "getIp"}

Quiet(f) == f.op = "close" \/ (f.op = "handler" /\ f.ev \in {"sError", "sClose"})
QuietOpening(s) ==
  \A k \in 1..Len(s) : s[k].op = "open" => \A j \in 1..(k - 1) : Quiet(s[j])
QuietInv == ~lost /\ QuietOpening(stack) /\ (sock = "none" \/ NoOpen(stack))

LEMMA QuietPush ==
  ASSUME NEW s \in Seq(Frames), NEW f \in Frames
  PROVE  /\ Quiet(f) /\ QuietOpening(s) => QuietOpening(<<f>> \o s)
         /\ NoOpen(s) => QuietOpening(<<f>> \o s) /\ QuietOpening(s)
         /\ f.op # "open" /\ NoOpen(s) => NoOpen(<<f>> \o s)
<1> DEFINE t == <<f>> \o s
<1>1. PICK l \in Nat : l = Len(s)
  BY LenProperties
<1>2. /\ Len(t) = l + 1
      /\ \A k \in 1..(l + 1) : t[k] = IF k = 1 THEN f ELSE s[k - 1]
  BY <1>1, Push
<1> HIDE DEF t
<1>3. t[1] = f /\ \A k \in 1..(l + 1) : k = 1 \/ (k - 1 \in 1..l /\ t[k] = s[k - 1])
  BY <1>2
<1>4. ASSUME Quiet(f), QuietOpening(s) PROVE QuietOpening(t)
  <2> SUFFICES ASSUME NEW k \in 1..(l + 1), t[k].op = "open", NEW j \in 1..(k - 1)
               PROVE  Quiet(t[j])
    BY <1>2 DEF QuietOpening
  <2>1. k # 1 /\ j \in 1..(l + 1) /\ (j = 1 \/ j - 1 \in 1..((k - 1) - 1))
    OBVIOUS
  <2>2. s[k - 1].op = "open" /\ k - 1 \in 1..Len(s)
    BY <1>1, <1>3, <2>1
  <2>3. \A i \in 1..((k - 1) - 1) : Quiet(s[i])
    BY <1>4, <2>2 DEF QuietOpening
  <2> QED BY <1>3, <1>4, <2>1, <2>3
<1>5. ASSUME NoOpen(s) PROVE QuietOpening(t) /\ QuietOpening(s)
  <2>1. \A k \in 1..(l + 1) : t[k].op = "open" => k = 1
    BY <1>1, <1>3, <1>5 DEF NoOpen
  <2>2. \A k \in 1..(l + 1) : k = 1 => 1..(k - 1) = {}
    OBVIOUS
  <2> QED BY <1>2, <1>5, <2>1, <2>2 DEF QuietOpening, NoOpen
<1>6. f.op # "open" /\ NoOpen(s) => NoOpen(t)
  BY <1>1, <1>2, <1>3 DEF NoOpen
<1> QED BY <1>4, <1>5, <1>6 DEF t

LEMMA QuietPop ==
  ASSUME NEW s \in Seq(Frames), s # <<>>, QuietOpening(s)
  PROVE  /\ QuietOpening(Tail(s))
         /\ NoOpen(s) \/ ~Quiet(Head(s)) => NoOpen(Tail(s))
<1> DEFINE t == Tail(s)
<1>1. PICK l \in Nat : l = Len(s)
  BY LenProperties
<1>2. /\ Head(s) = s[1] /\ l > 0 /\ Len(t) = l - 1
      /\ \A k \in 1..(l - 1) : t[k] = s[k + 1]
  BY <1>1, Pop
<1> HIDE DEF t
<1>3. \A k \in 1..(l - 1) : k + 1 \in 1..l /\ 1 \in 1..((k + 1) - 1)
  OBVIOUS
<1>4. QuietOpening(t)
  <2> SUFFICES ASSUME NEW k \in 1..(l - 1), t[k].op = "open", NEW j \in 1..(k - 1)
               PROVE  Quiet(t[j])
    BY <1>2 DEF QuietOpening
  <2>1. j \in 1..(l - 1) /\ j + 1 \in 1..((k + 1) - 1)
    OBVIOUS
  <2>2. Quiet(s[j + 1])
    BY <1>1, <1>2, <1>3, <2>1 DEF QuietOpening
  <2> QED BY <1>2, <2>1, <2>2
<1>5. NoOpen(s) \/ ~Quiet(Head(s)) => NoOpen(t)
  BY <1>1, <1>2, <1>3 DEF NoOpen, QuietOpening
<1> QED BY <1>4, <1>5 DEF t

\* close() above whatever is waiting.
LEMMA QuietClose ==
  ASSUME Inv, QuietInv, NEW rest \in Seq(Frames), QuietOpening(rest), CloseImpl(rest)
  PROVE  QuietInv'
<1>1. PICK f \in Frames : f = Handler("sClose", NoHost) /\ f.op = "handler"
                          /\ f.ev = "sClose"
  BY HandlerFrame
<1>2. QuietOpening(<<f>> \o rest)
  BY <1>1, QuietPush DEF Quiet
<1>3. sock' = "none" /\ lost' = lost /\ stack' \in {rest, <<f>> \o rest}
  BY <1>1 DEF CloseImpl, Inv, TypeOK
<1> QED BY <1>2, <1>3 DEF QuietInv

\* create() on frames that open nothing.
LEMMA QuietCreate ==
  ASSUME Inv, QuietInv, NoOpen(stack), NEW p \in {-1, 4, 6}, NEW r \in Requests,
         Create(p, r)
  PROVE  QuietInv'
<1>1. PICK o \in Frames : o = Opening(p, r)
  BY OtherFrames
<1>2. PICK c \in Frames : c = Closing /\ c.op = "close"
  BY <1>1, OtherFrames
<1>3. stack \in Seq(Frames)
  BY Known
<1>4. <<c, o>> \o stack = <<c>> \o (<<o>> \o stack)
  BY <1>3, PushTwo
<1>5. QuietOpening(<<o>> \o stack) /\ <<o>> \o stack \in Seq(Frames)
  BY <1>3, QuietPush, Push
<1>6. QuietOpening(<<c, o>> \o stack) /\ <<c, o>> \o stack \in Seq(Frames)
  BY <1>2, <1>4, <1>5, QuietPush, Push DEF Quiet
<1> QED BY <1>1, <1>2, <1>6, QuietClose DEF Create

\* The second half of a call, which puts no frame that opens.
LEMMA QuietRun ==
  ASSUME Inv, QuietInv, NEW rest \in Seq(Frames), NoOpen(rest), lost' = lost,
         NEW req, NEW info, Run(req, info, rest)
  PROVE  QuietInv'
<1>1. PICK f \in Frames : f = Handler("sListening", NoHost) /\ f.op = "handler"
  BY HandlerFrame
<1>2. stack' \in {rest, <<f>> \o rest}
  BY <1>1 DEF Run, Listen, SendTo, Join, Leave
<1>3. NoOpen(stack') /\ QuietOpening(stack')
  BY <1>1, <1>2, QuietPush, Push
<1> QED BY <1>3 DEF QuietInv

\* Other calls than close() and getIp() are made where nothing is being opened.
LEMMA QuietCallers ==
  ASSUME Disciplined, Inv, QuietInv, NEW call, MayCall(call), call \notin {"close", "getIp"}
  PROVE  NoOpen(stack)
<1>1. CASE stack = <<>>
  <2>1. Len(stack) = 0
    BY <1>1
  <2> QED BY <2>1 DEF NoOpen
<1>2. CASE stack # <<>> /\ Head(stack).op = "handler" /\ ~Quiet(Head(stack))
  <2>1. /\ stack[1].op = "handler" /\ ~Quiet(stack[1])
        /\ Len(stack) \in Nat /\ Len(stack) > 0
    BY <1>2, Known, Pop
  <2>2. ASSUME NEW k \in 1..Len(stack), stack[k].op = "open" PROVE FALSE
    <3>1. 1 \in 1..(k - 1)
      BY <2>1, <2>2
    <3> QED BY <2>1, <2>2, <3>1 DEF QuietInv, QuietOpening
  <2> QED BY <2>2 DEF NoOpen
<1> QED BY <1>1, <1>2 DEF MayCall, TopIs, Disciplined, Quiet

LEMMA QuietCall ==
  ASSUME Inv, QuietInv, NoOpen(stack), NEW req \in Requests,
         NEW h \in Shows \cup {NoHost}, Call(req, h)
  PROVE  QuietInv'
<1>1. PICK answer \in Lookup(h) :
        IF state = "sClose" \/ answer.protocol # protocol
          THEN Create(answer.protocol, req)
          ELSE Run(req, answer.info, stack) /\ UNCHANGED lost
  BY DEF Call
<1>2. answer.protocol \in {4, 6}
  BY LookupFacts DEF Inv
<1> QED BY <1>1, <1>2, Known, QuietCreate, QuietRun

LEMMA QuietStep == ASSUME Disciplined, Inv, QuietInv, [Next]_vars PROVE QuietInv'
<1>1. CASE CallListen
  <2>1. PICK h \in Hosts \cup {NoHost} : Call(Request("listen", h, NoHost), h)
    BY <1>1 DEF CallListen
  <2>2. Request("listen", h, NoHost) \in Requests
    BY RequestParts, Hosting
  <2> QED BY <1>1, <2>1, <2>2, Hosting, QuietCallers, QuietCall DEF CallListen
<1>2. CASE CallSend
  <2>1. PICK h \in Hosts : Call(Request("send", h, h), h)
    BY <1>2 DEF CallSend
  <2>2. Request("send", h, h) \in Requests
    BY RequestParts, Hosting
  <2> QED BY <1>2, <2>1, <2>2, Hosting, QuietCallers, QuietCall DEF CallSend
<1>3. CASE CallReply
  <2>1. PICK sender : sender = Head(stack).from
    OBVIOUS
  <2>2. sender \in Hosts
    <3>1. stack # <<>> /\ Head(stack).op = "handler" /\ Head(stack).ev = "sMessage"
      BY <1>3 DEF CallReply, TopIs
    <3>2. FrameOK(Head(stack))
      BY <3>1, Popped
    <3> QED BY <2>1, <3>1, <3>2 DEF FrameOK
  <2>3. Call(Request("reply", Shown(sender), sender), Shown(sender))
    BY <1>3, <2>1 DEF CallReply
  <2>4. Shown(sender) \in Shows
    BY <2>2, Hosting DEF Shown, Shows
  <2>5. Request("reply", Shown(sender), sender) \in Requests
    BY <2>2, <2>4, RequestParts
  <2> QED BY <1>3, <2>3, <2>4, <2>5, QuietCallers, QuietCall DEF CallReply
<1>4. CASE CallAddMembership \/ CallDropMembership
  <2>1. PICK g \in Groups, call \in {"join", "leave"} :
          Call(Request(call, g, NoHost), NoHost)
    BY <1>4 DEF CallAddMembership, CallDropMembership
  <2>2. Request(call, g, NoHost) \in Requests
    BY RequestParts
  <2>3. MayCall("addMembership") \/ MayCall("dropMembership")
    BY <1>4 DEF CallAddMembership, CallDropMembership
  <2> QED BY <2>1, <2>2, <2>3, QuietCallers, QuietCall
<1>5. CASE CallCreate
  <2>1. Request("none", NoHost, NoHost) \in Requests
    BY RequestParts
  <2> QED BY <1>5, <2>1, QuietCallers, QuietCreate DEF CallCreate
<1>6. CASE CallClose
  BY <1>6, Known, QuietClose DEF CallClose, QuietInv
<1>7. CASE CallGetIp \/ UNCHANGED vars
  <2>1. UNCHANGED <<sock, stack, lost>>
    BY <1>7 DEF CallGetIp, vars, history
  <2> QED BY <2>1 DEF QuietInv, NoOpen
<1>8. CASE HandlerReturn
  <2>1. stack # <<>> /\ stack' = Tail(stack) /\ UNCHANGED <<sock, lost>>
    BY <1>8 DEF HandlerReturn, TopIs, history
  <2> QED BY <2>1, Known, QuietPop DEF QuietInv
<1>9. CASE DoClose
  <2>1. QuietOpening(Tail(stack)) /\ Tail(stack) \in Seq(Frames)
    BY <1>9, Known, Pop, QuietPop DEF DoClose, TopIs, QuietInv
  <2> QED BY <1>9, <2>1, QuietClose DEF DoClose
<1>10. ASSUME stack # <<>>, Head(stack).op \in {"open", "run"}
       PROVE  NoOpen(Tail(stack)) /\ Tail(stack) \in Seq(Frames)
  BY <1>10, Known, Pop, QuietPop DEF QuietInv, Quiet
<1>11. CASE DoRun
  BY <1>10, <1>11, QuietRun DEF DoRun, TopIs
<1>12. CASE DoOpen
  <2>1. stack # <<>> /\ Head(stack).op = "open" /\ Head(stack) = stack[1]
        /\ 1 \in 1..Len(stack) /\ Head(stack) \in Frames
    BY <1>12, Known, Pop DEF DoOpen, TopIs
  <2>2. sock = "none"
    BY <2>1 DEF QuietInv, NoOpen
  <2>3. ~lost'
    BY <1>12, <2>2 DEF DoOpen, QuietInv
  <2>4. PICK r \in Frames : r = Running(Head(stack).req) /\ r.op = "run"
    BY <2>1, FrameParts, OtherFrames
  <2>5. stack' \in {Tail(stack), <<r>> \o Tail(stack)}
    BY <1>12, <2>4 DEF DoOpen
  <2>6. PICK t : t = Tail(stack)
    OBVIOUS
  <2>7. NoOpen(t) /\ t \in Seq(Frames) /\ stack' \in {t, <<r>> \o t}
    BY <1>10, <2>1, <2>5, <2>6
  <2>8. r.op # "open"
    BY <2>4
  <2>9. /\ NoOpen(<<r>> \o t) /\ QuietOpening(t)
        /\ <<r>> \o t \in Seq(Frames)
    BY <2>7, <2>8, QuietPush, Push
  <2>10. QuietOpening(<<r>> \o t)
    BY <2>7, QuietPush
  <2>11. NoOpen(stack') /\ QuietOpening(stack')
    BY <2>7, <2>9, <2>10
  <2> QED BY <2>3, <2>11 DEF QuietInv
<1>13. CASE Update
  <2>1. stack = <<>> /\ UNCHANGED <<sock, lost>>
    BY <1>13 DEF Update
  <2>2. \A k \in 1..Len(stack') : stack'[k].op # "open"
    <3>1. /\ Closing.op # "open" /\ Handler("sError", NoHost).op # "open"
          /\ \A h \in Hosts : Handler("sMessage", h).op # "open"
      BY DEF Closing, Handler
    <3>2. CASE \E h \in Hosts : stack' = <<Handler("sMessage", h)>>
      BY <3>1, <3>2
    <3>3. CASE stack' = <<Closing>>
      BY <3>1, <3>3
    <3>4. CASE stack' = <<Handler("sError", NoHost), Closing, Closing>>
      BY <3>1, <3>4
    <3>5. CASE stack' = stack
      BY <2>1, <3>5
    <3> QED BY <1>13, <3>2, <3>3, <3>4, <3>5 DEF Update
  <2> QED BY <2>1, <2>2 DEF QuietInv, NoOpen, QuietOpening
<1> QED BY <1>1, <1>2, <1>3, <1>4, <1>5, <1>6, <1>7, <1>8, <1>9, <1>11, <1>12, <1>13
    DEF Next, Continue

\* If handlers of sError and sClose only close and ask for the address, no open
\* descriptor is overwritten, and the promise of DatagramLifecycle holds to the
\* end: SocketLinux::create's ::socket finds sock at -1.
THEOREM NothingLost == ASSUME Disciplined PROVE Spec => [](~lost) /\ Lifecycle!Spec
<1>1. Init => QuietInv
  <2>1. ASSUME Init PROVE Len(stack) = 0
    BY <2>1 DEF Init
  <2> QED BY <2>1 DEF Init, QuietInv, QuietOpening, NoOpen
<1>2. Inv /\ QuietInv /\ [Next]_vars => QuietInv'
  BY QuietStep
<1>3. QuietInv => ~lost
  BY DEF QuietInv
<1>4. Inv' => TypeOK'
  BY DEF Inv
<1> QED BY <1>1, <1>2, <1>3, <1>4, InitLife, StepKeeps, Invariance, PTL
       DEF Spec, Keeps, Lifecycle!Spec
=============================================================================
