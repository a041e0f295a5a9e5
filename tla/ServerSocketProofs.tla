------------------------- MODULE ServerSocketProofs -------------------------
(***************************************************************************)
(* Proofs about ServerSocket, for every number of connections, every       *)
(* maxConnections and every choice of the calls that the main loop and the *)
(* handlers make.  A call that undermines a frame ends what is claimed, as *)
(* it ends what the code defines: the invariant holds until then.          *)
(***************************************************************************)
EXTENDS ServerSocket, FiniteSetTheorems, SequenceTheorems, TLAPS

(***************************************************************************)
(* The shape of the stack: what may lie above what.  Places in the vector  *)
(* grow towards the top, so that what is erased above a frame lies after   *)
(* its place; closeConnection() releases a connection no frame below       *)
(* belongs to, and closeAllConnections() runs above no frame that belongs  *)
(* to a connection or a place.  The frames of update() and of the          *)
(* destructor lie at the bottom, and a loop that is about to look at the   *)
(* vector lies on top.                                                     *)
(***************************************************************************)
Releasing(f) == f.op \in {"closeAll", "allTail", "dismantle", "gone"}
Walking(f) == f.op \in {"walk", "afterUpdate"}
Ending(f) == f.op \in {"dismantle", "gone"}
AtBottom(f) == Walking(f) \/ Ending(f) \/ f.op = "implGone"
OnTop(f) == f.op \in {"closeAll", "dismantle"} \/ (f.op = "walk" /\ f.i # 1)

Over(f, g) ==
  /\ Placed(f) /\ Placed(g) => g.i < f.i
  /\ f.op = "closeTail" => f.c \notin Subject(g)
  /\ f.op \in {"closeAll", "allTail"} => ~Placed(g) /\ Subject(g) = {}
  /\ ~OnTop(g) /\ ~AtBottom(f)

FramesOf(s) == {s[k] : k \in 1..Len(s)}
Shape(s) == \A j, k \in 1..Len(s) : j < k => Over(s[j], s[k])

(***************************************************************************)
(* What each frame counts on, and what a stack tells of the vector.        *)
(***************************************************************************)
From(i) == {connections[j] : j \in i..Len(connections)}

FrameOK(f) ==
  /\ Sound(f)
  /\ f.op \in {"walk", "closeAll", "dismantle"}
       => f.i = 1 \/ f.i \in 1..(Len(connections) + 1)
  /\ Releasing(f) => alive = From(f.i)
  /\ f.op = "walk" => \A k \in 1..Len(connections) :
                        connections[k] \in polled <=> k < f.i
  /\ f.op = "afterUpdate" => \A k \in 1..Len(connections) :
                               connections[k] \in polled <=> k <= f.i

StackInv(s) ==
  /\ s \in Seq(Frames) /\ Shape(s)
  /\ \A f \in FramesOf(s) : FrameOK(f)
  /\ (\A f \in FramesOf(s) : ~Releasing(f)) => alive = From(1)
  /\ (\A f \in FramesOf(s) : ~Walking(f)) => polled = {}
  /\ scratch \in Conns => \E f \in FramesOf(s) : f.op = "accepted"
  /\ state = "deleted" =>
       /\ \A f \in FramesOf(s) : f.op \notin {"open", "implGone"}
       /\ connections = <<>> \/ \E f \in FramesOf(s) : Ending(f)

\* The connection of a frame that comes after its close() is closed.
Releases(f) == f.op \in {"closeTail", "allTail", "gone"}
ClosedInv(s) == \A f \in FramesOf(s) : Releases(f) => connState[f.c] = "sClose"

NoneTwice ==
  \A i, j \in 1..Len(connections) : connections[i] = connections[j] => i = j

Basics == TypeOK /\ NotAboveMax /\ ClosedInv(stack)

Safe ==
  /\ NoneTwice /\ StackInv(stack)
  /\ state = "deleted" => sock = "none"
  /\ IsFiniteSet(alive) /\ WinSockCounted

Inv == Basics /\ (~undermined => Safe)

(***************************************************************************)
(* Frames, and stacks of them.                                             *)
(***************************************************************************)
LEMMA FrameTypes ==
  /\ \A ev \in Events, s \in Conns \cup {Server} : Handler(ev, s) \in Frames
  /\ Closing \in Frames /\ Opening \in Frames /\ Accepted \in Frames
  /\ ImplGone \in Frames
  /\ \A c \in Conns : ConnClosing(c) \in Frames
  /\ \A i \in Index : Walk(i) \in Frames /\ CloseAll(i) \in Frames
                      /\ Dismantle(i) \in Frames
  /\ \A i \in Place, c \in Conns :
       /\ AfterUpdate(i, c) \in Frames /\ CloseTail(i, c) \in Frames
       /\ AllTail(i, c) \in Frames /\ Gone(i, c) \in Frames
<1>1. /\ \A ev \in Events, s \in Conns \cup {Server} : Handler(ev, s) \in Frames
      /\ Closing \in Frames /\ Opening \in Frames /\ Accepted \in Frames
      /\ ImplGone \in Frames
  BY DEF Frames, Handler, Closing, Opening, Accepted, ImplGone
<1>2. /\ \A c \in Conns : ConnClosing(c) \in Frames
      /\ \A i \in Index : Walk(i) \in Frames /\ CloseAll(i) \in Frames
                          /\ Dismantle(i) \in Frames
  BY DEF Frames, ConnClosing, Walk, CloseAll, Dismantle
<1>3. \A i \in Place, c \in Conns :
        /\ AfterUpdate(i, c) \in Frames /\ CloseTail(i, c) \in Frames
        /\ AllTail(i, c) \in Frames /\ Gone(i, c) \in Frames
  BY DEF Frames, AfterUpdate, CloseTail, AllTail, Gone
<1> QED BY <1>1, <1>2, <1>3

\* The fields a frame of each kind has.
LEMMA FrameFields ==
  ASSUME NEW f \in Frames
  PROVE  /\ f.op = "handler" => f.ev \in Events /\ f.s \in Conns \cup {Server}
         /\ f.op \in {"connClose", "afterUpdate", "closeTail", "allTail", "gone"}
              => f.c \in Conns
         /\ f.op \in {"walk", "closeAll", "dismantle"} => f.i \in Index
         /\ Placed(f) => f.i \in Place /\ f.c \in Conns
         /\ Releases(f) => Placed(f)
  BY DEF Frames, Placed, Releases

LEMMA Push ==
  ASSUME NEW s \in Seq(Frames), NEW f \in Frames
  PROVE  /\ <<f>> \o s \in Seq(Frames) /\ Len(<<f>> \o s) = Len(s) + 1
         /\ <<f>> \o s # <<>>
         /\ \A k \in 1..(Len(s) + 1) :
              (<<f>> \o s)[k] = IF k = 1 THEN f ELSE s[k - 1]
         /\ FramesOf(<<f>> \o s) = {f} \cup FramesOf(s)
<1>1. <<f>> \in Seq(Frames) /\ Len(<<f>>) = 1 /\ <<f>>[1] = f
  OBVIOUS
<1>2. /\ <<f>> \o s \in Seq(Frames) /\ Len(<<f>> \o s) = Len(s) + 1 /\ Len(s) \in Nat
      /\ \A k \in 1..(Len(s) + 1) :
           (<<f>> \o s)[k] = IF k = 1 THEN f ELSE s[k - 1]
  BY <1>1, ConcatProperties, LenProperties
<1> DEFINE t == <<f>> \o s
<1> HIDE DEF t
<1>3. ASSUME NEW g \in FramesOf(t) PROVE g \in {f} \cup FramesOf(s)
  <2>1. PICK k \in 1..Len(t) : g = t[k]
    BY <1>3 DEF FramesOf
  <2>2. k = 1 \/ k - 1 \in 1..Len(s)
    BY <1>2, <2>1 DEF t
  <2> QED BY <1>2, <2>1, <2>2 DEF FramesOf, t
<1>4. f \in FramesOf(t)
  BY <1>2 DEF FramesOf, t
<1>5. ASSUME NEW g \in FramesOf(s) PROVE g \in FramesOf(t)
  <2>1. PICK k \in 1..Len(s) : g = s[k]
    BY <1>5 DEF FramesOf
  <2>2. k + 1 \in 1..Len(t) /\ t[k + 1] = g
    BY <1>2, <2>1 DEF t
  <2> QED BY <2>2 DEF FramesOf
<1>6. t # <<>>
  BY <1>2 DEF t
<1> QED BY <1>2, <1>3, <1>4, <1>5, <1>6 DEF t

LEMMA Pop ==
  ASSUME NEW s \in Seq(Frames), s # <<>>
  PROVE  /\ Head(s) \in Frames /\ Tail(s) \in Seq(Frames)
         /\ Head(s) = s[1] /\ Len(s) \in Nat /\ Len(s) > 0
         /\ Len(Tail(s)) = Len(s) - 1
         /\ \A k \in 1..(Len(s) - 1) : Tail(s)[k] = s[k + 1]
         /\ FramesOf(s) = {Head(s)} \cup FramesOf(Tail(s))
<1>1. Head(s) = s[1] /\ Len(s) > 0
  OBVIOUS
<1>2. /\ Head(s) \in Frames /\ Tail(s) \in Seq(Frames)
      /\ Head(s) = s[1] /\ Len(s) \in Nat /\ Len(s) > 0
      /\ Len(Tail(s)) = Len(s) - 1
      /\ \A k \in 1..(Len(s) - 1) : Tail(s)[k] = s[k + 1]
  BY <1>1, HeadTailProperties, LenProperties
<1>3. ASSUME NEW g \in FramesOf(s) PROVE g \in {Head(s)} \cup FramesOf(Tail(s))
  <2>1. PICK k \in 1..Len(s) : g = s[k]
    BY <1>3 DEF FramesOf
  <2>2. k = 1 \/ (k - 1 \in 1..Len(Tail(s)) /\ Tail(s)[k - 1] = g)
    BY <1>2, <2>1
  <2> QED BY <1>2, <2>1, <2>2 DEF FramesOf
<1>4. ASSUME NEW g \in FramesOf(Tail(s)) PROVE g \in FramesOf(s)
  <2>1. PICK k \in 1..Len(Tail(s)) : g = Tail(s)[k]
    BY <1>4 DEF FramesOf
  <2>2. k + 1 \in 1..Len(s) /\ g = s[k + 1]
    BY <1>2, <2>1
  <2> QED BY <2>2 DEF FramesOf
<1>5. Head(s) \in FramesOf(s)
  BY <1>2 DEF FramesOf
<1> QED BY <1>2, <1>3, <1>4, <1>5

LEMMA Empty == <<>> \in Seq(Frames) /\ Len(<<>>) = 0 /\ FramesOf(<<>>) = {}
<1>1. <<>> \in Seq(Frames) /\ Len(<<>>) = 0
  BY EmptySeq
<1> QED BY <1>1 DEF FramesOf

LEMMA Two ==
  ASSUME NEW s \in Seq(Frames), NEW f \in Frames, NEW g \in Frames
  PROVE  <<f, g>> \o s = <<f>> \o (<<g>> \o s)
<1>1. /\ <<f>> \in Seq(Frames) /\ <<g>> \in Seq(Frames) /\ <<f, g>> \in Seq(Frames)
      /\ Len(<<g>>) = 1 /\ <<g>>[1] = g
      /\ Len(<<f, g>>) = 2 /\ <<f, g>>[1] = f /\ <<f, g>>[2] = g
  OBVIOUS
<1>2. <<f, g>> = <<f>> \o <<g>>
  <2> DEFINE t == <<f>> \o <<g>>
  <2>1. /\ t \in Seq(Frames) /\ Len(t) = 2
        /\ \A k \in 1..2 : t[k] = IF k = 1 THEN f ELSE <<g>>[k - 1]
    BY <1>1, Push
  <2> HIDE DEF t
  <2>2. \A k \in 1..2 : t[k] = <<f, g>>[k]
    BY <1>1, <2>1
  <2>3. t = <<f, g>>
    BY <1>1, <2>1, <2>2, SeqEqual
  <2> QED BY <2>3 DEF t
<1> QED BY <1>1, <1>2, ConcatAssociative

\* A frame may be put on a stack if it may lie above each of its frames.
LEMMA PushShape ==
  ASSUME NEW s \in Seq(Frames), NEW f \in Frames, Shape(s),
         \A g \in FramesOf(s) : Over(f, g)
  PROVE  Shape(<<f>> \o s)
<1> DEFINE t == <<f>> \o s
<1>1. /\ Len(t) = Len(s) + 1 /\ Len(s) \in Nat
      /\ \A k \in 1..(Len(s) + 1) : t[k] = IF k = 1 THEN f ELSE s[k - 1]
  BY Push, LenProperties
<1> HIDE DEF t
<1>2. ASSUME NEW j \in 1..Len(t), NEW k \in 1..Len(t), j < k
      PROVE  Over(t[j], t[k])
  <2>1. k - 1 \in 1..Len(s) /\ t[k] = s[k - 1]
    BY <1>1, <1>2
  <2>2. CASE j = 1
    <3>1. s[k - 1] \in FramesOf(s) /\ t[j] = f
      BY <1>1, <2>1, <2>2 DEF FramesOf
    <3> QED BY <2>1, <3>1
  <2>3. CASE j # 1
    <3>1. j - 1 \in 1..Len(s) /\ t[j] = s[j - 1] /\ j - 1 < k - 1
      BY <1>1, <1>2, <2>3
    <3> QED BY <2>1, <3>1 DEF Shape
  <2> QED BY <2>2, <2>3
<1>3. Shape(t)
  BY <1>2 DEF Shape
<1> QED BY <1>3 DEF t

LEMMA PopShape ==
  ASSUME NEW s \in Seq(Frames), s # <<>>, Shape(s)
  PROVE  /\ Shape(Tail(s))
         /\ \A g \in FramesOf(Tail(s)) : Over(Head(s), g)
         /\ AtBottom(Head(s)) => Tail(s) = <<>>
<1> DEFINE t == Tail(s)
<1>1. /\ Head(s) = s[1] /\ Len(s) \in Nat /\ Len(s) > 0 /\ Len(t) = Len(s) - 1
      /\ \A k \in 1..(Len(s) - 1) : t[k] = s[k + 1]
      /\ t \in Seq(Frames)
  BY Pop
<1> HIDE DEF t
<1>2. ASSUME NEW j \in 1..Len(t), NEW k \in 1..Len(t), j < k
      PROVE  Over(t[j], t[k])
  <2>1. j + 1 \in 1..Len(s) /\ k + 1 \in 1..Len(s) /\ j + 1 < k + 1
        /\ t[j] = s[j + 1] /\ t[k] = s[k + 1]
    BY <1>1, <1>2
  <2> QED BY <2>1 DEF Shape
<1>3. ASSUME NEW g \in FramesOf(t) PROVE Over(Head(s), g)
  <2>1. PICK k \in 1..Len(t) : g = t[k]
    BY <1>3 DEF FramesOf
  <2>2. 1 \in 1..Len(s) /\ k + 1 \in 1..Len(s) /\ 1 < k + 1 /\ t[k] = s[k + 1]
    BY <1>1
  <2> QED BY <1>1, <2>1, <2>2 DEF Shape
<1>4. ASSUME AtBottom(Head(s)) PROVE t = <<>>
  <2>1. \A g \in FramesOf(t) : FALSE
    BY <1>3, <1>4 DEF Over
  <2>2. Len(t) = 0
    <3>1. CASE Len(t) > 0
      <4>1. t[1] \in FramesOf(t)
        BY <1>1, <3>1 DEF FramesOf
      <4> QED BY <2>1, <4>1
    <3> QED BY <1>1, <3>1
  <2> QED BY <1>1, <2>2
<1>5. Shape(t)
  BY <1>2 DEF Shape
<1> QED BY <1>3, <1>4, <1>5 DEF t

LEMMA Single ==
  ASSUME NEW f \in Frames
  PROVE  /\ <<f>> \o <<>> = <<f>> /\ <<f>> \in Seq(Frames)
         /\ Shape(<<f>>) /\ FramesOf(<<f>>) = {f}
<1>1. Shape(<<>>) /\ \A g \in FramesOf(<<>>) : FALSE
  BY Empty DEF Shape
<1>2. <<f>> \o <<>> = <<f>> /\ <<f>> \in Seq(Frames)
  OBVIOUS
<1>3. Shape(<<f>> \o <<>>) /\ FramesOf(<<f>> \o <<>>) = {f} \cup FramesOf(<<>>)
  BY <1>1, Empty, Push, PushShape
<1> QED BY <1>2, <1>3, Empty

\* Frames that tell nothing of the vector's places lie above anything but a
\* loop that is about to look at it.
Free(f) == f.op \in {"handler", "connClose", "close", "open", "accepted"}

LEMMA FreeOver ==
  ASSUME NEW f, NEW g, Free(f), ~OnTop(g)
  PROVE  Over(f, g) /\ ~OnTop(f) /\ ~Releasing(f) /\ ~Walking(f) /\ ~Releases(f)
         /\ ~Ending(f)
  BY DEF Free, Over, Placed, OnTop, AtBottom, Walking, Ending, Releasing, Releases

(***************************************************************************)
(* Stacks that tell the truth about the vector.                            *)
(***************************************************************************)
LEMMA PushInv ==
  ASSUME NEW s, StackInv(s), NEW f \in Frames, FrameOK(f),
         \A g \in FramesOf(s) : Over(f, g),
         state = "deleted" => f.op \notin {"open", "implGone"}
  PROVE  StackInv(<<f>> \o s) /\ FramesOf(<<f>> \o s) = {f} \cup FramesOf(s)
<1>1. <<f>> \o s \in Seq(Frames) /\ FramesOf(<<f>> \o s) = {f} \cup FramesOf(s)
  BY Push DEF StackInv
<1>2. Shape(<<f>> \o s)
  BY PushShape DEF StackInv
<1> QED BY <1>1, <1>2 DEF StackInv

\* Popping a frame that tells nothing.
LEMMA PopInv ==
  ASSUME NEW s, StackInv(s), s # <<>>, Free(Head(s)), Head(s).op # "accepted"
  PROVE  /\ StackInv(Tail(s)) /\ Head(s) \in Frames /\ FrameOK(Head(s))
         /\ FramesOf(s) = {Head(s)} \cup FramesOf(Tail(s))
         /\ \A g \in FramesOf(Tail(s)) : ~OnTop(g)
<1>1. /\ Tail(s) \in Seq(Frames) /\ FramesOf(s) = {Head(s)} \cup FramesOf(Tail(s))
      /\ Head(s) \in Frames
  BY Pop DEF StackInv
<1>2. Shape(Tail(s)) /\ \A g \in FramesOf(Tail(s)) : Over(Head(s), g)
  BY PopShape DEF StackInv
<1>3. ~Releasing(Head(s)) /\ ~Walking(Head(s)) /\ ~Ending(Head(s))
  BY DEF Free, Releasing, Walking, Ending
<1> QED BY <1>1, <1>2, <1>3 DEF StackInv, Over

\* Replacing the top frame by one that tells the same.
LEMMA ReplaceInv ==
  ASSUME NEW s, StackInv(s), s # <<>>, NEW f \in Frames, FrameOK(f),
         Head(s).op # "accepted", f.op \notin {"open", "implGone"},
         Releasing(Head(s)) => Releasing(f), Walking(Head(s)) => Walking(f),
         Ending(Head(s)) => Ending(f),
         \A g \in FramesOf(Tail(s)) : Over(Head(s), g) => Over(f, g)
  PROVE  /\ StackInv(<<f>> \o Tail(s))
         /\ FramesOf(<<f>> \o Tail(s)) = {f} \cup FramesOf(Tail(s))
<1>1. /\ Tail(s) \in Seq(Frames) /\ FramesOf(s) = {Head(s)} \cup FramesOf(Tail(s))
  BY Pop DEF StackInv
<1>2. /\ Shape(Tail(s)) /\ \A g \in FramesOf(Tail(s)) : Over(f, g)
  BY PopShape DEF StackInv
<1>3. /\ <<f>> \o Tail(s) \in Seq(Frames)
      /\ FramesOf(<<f>> \o Tail(s)) = {f} \cup FramesOf(Tail(s))
  BY <1>1, Push
<1>4. Shape(<<f>> \o Tail(s))
  BY <1>1, <1>2, PushShape
<1> QED BY <1>1, <1>3, <1>4 DEF StackInv

\* Below a report nothing is about to look at the vector.
LEMMA Caller ==
  ASSUME StackInv(stack), NEW call, MayCall(call)
  PROVE  ~undermined /\ \A g \in FramesOf(stack) : ~OnTop(g)
<1>1. CASE stack = <<>>
  BY <1>1, Empty DEF MayCall
<1>2. CASE TopIs("handler")
  <2>1. stack # <<>> /\ Free(Head(stack)) /\ ~OnTop(Head(stack))
        /\ Head(stack).op # "accepted"
    BY <1>2 DEF TopIs, Free, OnTop
  <2> QED BY <2>1, PopInv DEF MayCall
<1> QED BY <1>1, <1>2 DEF MayCall

(***************************************************************************)
(* What holds whatever is undermined: the types, the limit of the vector,  *)
(* and that what is about to be released was closed.                       *)
(***************************************************************************)
Descriptors == {"none", "fresh", "bound"}

LEMMA BasicsKept ==
  ASSUME Basics, UNCHANGED <<connections, alive, connState, scratch, inited, polled>>,
         state' \in States, sock' \in Descriptors, undermined' \in BOOLEAN,
         stack' \in Seq(Frames), ClosedInv(stack')
  PROVE  Basics'
  BY DEF Basics, TypeOK, NotAboveMax, ClosedInv, Descriptors

\* The top frame is gone.
LEMMA BasicTail ==
  ASSUME Basics, stack # <<>>
  PROVE  /\ Tail(stack) \in Seq(Frames) /\ ClosedInv(Tail(stack))
         /\ Head(stack) \in Frames
         /\ Releases(Head(stack)) => connState[Head(stack).c] = "sClose"
  BY Pop DEF Basics, TypeOK, ClosedInv

LEMMA BasicPush ==
  ASSUME NEW s \in Seq(Frames), ClosedInv(s), NEW f \in Frames, ~Releases(f)
  PROVE  <<f>> \o s \in Seq(Frames) /\ ClosedInv(<<f>> \o s)
  BY Push DEF ClosedInv

\* The frames of reports and calls of the server.
LEMMA ServerFrames ==
  /\ Closing \in Frames /\ Free(Closing) /\ Closing.op = "close"
  /\ Opening \in Frames /\ Free(Opening) /\ Opening.op = "open"
  /\ Accepted \in Frames /\ Free(Accepted) /\ Accepted.op = "accepted"
  /\ \A ev \in Events :
       /\ Handler(ev, Server) \in Frames /\ Free(Handler(ev, Server))
       /\ Handler(ev, Server).op = "handler" /\ Subject(Handler(ev, Server)) = {}
  /\ Subject(Closing) = {} /\ Subject(Opening) = {} /\ Subject(Accepted) = {}
  BY FrameTypes, ServerAssumption
     DEF Closing, Opening, Accepted, Handler, Free, Events, Subject

\* Those of a connection.
LEMMA ConnFrames ==
  ASSUME NEW c \in Conns
  PROVE  /\ \A ev \in Events \ {"sConnection"} :
              /\ Handler(ev, c) \in Frames /\ Free(Handler(ev, c))
              /\ Handler(ev, c).op = "handler" /\ Subject(Handler(ev, c)) = {c}
         /\ ConnClosing(c) \in Frames /\ Free(ConnClosing(c))
         /\ ConnClosing(c).op = "connClose" /\ Subject(ConnClosing(c)) = {c}
         /\ Handler("sConnection", c) \in Frames /\ Free(Handler("sConnection", c))
         /\ Handler("sConnection", c).op = "handler"
         /\ Subject(Handler("sConnection", c)) = {}
  BY FrameTypes DEF Handler, ConnClosing, Free, Events, Subject

LEMMA CloseServerBasics ==
  ASSUME Basics, NEW rest \in Seq(Frames), ClosedInv(rest), CloseServer(rest),
         undermined' \in BOOLEAN
  PROVE  Basics'
<1> DEFINE h == Handler("sClose", Server)
<1>1. h \in Frames /\ ~Releases(h)
  BY ServerFrames DEF Events, Releases
<1>2. <<h>> \o rest \in Seq(Frames) /\ ClosedInv(<<h>> \o rest)
  BY <1>1, BasicPush
<1>3. <<>> \o rest = rest
  BY ConcatEmptySeq
<1>4. /\ stack' = <<h>> \o rest \/ stack' = rest
      /\ state' \in {"sClose", state} /\ sock' = "none"
      /\ UNCHANGED <<connections, alive, connState, scratch, inited, polled>>
  BY <1>3 DEF CloseServer
<1> HIDE DEF h
<1> QED BY <1>2, <1>4, BasicsKept DEF Descriptors, Basics, TypeOK, States

LEMMA BindAndListenBasics ==
  ASSUME Basics, NEW rest \in Seq(Frames), ClosedInv(rest), NEW before \in States,
         BindAndListen(before, rest), undermined' \in BOOLEAN
  PROVE  Basics'
<1> DEFINE h == Handler("sListening", Server)
<1>1. h \in Frames /\ ~Releases(h)
  BY ServerFrames DEF Events, Releases
<1>2. <<h>> \o rest \in Seq(Frames) /\ ClosedInv(<<h>> \o rest)
  BY <1>1, BasicPush
<1>3. /\ stack' = <<h>> \o rest \/ stack' = rest
      /\ state' \in {"sListening", before} /\ sock' \in Descriptors
      /\ UNCHANGED <<connections, alive, connState, scratch, inited, polled>>
  BY DEF BindAndListen, Descriptors
<1> HIDE DEF h
<1> QED BY <1>2, <1>3, BasicsKept DEF States

LEMMA CloseConnBasics ==
  ASSUME Basics, NEW c \in Conns, NEW rest \in Seq(Frames),
         \A f \in FramesOf(rest) : Releases(f) => f.c = c \/ connState[f.c] = "sClose",
         CloseConn(c, rest), undermined' \in BOOLEAN
  PROVE  Basics'
<1> DEFINE h == Handler("sClose", c)
<1>1. h \in Frames /\ ~Releases(h)
  BY ConnFrames DEF Events, Releases
<1>2. /\ <<h>> \o rest \in Seq(Frames)
      /\ FramesOf(<<h>> \o rest) = {h} \cup FramesOf(rest)
  BY <1>1, Push
<1>3. <<>> \o rest = rest
  BY ConcatEmptySeq
<1>4. /\ stack' = <<h>> \o rest \/ stack' = rest
      /\ connState' = [connState EXCEPT ![c] = "sClose"]
      /\ UNCHANGED <<state, sock, connections, alive, scratch, inited, polled>>
  BY <1>3 DEF CloseConn
<1> HIDE DEF h
<1>5. /\ connState' \in [Conns -> ConnStates] /\ connState'[c] = "sClose"
      /\ \A d \in Conns : connState[d] = "sClose" => connState'[d] = "sClose"
  BY <1>4 DEF Basics, TypeOK, ConnStates
<1>6. stack' \in Seq(Frames) /\ FramesOf(stack') \subseteq {h} \cup FramesOf(rest)
  BY <1>2, <1>4
<1>7. ASSUME NEW f \in FramesOf(stack'), Releases(f) PROVE connState'[f.c] = "sClose"
  <2>1. f \in FramesOf(rest)
    BY <1>1, <1>6, <1>7
  <2>2. f \in Frames
    BY <2>1 DEF FramesOf
  <2>3. f.c \in Conns
    BY <1>7, <2>2, FrameFields
  <2> QED BY <1>5, <1>7, <2>1, <2>3
<1>8. ClosedInv(stack)'
  BY <1>7 DEF ClosedInv
<1> QED BY <1>4, <1>5, <1>6, <1>8 DEF Basics, TypeOK, NotAboveMax

(***************************************************************************)
(* What edits of the vector do.                                            *)
(***************************************************************************)
LEMMA EraseAtElements ==
  ASSUME NEW seq \in Seq(Conns), NEW i \in 1..Len(seq)
  PROVE  /\ EraseAt(seq, i) \in Seq(Conns)
         /\ Len(EraseAt(seq, i)) = Len(seq) - 1
         /\ \A k \in 1..(Len(seq) - 1) :
              EraseAt(seq, i)[k] = IF k < i THEN seq[k] ELSE seq[k + 1]
<1> DEFINE a == SubSeq(seq, 1, i - 1)
           b == SubSeq(seq, i + 1, Len(seq))
           n == Len(seq)
<1>1. n \in Nat /\ i \in Int /\ i >= 1 /\ i <= n /\ \A k \in 1..n : seq[k] \in Conns
  BY LenProperties, ElementOfSeq
<1>2. /\ a \in Seq(Conns) /\ Len(a) = i - 1 /\ \A k \in 1..(i - 1) : a[k] = seq[k]
  <2>1. \A k \in 1..(i - 1) : seq[k] \in Conns
    BY <1>1
  <2>2. /\ a \in Seq(Conns) /\ Len(a) = (IF 1 <= i - 1 THEN i - 1 - 1 + 1 ELSE 0)
        /\ \A k \in 1..(i - 1 - 1 + 1) : a[k] = seq[1 + k - 1]
    BY <1>1, <2>1, SubSeqProperties
  <2> HIDE DEF a
  <2> QED BY <1>1, <2>2
<1>3. /\ b \in Seq(Conns) /\ Len(b) = n - i /\ \A k \in 1..(n - i) : b[k] = seq[i + k]
  <2>1. \A k \in (i + 1)..n : seq[k] \in Conns
    BY <1>1
  <2>2. /\ b \in Seq(Conns) /\ Len(b) = (IF i + 1 <= n THEN n - (i + 1) + 1 ELSE 0)
        /\ \A k \in 1..(n - (i + 1) + 1) : b[k] = seq[i + 1 + k - 1]
    BY <1>1, <2>1, SubSeqProperties
  <2> HIDE DEF b
  <2> QED BY <1>1, <2>2
<1> DEFINE t == a \o b
<1>4. EraseAt(seq, i) = t
  BY DEF EraseAt
<1> HIDE DEF a, b
<1>5. /\ t \in Seq(Conns) /\ Len(t) = Len(a) + Len(b)
      /\ \A k \in 1..(Len(a) + Len(b)) :
           t[k] = IF k <= Len(a) THEN a[k] ELSE b[k - Len(a)]
  BY <1>2, <1>3, ConcatProperties
<1> HIDE DEF t
<1>6. Len(t) = Len(seq) - 1
  BY <1>1, <1>2, <1>3, <1>5
<1>7. ASSUME NEW k \in 1..(Len(seq) - 1)
      PROVE  t[k] = IF k < i THEN seq[k] ELSE seq[k + 1]
  <2>1. k \in 1..(Len(a) + Len(b)) /\ Len(a) = i - 1 /\ k \in Int
    BY <1>1, <1>2, <1>3
  <2>2. CASE k < i
    <3>1. t[k] = a[k] /\ k \in 1..(i - 1)
      BY <1>1, <1>5, <2>1, <2>2
    <3> QED BY <1>2, <2>2, <3>1
  <2>3. CASE ~(k < i)
    <3>1. t[k] = b[k - (i - 1)] /\ k - (i - 1) \in 1..(n - i)
      BY <1>1, <1>5, <2>1, <2>3
    <3>2. i + (k - (i - 1)) = k + 1
      BY <1>1, <2>1
    <3> QED BY <1>3, <2>3, <3>1, <3>2
  <2> QED BY <2>2, <2>3
<1> QED BY <1>4, <1>5, <1>6, <1>7

\* Erasing element i.
LEMMA ErasedBasics ==
  ASSUME Basics, NEW i \in 1..Len(connections), connections' = EraseAt(connections, i)
  PROVE  /\ connections' \in Seq(Conns) /\ Len(connections') = Len(connections) - 1
         /\ Len(connections) \in Nat
         /\ \A k \in 1..Len(connections') :
              connections'[k] = IF k < i THEN connections[k] ELSE connections[k + 1]
         /\ NotAboveMax'
<1>1. connections \in Seq(Conns) /\ Len(connections) \in Nat
      /\ Len(connections) <= MaxConnections /\ MaxConnections \in Nat
  BY MaxAssumption, LenProperties DEF Basics, TypeOK, NotAboveMax
<1>2. /\ connections' \in Seq(Conns) /\ Len(connections') = Len(connections) - 1
      /\ \A k \in 1..(Len(connections) - 1) :
           connections'[k] = IF k < i THEN connections[k] ELSE connections[k + 1]
  BY <1>1, EraseAtElements
<1>3. NotAboveMax'
  BY <1>1, <1>2 DEF NotAboveMax
<1> QED BY <1>1, <1>2, <1>3

LEMMA ReleaseBasics ==
  ASSUME Basics, NEW c, Release(c)
  PROVE  /\ alive' = alive \ {c} /\ alive' \subseteq Conns /\ inited' \in Int
         /\ scratch' \in {"null", "free"} \cup Conns
         /\ scratch' \in Conns => scratch \in Conns
  BY ServerAssumption DEF Release, Basics, TypeOK

\* A placed frame that is resumed finds its place.
LEMMA Found ==
  ASSUME Basics, NEW op \in {"afterUpdate", "closeTail", "allTail", "gone"}, Resumes(op)
  PROVE  /\ stack # <<>> /\ Head(stack).op = op /\ Placed(Head(stack))
         /\ Head(stack).i \in Place /\ Head(stack).i \in 1..Len(connections)
         /\ Head(stack).c \in alive /\ Head(stack).c \in Conns
         /\ connections[Head(stack).i] = Head(stack).c
         /\ Len(connections) \in Nat
<1>1. stack # <<>> /\ Head(stack).op = op /\ Sound(Head(stack))
  BY DEF Resumes, TopIs
<1>2. Placed(Head(stack)) /\ Subject(Head(stack)) = {Head(stack).c}
  BY <1>1 DEF Placed, Subject
<1>3. Head(stack).i \in Place /\ Head(stack).c \in Conns
  BY <1>1, <1>2, BasicTail, FrameFields
<1>4. Len(connections) \in Nat
  BY LenProperties DEF Basics, TypeOK
<1>5. Head(stack).i \in 1..Len(connections)
  BY <1>1, <1>2, <1>3, <1>4, MaxAssumption DEF Sound, Place
<1> QED BY <1>1, <1>2, <1>3, <1>4, <1>5 DEF Sound

(***************************************************************************)
(* Each action, as to these.                                               *)
(***************************************************************************)
LEMMA CallBasics ==
  ASSUME Basics, CallListen \/ CallClose \/ CallDelete
  PROVE  Basics'
<1>1. /\ stack \in Seq(Frames) /\ ClosedInv(stack) /\ state \in States
      /\ undermined \in BOOLEAN
  BY DEF Basics, TypeOK
<1>2. UNCHANGED undermined
  BY DEF CallListen, CallClose, CallDelete
<1>3. ASSUME CloseServer(<<Closing, Opening>> \o stack) PROVE Basics'
  <2>1. <<Opening>> \o stack \in Seq(Frames) /\ ClosedInv(<<Opening>> \o stack)
    BY <1>1, ServerFrames, BasicPush DEF Releases
  <2> DEFINE rest == <<Closing>> \o (<<Opening>> \o stack)
  <2>2. rest \in Seq(Frames) /\ ClosedInv(rest)
    BY <2>1, ServerFrames, BasicPush DEF Releases
  <2>3. rest = <<Closing, Opening>> \o stack
    BY <1>1, ServerFrames, Two
  <2> HIDE DEF rest
  <2> QED BY <1>1, <1>2, <1>3, <2>2, <2>3, CloseServerBasics
<1>4. ASSUME CloseServer(<<ImplGone>>) PROVE Basics'
  <2>1. ImplGone \in Frames /\ ~Releases(ImplGone)
    BY FrameTypes DEF ImplGone, Releases
  <2>2. <<ImplGone>> \in Seq(Frames) /\ ClosedInv(<<ImplGone>>)
    BY <2>1, Single DEF ClosedInv
  <2> QED BY <1>1, <1>2, <1>4, <2>2, CloseServerBasics
<1>5. ASSUME CloseServer(stack) PROVE Basics'
  BY <1>1, <1>2, <1>5, CloseServerBasics
<1>6. ASSUME BindAndListen(state, stack) PROVE Basics'
  BY <1>1, <1>2, <1>6, BindAndListenBasics
<1> QED BY <1>3, <1>4, <1>5, <1>6 DEF CallListen, CallClose, CallDelete

LEMMA CloseCallBasics ==
  ASSUME Basics, CallCloseOne \/ CallCloseConnection
  PROVE  Basics'
<1>1. /\ stack \in Seq(Frames) /\ ClosedInv(stack) /\ alive \subseteq Conns
      /\ undermined \in BOOLEAN
  BY DEF Basics, TypeOK
<1>2. CASE CallCloseOne
  <2>1. PICK c \in alive : CloseConn(c, stack) /\ UNCHANGED undermined
    BY <1>2 DEF CallCloseOne
  <2> QED BY <1>1, <2>1, CloseConnBasics DEF ClosedInv
<1>3. CASE CallCloseConnection
  <2>1. PICK i \in 1..Len(connections) :
          CloseConnection(i) /\ undermined' = Undermines(i)
    BY <1>3 DEF CallCloseConnection
  <2> DEFINE c == connections[i]
             f == CloseTail(i, c)
  <2>2. c \in Conns /\ i \in Place
    BY LenProperties, ElementOfSeq, MaxAssumption DEF Place, Basics, TypeOK, NotAboveMax
  <2>3. f \in Frames /\ f.c = c
    BY <2>2, FrameTypes DEF CloseTail
  <2>4. CloseConn(c, <<f>> \o stack)
    BY <2>1 DEF CloseConnection
  <2> HIDE DEF c, f
  <2>5. <<f>> \o stack \in Seq(Frames) /\ FramesOf(<<f>> \o stack) = {f} \cup FramesOf(stack)
    BY <1>1, <2>3, Push
  <2>6. undermined' \in BOOLEAN
    BY <2>1 DEF Undermines
  <2> QED BY <1>1, <2>2, <2>3, <2>4, <2>5, <2>6, CloseConnBasics DEF ClosedInv
<1> QED BY <1>2, <1>3

LEMMA CloseAllBasics ==
  ASSUME Basics, CallCloseAll
  PROVE  Basics'
<1> DEFINE f == CloseAll(1)
<1>1. f \in Frames /\ ~Releases(f)
  BY FrameTypes, MaxAssumption DEF CloseAll, Index, Releases
<1>2. /\ stack' = <<f>> \o stack /\ undermined' \in BOOLEAN
      /\ UNCHANGED <<state, sock, connections, alive, connState, scratch, inited, polled>>
  BY DEF CallCloseAll
<1> HIDE DEF f
<1>3. stack' \in Seq(Frames) /\ ClosedInv(stack')
  BY <1>1, <1>2, BasicPush DEF Basics, TypeOK
<1> QED BY <1>2, <1>3, BasicsKept DEF Basics, TypeOK, Descriptors

LEMMA ServerStepBasics ==
  ASSUME Basics, HandlerReturn \/ DoClose \/ DoOpen \/ DoAccepted, UNCHANGED undermined
  PROVE  Basics'
<1>1. stack # <<>>
  BY DEF HandlerReturn, DoClose, DoOpen, DoAccepted, Resumes, TopIs
<1>2. Tail(stack) \in Seq(Frames) /\ ClosedInv(Tail(stack))
  BY <1>1, BasicTail
<1>3. /\ state \in States /\ sock \in Descriptors /\ undermined \in BOOLEAN
      /\ scratch \in {"null", "free"} \cup Conns
  BY DEF Basics, TypeOK, Descriptors
<1>4. CASE HandlerReturn
  BY <1>2, <1>3, <1>4, BasicsKept DEF HandlerReturn
<1>5. CASE DoClose
  BY <1>2, <1>3, <1>5, CloseServerBasics DEF DoClose
<1>6. CASE DoOpen
  <2>1. CASE BindAndListen("sDisconnected", Tail(stack))
    BY <1>2, <1>3, <2>1, BindAndListenBasics DEF States
  <2>2. CASE /\ sock' = "none" /\ stack' = Tail(stack)
             /\ UNCHANGED <<state, connections, alive, connState, scratch, inited, polled>>
    BY <1>2, <1>3, <2>2, BasicsKept DEF Descriptors
  <2> QED BY <1>6, <2>1, <2>2 DEF DoOpen
<1>7. CASE DoAccepted
  <2>1. /\ stack' = Tail(stack) /\ scratch' \in {"null", scratch}
        /\ UNCHANGED <<state, sock, connections, alive, connState, inited, polled>>
    BY <1>7 DEF DoAccepted, NextScratch
  <2> QED BY <1>2, <1>3, <2>1 DEF Basics, TypeOK, NotAboveMax, ClosedInv
<1> QED BY <1>4, <1>5, <1>6, <1>7

LEMMA ConnCloseBasics ==
  ASSUME Basics, DoConnClose, UNCHANGED undermined
  PROVE  Basics'
<1>1. stack # <<>> /\ Head(stack).op = "connClose"
      /\ CloseConn(Head(stack).c, Tail(stack))
  BY DEF DoConnClose, Resumes, TopIs
<1>2. Head(stack).c \in Conns /\ Tail(stack) \in Seq(Frames) /\ ClosedInv(Tail(stack))
  BY <1>1, BasicTail, FrameFields
<1> QED BY <1>1, <1>2, CloseConnBasics DEF ClosedInv, Basics, TypeOK

\* closeConnection(), closeAllConnections() and ~Socket release what they closed.
LEMMA ReleaseStepBasics ==
  ASSUME Basics, DoCloseTail \/ DoAllTail \/ DoGone, UNCHANGED undermined
  PROVE  Basics'
<1> DEFINE i == Head(stack).i
           c == Head(stack).c
<1>1. /\ stack # <<>> /\ i \in Place /\ i \in 1..Len(connections)
  BY Found DEF DoCloseTail, DoAllTail, DoGone
<1>2. Release(c) /\ UNCHANGED <<state, sock, connState, polled>>
  BY DEF DoCloseTail, DoAllTail, DoGone
<1>3. /\ alive' \subseteq Conns /\ inited' \in Int
      /\ scratch' \in {"null", "free"} \cup Conns
  BY <1>2, ReleaseBasics
<1>4. Tail(stack) \in Seq(Frames) /\ ClosedInv(Tail(stack))
  BY <1>1, BasicTail
<1>5. connections' \in Seq(Conns) /\ NotAboveMax'
  <2>1. CASE DoCloseTail
    <3>1. connections' = EraseAt(connections, i)
      BY <2>1 DEF DoCloseTail
    <3> QED BY <1>1, <3>1, ErasedBasics
  <2>2. CASE DoAllTail \/ DoGone
    BY <2>2 DEF DoAllTail, DoGone, Basics, TypeOK, NotAboveMax
  <2> QED BY <2>1, <2>2
<1>6. stack' \in Seq(Frames) /\ ClosedInv(stack')
  <2>1. CASE DoCloseTail
    BY <1>4, <2>1 DEF DoCloseTail
  <2>2. i + 1 \in Index
    BY <1>1, MaxAssumption DEF Place, Index
  <2>3. /\ CloseAll(i + 1) \in Frames /\ ~Releases(CloseAll(i + 1))
        /\ Dismantle(i + 1) \in Frames /\ ~Releases(Dismantle(i + 1))
    BY <2>2, FrameTypes DEF CloseAll, Dismantle, Releases
  <2>4. CASE DoAllTail
    <3>1. stack' = <<CloseAll(i + 1)>> \o Tail(stack)
      BY <2>4 DEF DoAllTail
    <3> QED BY <1>4, <2>3, <3>1, BasicPush
  <2>5. CASE DoGone
    <3>1. stack' = <<Dismantle(i + 1)>> \o Tail(stack)
      BY <2>5 DEF DoGone
    <3> QED BY <1>4, <2>3, <3>1, BasicPush
  <2> QED BY <2>1, <2>4, <2>5
<1> QED BY <1>2, <1>3, <1>5, <1>6 DEF Basics, TypeOK, ClosedInv

\* What closeAllConnections() and ~Socket put on the stack for their next
\* connection.
LEMMA NextRelease ==
  ASSUME Basics, DoCloseAll \/ DoDismantle
  PROVE  \/ /\ Head(stack).i > Len(connections)
            /\ connections' = <<>> /\ stack' = Tail(stack)
            /\ UNCHANGED <<state, sock, alive, connState, scratch, inited, polled>>
         \/ \E f \in Frames :
              /\ f.i = Head(stack).i /\ f.i \in 1..Len(connections)
              /\ f.c = connections[f.i] /\ f.c \in alive /\ f.c \in Conns
              /\ f.op = IF Head(stack).op = "closeAll" THEN "allTail" ELSE "gone"
              /\ CloseConn(f.c, <<f>> \o Tail(stack))
<1> DEFINE i == Head(stack).i
           c == connections[i]
<1>1. stack # <<>> /\ Head(stack).op \in {"closeAll", "dismantle"}
  BY DEF DoCloseAll, DoDismantle, TopIs
<1>2. i \in Index /\ Len(connections) \in Nat /\ Len(connections) <= MaxConnections
  BY <1>1, BasicTail, FrameFields, LenProperties DEF Basics, TypeOK, NotAboveMax
<1>3. i \in Int /\ i >= 1
  BY <1>2, MaxAssumption DEF Index
<1>4. CASE i > Len(connections)
  BY <1>2, <1>3, <1>4 DEF DoCloseAll, DoDismantle
<1>5. CASE i <= Len(connections)
  <2>1. /\ c \in alive /\ c \in Conns /\ i \in Place /\ i \in 1..Len(connections)
    BY <1>2, <1>3, <1>5, MaxAssumption DEF DoCloseAll, DoDismantle, Basics, TypeOK, Place
  <2>2. /\ AllTail(i, c) \in Frames /\ Gone(i, c) \in Frames
        /\ AllTail(i, c).op = "allTail" /\ AllTail(i, c).i = i /\ AllTail(i, c).c = c
        /\ Gone(i, c).op = "gone" /\ Gone(i, c).i = i /\ Gone(i, c).c = c
    BY <2>1, FrameTypes DEF AllTail, Gone
  <2>3. CASE DoCloseAll
    <3>1. CloseConn(c, <<AllTail(i, c)>> \o Tail(stack)) /\ Head(stack).op = "closeAll"
      BY <1>2, <1>3, <1>5, <2>3 DEF DoCloseAll, TopIs
    <3> HIDE DEF c
    <3>2. PICK f \in Frames : /\ f = AllTail(i, c) /\ f.op = "allTail"
                              /\ f.i = i /\ f.c = c
      BY <2>2
    <3> QED BY <2>1, <3>1, <3>2 DEF c
  <2>4. CASE DoDismantle
    <3>1. CloseConn(c, <<Gone(i, c)>> \o Tail(stack)) /\ Head(stack).op = "dismantle"
      BY <1>2, <1>3, <1>5, <2>4 DEF DoDismantle, TopIs
    <3> HIDE DEF c
    <3>2. PICK f \in Frames : f = Gone(i, c) /\ f.op = "gone" /\ f.i = i /\ f.c = c
      BY <2>2
    <3> QED BY <2>1, <3>1, <3>2 DEF c
  <2> QED BY <2>3, <2>4
<1> QED BY <1>2, <1>3, <1>4, <1>5

LEMMA NextReleaseBasics ==
  ASSUME Basics, DoCloseAll \/ DoDismantle, UNCHANGED undermined
  PROVE  Basics'
<1>1. stack # <<>>
  BY DEF DoCloseAll, DoDismantle, TopIs
<1>2. Tail(stack) \in Seq(Frames) /\ ClosedInv(Tail(stack))
  BY <1>1, BasicTail
<1>3. CASE /\ connections' = <<>> /\ stack' = Tail(stack)
           /\ UNCHANGED <<state, sock, alive, connState, scratch, inited, polled>>
  <2>1. connections' \in Seq(Conns) /\ NotAboveMax'
    BY <1>3, EmptySeq, MaxAssumption DEF NotAboveMax
  <2> QED BY <1>2, <1>3, <2>1 DEF Basics, TypeOK, ClosedInv
<1>4. ASSUME NEW f \in Frames, f.c \in Conns, CloseConn(f.c, <<f>> \o Tail(stack))
      PROVE  Basics'
  <2>1. /\ <<f>> \o Tail(stack) \in Seq(Frames)
        /\ FramesOf(<<f>> \o Tail(stack)) = {f} \cup FramesOf(Tail(stack))
    BY <1>2, Push
  <2> DEFINE rest == <<f>> \o Tail(stack)
  <2>2. \A g \in FramesOf(rest) : Releases(g) => g.c = f.c \/ connState[g.c] = "sClose"
    BY <1>2, <2>1 DEF ClosedInv
  <2> HIDE DEF rest
  <2>3. undermined' \in BOOLEAN
    BY DEF Basics, TypeOK
  <2> QED BY <1>4, <2>1, <2>2, <2>3, CloseConnBasics DEF rest
<1> QED BY <1>3, <1>4, NextRelease

LEMMA WalkBasics ==
  ASSUME Basics, DoWalk, UNCHANGED undermined
  PROVE  Basics'
<1> DEFINE i == Head(stack).i
           c == connections[i]
           a == AfterUpdate(i, c)
           rest == <<a>> \o Tail(stack)
<1>1. stack # <<>> /\ Head(stack).op = "walk"
      /\ UNCHANGED <<state, sock, connections, alive, connState, scratch, inited>>
  BY DEF DoWalk, TopIs
<1>2. /\ Tail(stack) \in Seq(Frames) /\ ClosedInv(Tail(stack)) /\ i \in Index
      /\ Len(connections) \in Nat /\ Len(connections) <= MaxConnections
  BY <1>1, BasicTail, FrameFields, LenProperties DEF Basics, TypeOK, NotAboveMax
<1>3. i \in Int /\ i >= 1
  BY <1>2, MaxAssumption DEF Index
<1>4. ASSUME polled' \subseteq Conns, stack' \in Seq(Frames), ClosedInv(stack')
      PROVE  Basics'
  BY <1>1, <1>4 DEF Basics, TypeOK, NotAboveMax, ClosedInv
<1>5. CASE i > Len(connections)
  <2>1. stack' = Tail(stack) /\ polled' = {}
    BY <1>2, <1>3, <1>5 DEF DoWalk
  <2> QED BY <1>2, <1>4, <2>1
<1>6. CASE i <= Len(connections)
  <2> DEFINE d == Handler("sData", c)
             e == Handler("sError", c)
             k == ConnClosing(c)
  <2>1. c \in Conns /\ i \in Place
    BY <1>2, <1>3, <1>6, MaxAssumption DEF Basics, TypeOK, Place
  <2>2. /\ a \in Frames /\ d \in Frames /\ e \in Frames /\ k \in Frames
        /\ ~Releases(a) /\ ~Releases(d) /\ ~Releases(e) /\ ~Releases(k)
    BY <2>1, FrameTypes, ConnFrames DEF Events, AfterUpdate, Handler, ConnClosing, Releases
  <2>3. polled' = polled \cup {c}
    BY <1>2, <1>3, <1>6 DEF DoWalk
  <2>4. \/ stack' = rest \/ stack' = <<d>> \o rest
        \/ stack' = <<k>> \o rest \/ stack' = <<e, k>> \o rest
    <3>1. ~(i > Len(connections))
      BY <1>2, <1>3, <1>6
    <3> QED BY <3>1, Zenon DEF DoWalk
  <2> HIDE DEF c, d, e, k, a
  <2>5. rest \in Seq(Frames) /\ ClosedInv(rest)
    BY <1>2, <2>2, BasicPush
  <2> HIDE DEF rest
  <2>6. <<d>> \o rest \in Seq(Frames) /\ ClosedInv(<<d>> \o rest)
    BY <2>2, <2>5, BasicPush
  <2>7. <<k>> \o rest \in Seq(Frames) /\ ClosedInv(<<k>> \o rest)
    BY <2>2, <2>5, BasicPush
  <2>8. <<e, k>> \o rest \in Seq(Frames) /\ ClosedInv(<<e, k>> \o rest)
    <3>1. <<e, k>> \o rest = <<e>> \o (<<k>> \o rest)
      BY <2>2, <2>5, Two
    <3>2. <<e>> \o (<<k>> \o rest) \in Seq(Frames) /\ ClosedInv(<<e>> \o (<<k>> \o rest))
      BY <2>2, <2>7, BasicPush
    <3> QED BY <3>1, <3>2
  <2>9. stack' \in Seq(Frames) /\ ClosedInv(stack')
    BY <2>4, <2>5, <2>6, <2>7, <2>8
  <2>10. polled' \subseteq Conns
    BY <2>1, <2>3 DEF Basics, TypeOK
  <2> QED BY <1>4, <2>9, <2>10
<1> QED BY <1>2, <1>3, <1>5, <1>6

LEMMA AfterUpdateBasics ==
  ASSUME Basics, DoAfterUpdate, UNCHANGED undermined
  PROVE  Basics'
<1> DEFINE i == Head(stack).i
           c == connections[i]
           closed == connState[c] = "sClose"
           w == Walk(Advance(i, closed))
<1>1. /\ IF closed THEN Release(c) /\ connections' = EraseAt(connections, i)
                   ELSE UNCHANGED <<alive, scratch, inited, connections>>
      /\ stack' = <<w>> \o Tail(stack)
      /\ UNCHANGED <<state, sock, connState, polled>>
  BY DEF DoAfterUpdate
<1>2. stack # <<>> /\ i \in Place /\ i \in 1..Len(connections)
  BY Found DEF DoAfterUpdate
<1>3. w \in Frames /\ ~Releases(w)
  <2>1. Advance(i, closed) \in Index
    BY <1>2, MaxAssumption DEF Advance, Index, Place
  <2> QED BY <2>1, FrameTypes DEF Walk, Releases
<1>4. stack' \in Seq(Frames) /\ ClosedInv(stack')
  <2>1. Tail(stack) \in Seq(Frames) /\ ClosedInv(Tail(stack))
    BY <1>2, BasicTail
  <2> HIDE DEF w
  <2> QED BY <1>1, <1>3, <2>1, BasicPush
<1>5. CASE closed
  <2>1. connections' \in Seq(Conns) /\ NotAboveMax'
    BY <1>1, <1>2, <1>5, ErasedBasics
  <2>2. /\ alive' \subseteq Conns /\ inited' \in Int
        /\ scratch' \in {"null", "free"} \cup Conns
    BY <1>1, <1>5, ReleaseBasics
  <2> QED BY <1>1, <1>4, <2>1, <2>2 DEF Basics, TypeOK, ClosedInv
<1>6. CASE ~closed
  BY <1>1, <1>4, <1>6 DEF Basics, TypeOK, NotAboveMax, ClosedInv
<1> QED BY <1>5, <1>6

LEMMA ImplGoneBasics ==
  ASSUME Basics, (DoImplGone /\ UNCHANGED undermined) \/ Construct
  PROVE  Basics'
<1>1. CASE DoImplGone /\ UNCHANGED undermined
  <2> DEFINE f == Dismantle(1)
  <2>1. /\ stack # <<>> /\ state' = "deleted" /\ sock' = "none"
        /\ inited' = inited - 1 /\ scratch' = "null" /\ stack' = <<f>> \o Tail(stack)
        /\ UNCHANGED <<connections, alive, connState, polled, undermined>>
    BY <1>1 DEF DoImplGone, TopIs
  <2>2. f \in Frames /\ ~Releases(f)
    BY FrameTypes, MaxAssumption DEF Dismantle, Index, Releases
  <2> HIDE DEF f
  <2>3. stack' \in Seq(Frames) /\ ClosedInv(stack')
    BY <2>1, <2>2, BasicTail, BasicPush
  <2> QED BY <2>1, <2>3 DEF Basics, TypeOK, NotAboveMax, ClosedInv, States
<1>2. CASE Construct
  BY <1>2 DEF Construct, Basics, TypeOK, NotAboveMax, ClosedInv, States
<1> QED BY <1>1, <1>2


\* update() from the main loop.
LEMMA UpdateStack ==
  /\ Walk(1) \in Frames /\ Walk(1).op = "walk" /\ Walk(1).i = 1
  /\ <<Walk(1)>> \in Seq(Frames)
  /\ FramesOf(<<Walk(1)>>) = {Walk(1)}
  /\ \A f \in Frames, g \in Frames :
       Free(f) /\ Free(g) =>
         /\ <<f, g, Walk(1)>> \in Seq(Frames)
         /\ FramesOf(<<f, g, Walk(1)>>) = {f, g, Walk(1)}
         /\ Shape(<<f, g, Walk(1)>>)
<1> DEFINE w == Walk(1)
<1>1. w \in Frames /\ w.op = "walk" /\ w.i = 1 /\ ~OnTop(w)
  BY FrameTypes, MaxAssumption DEF Walk, Index, OnTop
<1> HIDE DEF w
<1>2. <<w>> \in Seq(Frames) /\ Shape(<<w>>) /\ FramesOf(<<w>>) = {w}
  BY <1>1, Single
<1>3. ASSUME NEW f \in Frames, NEW g \in Frames, Free(f), Free(g)
      PROVE  /\ <<f, g, w>> \in Seq(Frames)
             /\ FramesOf(<<f, g, w>>) = {f, g, w}
             /\ Shape(<<f, g, w>>)
  <2>1. Over(g, w) /\ Over(f, w) /\ ~OnTop(g)
    BY <1>1, <1>3, FreeOver
  <2>2. Over(f, g)
    BY <1>3, <2>1, FreeOver
  <2>3. PICK r \in Seq(Frames) : r = <<w>>
    BY <1>2
  <2>4. Shape(r) /\ FramesOf(r) = {w}
    BY <1>2, <2>3
  <2>5. PICK s \in Seq(Frames) : s = <<g>> \o r
    BY <2>3, Push
  <2>6. Shape(s) /\ FramesOf(s) = {g, w}
    <3>1. FramesOf(<<g>> \o r) = {g} \cup FramesOf(r)
      BY Push
    <3>2. Shape(<<g>> \o r)
      BY <2>1, <2>4, PushShape
    <3> QED BY <2>4, <2>5, <3>1, <3>2
  <2>7. /\ <<f>> \o s \in Seq(Frames)
        /\ FramesOf(<<f>> \o s) = {f} \cup FramesOf(s)
    BY Push
  <2>8. Shape(<<f>> \o s)
    <3>1. \A h \in FramesOf(s) : Over(f, h)
      BY <2>1, <2>2, <2>6
    <3> QED BY <2>6, <3>1, PushShape
  <2>9. <<f>> \o s = <<f, g, w>>
    <3>1. <<f, g>> \o r = <<f>> \o s
      BY <2>5, Two
    <3>2. <<f, g>> \o r = <<f, g, w>>
      <4>1. /\ <<f, g>> \in Seq(Frames) /\ Len(<<f, g>>) = 2
            /\ <<f, g, w>> \in Seq(Frames) /\ Len(<<f, g, w>>) = 3
        BY <1>1
      <4>2. Len(r) = 1 /\ r[1] = w
        BY <2>3
      <4> DEFINE t == <<f, g>> \o r
      <4>3. /\ t \in Seq(Frames) /\ Len(t) = 3
            /\ \A k \in 1..3 : t[k] = IF k <= 2 THEN <<f, g>>[k] ELSE r[k - 2]
        BY <4>1, <4>2, ConcatProperties
      <4> HIDE DEF t
      <4>4. \A k \in 1..3 : t[k] = <<f, g, w>>[k]
        BY <4>2, <4>3
      <4>5. t = <<f, g, w>>
        BY <4>1, <4>3, <4>4, SeqEqual
      <4> QED BY <4>5 DEF t
    <3> QED BY <2>3, <3>1, <3>2
  <2> QED BY <2>6, <2>7, <2>8, <2>9
<1> QED BY <1>1, <1>2, <1>3 DEF w

LEMMA UpdateBasics ==
  ASSUME Basics, Update
  PROVE  Basics'
<1> DEFINE w == Walk(1)
<1>1. /\ w \in Frames /\ ~Releases(w) /\ <<w>> \in Seq(Frames) /\ FramesOf(<<w>>) = {w}
      /\ \A f \in Frames, g \in Frames :
           Free(f) /\ Free(g) =>
             /\ <<f, g, w>> \in Seq(Frames) /\ FramesOf(<<f, g, w>>) = {f, g, w}
  BY UpdateStack DEF Releases
<1>2. UNCHANGED undermined
  BY DEF Update
<1>3. ASSUME NEW f \in Frames, NEW g \in Frames, Free(f), Free(g)
      PROVE  <<f, g, w>> \in Seq(Frames) /\ ClosedInv(<<f, g, w>>)
                                         /\ ClosedInv(<<f, g, w>>)'
  <2>1. ~Releases(f) /\ ~Releases(g)
    BY <1>3 DEF Free, Releases
  <2> HIDE DEF w
  <2> QED BY <1>1, <1>3, <2>1 DEF ClosedInv, FramesOf
<1>4. ASSUME NEW c \in Conns, AcceptOk(c) PROVE Basics'
  <2> DEFINE f == Handler("sConnection", c)
  <2>1. f \in Frames /\ Free(f) /\ Accepted \in Frames /\ Free(Accepted)
    BY ConnFrames, ServerFrames
  <2>2. /\ HasRoom /\ alive' = alive \cup {c}
        /\ connState' = [connState EXCEPT ![c] = "sConnected"]
        /\ connections' = Append(connections, c) /\ scratch' = c /\ inited' = inited + 1
        /\ stack' = <<f, Accepted, w>> /\ UNCHANGED <<state, sock, polled>>
    BY <1>4 DEF AcceptOk, Started
  <2> HIDE DEF f, w
  <2>3. stack' \in Seq(Frames) /\ ClosedInv(stack)'
    BY <1>3, <2>1, <2>2
  <2>4. connections' \in Seq(Conns) /\ Len(connections') = Len(connections) + 1
        /\ Len(connections) \in Nat
    BY <2>2, AppendProperties, LenProperties DEF Basics, TypeOK
  <2>5. NotAboveMax'
    BY <2>2, <2>4, MaxAssumption DEF HasRoom, NotAboveMax
  <2> QED BY <1>2, <2>2, <2>3, <2>4, <2>5 DEF Basics, TypeOK, ConnStates
<1>5. CASE AcceptError
  <2> DEFINE f == Handler("sError", Server)
  <2>1. f \in Frames /\ Free(f) /\ Closing \in Frames /\ Free(Closing)
    BY ServerFrames DEF Events
  <2>2. /\ state' = "sDisconnected" /\ scratch' \in {scratch, "free"}
        /\ stack' = <<f, Closing, w>>
        /\ UNCHANGED <<sock, connections, alive, connState, inited, polled>>
    BY <1>5 DEF AcceptError
  <2> HIDE DEF f, w
  <2>3. stack' \in Seq(Frames) /\ ClosedInv(stack)'
    BY <1>3, <2>1, <2>2
  <2> QED BY <1>2, <2>2, <2>3 DEF Basics, TypeOK, NotAboveMax, States
<1>6. CASE NoAccept
  <2>1. /\ scratch' \in {scratch, "free"} /\ stack' = <<w>>
        /\ UNCHANGED <<state, sock, connections, alive, connState, inited, polled>>
    BY <1>6 DEF NoAccept
  <2> HIDE DEF w
  <2>2. ClosedInv(stack)'
    BY <1>1, <2>1 DEF ClosedInv
  <2> QED BY <1>1, <1>2, <2>1, <2>2 DEF Basics, TypeOK, NotAboveMax
<1> QED BY <1>4, <1>5, <1>6 DEF Update

LEMMA NextBasics ==
  ASSUME Basics, [Next]_vars
  PROVE  Basics'
<1>1. CASE UNCHANGED vars
  BY <1>1 DEF vars, Basics, TypeOK, NotAboveMax, ClosedInv, FramesOf
<1>2. CASE Continue
  <2>1. UNCHANGED undermined
    BY <1>2 DEF Continue
  <2> QED BY <1>2, <2>1, ServerStepBasics, ConnCloseBasics, ReleaseStepBasics,
          NextReleaseBasics, WalkBasics, AfterUpdateBasics, ImplGoneBasics DEF Continue
<1>3. CASE HandlerReturn
  <2>1. UNCHANGED undermined
    BY <1>3 DEF HandlerReturn
  <2> QED BY <1>3, <2>1, ServerStepBasics
<1>4. CASE CallListen \/ CallClose \/ CallDelete
  BY <1>4, CallBasics
<1>5. CASE CallCloseOne \/ CallCloseConnection \/ CallCloseAll
  BY <1>5, CloseCallBasics, CloseAllBasics
<1>6. CASE Construct
  BY <1>6, ImplGoneBasics
<1>7. CASE Update
  BY <1>7, UpdateBasics
<1> QED BY <1>1, <1>2, <1>3, <1>4, <1>5, <1>6, <1>7 DEF Next

LEMMA InitBasics ==
  ASSUME Init
  PROVE  Basics
<1>1. /\ connections = <<>> /\ connections \in Seq(Conns) /\ Len(connections) = 0
      /\ stack \in Seq(Frames) /\ FramesOf(stack) = {}
  BY Empty, EmptySeq DEF Init
<1>2. NotAboveMax /\ ClosedInv(stack)
  BY <1>1, MaxAssumption DEF NotAboveMax, ClosedInv
<1>3. connState \in [Conns -> ConnStates] /\ inited \in Int
  BY DEF Init, ConnStates
<1>4. /\ state \in States /\ sock \in {"none", "fresh", "bound"} /\ alive \subseteq Conns
      /\ scratch \in {"null", "free"} \cup Conns
      /\ polled \subseteq Conns /\ undermined \in BOOLEAN
  BY DEF Init, States
<1> QED BY <1>1, <1>2, <1>3, <1>4 DEF Basics, TypeOK

(***************************************************************************)
(* What holds as long as nothing is undermined.                            *)
(***************************************************************************)
LEMMA VectorTypes ==
  ASSUME Basics
  PROVE  /\ connections \in Seq(Conns) /\ Len(connections) \in Nat
         /\ Len(connections) <= MaxConnections /\ MaxConnections \in Nat
         /\ \A k \in 1..Len(connections) : connections[k] \in Conns
         /\ alive \subseteq Conns /\ inited \in Int /\ undermined \in BOOLEAN
<1>1. /\ connections \in Seq(Conns) /\ Len(connections) <= MaxConnections
      /\ alive \subseteq Conns /\ inited \in Int /\ undermined \in BOOLEAN
  BY DEF Basics, TypeOK, NotAboveMax
<1>2. /\ Len(connections) \in Nat
      /\ \A k \in 1..Len(connections) : connections[k] \in Conns
  BY <1>1, LenProperties, ElementOfSeq
<1> QED BY <1>1, <1>2, MaxAssumption

\* Steps that leave the vector and what it owns alone.
LEMMA Calm ==
  ASSUME Safe, UNCHANGED <<connections, alive, scratch, inited, polled>>,
         state' = "deleted" <=> state = "deleted",
         state' = "deleted" => sock' = "none",
         StackInv(stack')
  PROVE  Safe'
<1>1. NoneTwice'
  BY DEF Safe, NoneTwice
<1>2. StackInv(stack)'
  BY DEF StackInv, FrameOK, Sound, From
<1>3. IsFiniteSet(alive)' /\ WinSockCounted'
  BY DEF Safe, WinSockCounted
<1> QED BY <1>1, <1>2, <1>3 DEF Safe

LEMMA FreeOK ==
  ASSUME NEW f, Free(f), Subject(f) \subseteq alive
  PROVE  FrameOK(f)
  BY DEF Free, FrameOK, Sound, Placed, Releasing

LEMMA FreeOKNext ==
  ASSUME NEW f, Free(f), Subject(f) \subseteq alive'
  PROVE  FrameOK(f)'
  BY DEF Free, FrameOK, Sound, Placed, Releasing

LEMMA FreePush ==
  ASSUME NEW s, StackInv(s), \A g \in FramesOf(s) : ~OnTop(g),
         NEW f \in Frames, Free(f), Subject(f) \subseteq alive,
         state = "deleted" => f.op # "open"
  PROVE  /\ StackInv(<<f>> \o s)
         /\ \A g \in FramesOf(<<f>> \o s) : ~OnTop(g)
<1>1. \A g \in FramesOf(s) : Over(f, g)
  BY FreeOver
<1>2. ~OnTop(f) /\ f.op # "implGone" /\ FrameOK(f)
  BY FreeOK DEF Free, OnTop
<1>3. StackInv(<<f>> \o s) /\ FramesOf(<<f>> \o s) = {f} \cup FramesOf(s)
  BY <1>1, <1>2, PushInv
<1> QED BY <1>2, <1>3

LEMMA CloseServerSafe ==
  ASSUME Safe, NEW rest, StackInv(rest), \A g \in FramesOf(rest) : ~OnTop(g),
         CloseServer(rest)
  PROVE  Safe'
<1> DEFINE h == Handler("sClose", Server)
<1>1. h \in Frames /\ Free(h) /\ h.op = "handler" /\ Subject(h) = {}
  BY ServerFrames DEF Events
<1>2. <<>> \o rest = rest
  BY ConcatEmptySeq DEF StackInv
<1>3. /\ stack' = <<h>> \o rest \/ stack' = rest
      /\ state' = (IF sock # "none" THEN "sClose" ELSE state) /\ sock' = "none"
      /\ UNCHANGED <<connections, alive, scratch, inited, polled>>
  BY <1>2 DEF CloseServer
<1> HIDE DEF h
<1>4. StackInv(<<h>> \o rest)
  BY <1>1, FreePush
<1>5. state' = "deleted" <=> state = "deleted"
  BY <1>3 DEF Safe
<1>6. StackInv(stack')
  BY <1>3, <1>4
<1> QED BY <1>3, <1>5, <1>6, Calm

LEMMA BindAndListenSafe ==
  ASSUME Safe, NEW rest, StackInv(rest), \A g \in FramesOf(rest) : ~OnTop(g),
         state # "deleted", NEW before, before # "deleted", BindAndListen(before, rest)
  PROVE  Safe'
<1> DEFINE h == Handler("sListening", Server)
<1>1. h \in Frames /\ Free(h) /\ h.op = "handler" /\ Subject(h) = {}
  BY ServerFrames DEF Events
<1>2. /\ stack' = <<h>> \o rest \/ stack' = rest
      /\ state' \in {"sListening", before}
      /\ UNCHANGED <<connections, alive, scratch, inited, polled>>
  BY DEF BindAndListen
<1> HIDE DEF h
<1>3. StackInv(<<h>> \o rest)
  BY <1>1, FreePush
<1>4. StackInv(stack') /\ state' # "deleted"
  BY <1>2, <1>3
<1> QED BY <1>2, <1>4, Calm

LEMMA CloseConnSafe ==
  ASSUME Safe, NEW c \in Conns, c \in alive,
         NEW rest, StackInv(rest), \A g \in FramesOf(rest) : ~OnTop(g),
         CloseConn(c, rest)
  PROVE  Safe'
<1> DEFINE h == Handler("sClose", c)
<1>1. h \in Frames /\ Free(h) /\ h.op = "handler" /\ Subject(h) = {c}
  BY ConnFrames DEF Events
<1>2. <<>> \o rest = rest
  BY ConcatEmptySeq DEF StackInv
<1>3. /\ stack' = <<h>> \o rest \/ stack' = rest
      /\ UNCHANGED <<state, sock, connections, alive, scratch, inited, polled>>
  BY <1>2 DEF CloseConn
<1> HIDE DEF h
<1>4. StackInv(<<h>> \o rest)
  BY <1>1, FreePush
<1>5. StackInv(stack')
  BY <1>3, <1>4
<1> QED BY <1>3, <1>5, Calm DEF Safe

(***************************************************************************)
(* Calls.                                                                  *)
(***************************************************************************)
LEMMA CallSafe ==
  ASSUME Basics, Safe, CallListen \/ CallClose \/ CallDelete
  PROVE  Safe'
<1>1. StackInv(stack)
  BY DEF Safe
<1>2. \A g \in FramesOf(stack) : ~OnTop(g)
  BY <1>1, Caller DEF CallListen, CallClose, CallDelete
<1>3. CASE CallListen
  <2>1. state # "deleted"
    BY <1>3 DEF CallListen
  <2>2. CASE CloseServer(<<Closing, Opening>> \o stack)
    <3> DEFINE s == <<Opening>> \o stack
    <3>1. StackInv(s) /\ \A g \in FramesOf(s) : ~OnTop(g)
      BY <1>1, <1>2, <2>1, ServerFrames, FreePush
    <3>2. <<Closing, Opening>> \o stack = <<Closing>> \o s
      BY <1>1, ServerFrames, Two DEF StackInv
    <3> HIDE DEF s
    <3> DEFINE r == <<Closing>> \o s
    <3>3. StackInv(r) /\ \A g \in FramesOf(r) : ~OnTop(g)
      BY <2>1, <3>1, ServerFrames, FreePush
    <3> HIDE DEF r
    <3>4. CloseServer(r)
      BY <2>2, <3>2 DEF r
    <3> QED BY <3>3, <3>4, CloseServerSafe
  <2>3. CASE BindAndListen(state, stack)
    BY <1>1, <1>2, <2>1, <2>3, BindAndListenSafe
  <2> QED BY <1>3, <2>2, <2>3 DEF CallListen
<1>4. CASE CallClose
  <2>1. CloseServer(stack)
    BY <1>4 DEF CallClose
  <2> QED BY <1>1, <1>2, <2>1, CloseServerSafe
<1>5. CASE CallDelete
  <2>1. stack = <<>> /\ state # "deleted" /\ CloseServer(<<ImplGone>>)
    BY <1>5, CallsAssumption DEF CallDelete, MayCall
  <2> DEFINE f == ImplGone
  <2>2. /\ f \in Frames /\ ~OnTop(f) /\ FrameOK(f) /\ <<f>> \o <<>> = <<f>>
        /\ FramesOf(<<f>>) = {f} /\ f.op = "implGone"
    BY FrameTypes, Single DEF ImplGone, OnTop, FrameOK, Sound, Subject, Placed, Releasing
  <2> HIDE DEF f
  <2>3. \A g \in FramesOf(stack) : FALSE
    BY <2>1, Empty
  <2>4. StackInv(<<f>> \o stack)
    BY <1>1, <2>1, <2>2, <2>3, PushInv
  <2>5. StackInv(<<f>>)
    BY <2>1, <2>2, <2>4
  <2> QED BY <2>1, <2>2, <2>5, CloseServerSafe DEF f
<1> QED BY <1>3, <1>4, <1>5

LEMMA NotUndermined ==
  ASSUME NEW i, ~Undermines(i), NEW g \in FramesOf(stack), Placed(g) => g.i \in Int,
         i \in Int
  PROVE  (Placed(g) => g.i < i) /\ connections[i] \notin Subject(g)
<1>1. PICK k \in 1..Len(stack) : g = stack[k]
  BY DEF FramesOf
<1> QED BY <1>1 DEF Undermines

LEMMA PlacedInt ==
  ASSUME Basics, NEW g \in FramesOf(stack)
  PROVE  /\ g \in Frames
         /\ Placed(g) => g.i \in Int /\ g.i >= 1 /\ g.i \in Place
<1>1. g \in Frames
  BY DEF FramesOf, Basics, TypeOK
<1> QED BY <1>1, FrameFields, MaxAssumption DEF Place

LEMMA CloseCallSafe ==
  ASSUME Basics, Safe, CallCloseOne \/ CallCloseConnection, ~undermined'
  PROVE  Safe'
<1>1. StackInv(stack) /\ alive \subseteq Conns
  BY DEF Safe, Basics, TypeOK
<1>2. \A g \in FramesOf(stack) : ~OnTop(g)
  BY <1>1, Caller DEF CallCloseOne, CallCloseConnection
<1>3. CASE CallCloseOne
  <2>1. PICK c \in alive : CloseConn(c, stack)
    BY <1>3 DEF CallCloseOne
  <2> QED BY <1>1, <1>2, <2>1, CloseConnSafe
<1>4. CASE CallCloseConnection
  <2>1. PICK i \in 1..Len(connections) : CloseConnection(i) /\ ~Undermines(i)
    BY <1>4 DEF CallCloseConnection
  <2> DEFINE c == connections[i]
             f == CloseTail(i, c)
  <2>2. c \in Conns /\ i \in Place /\ i \in Int /\ i <= Len(connections)
    BY VectorTypes DEF Place
  <2>3. \A g \in FramesOf(stack) : (Placed(g) => g.i < i) /\ c \notin Subject(g)
    BY <2>1, <2>2, PlacedInt, NotUndermined
  <2>4. c \in alive
    <3>1. CASE \A g \in FramesOf(stack) : ~Releasing(g)
      <4>1. alive = From(1)
        BY <1>1, <3>1 DEF StackInv
      <4> QED BY <4>1 DEF From
    <3>2. ASSUME NEW g \in FramesOf(stack), Releasing(g) PROVE c \in alive
      <4>1. Placed(g)
        BY <1>2, <3>2 DEF Releasing, OnTop, Placed
      <4>2. g.i \in Int /\ g.i < i /\ alive = From(g.i)
        BY <1>1, <2>3, <3>2, <4>1, PlacedInt DEF StackInv, FrameOK
      <4>3. i \in g.i..Len(connections)
        BY <2>2, <4>2, VectorTypes
      <4> QED BY <4>2, <4>3 DEF From
    <3> QED BY <3>1, <3>2
  <2>5. /\ f \in Frames /\ f.op = "closeTail" /\ f.i = i /\ f.c = c
    BY <2>2, FrameTypes DEF CloseTail
  <2>6. CloseConn(c, <<f>> \o stack)
    BY <2>1 DEF CloseConnection
  <2>7. c = connections[i]
    OBVIOUS
  <2> HIDE DEF c, f
  <2>8. FrameOK(f) /\ ~OnTop(f)
    BY <2>2, <2>4, <2>5, <2>7 DEF FrameOK, Sound, Subject, Placed, Releasing, OnTop
  <2>9. \A g \in FramesOf(stack) : Over(f, g)
    BY <1>2, <2>3, <2>5 DEF Over, AtBottom, Walking, Ending
  <2>10. StackInv(<<f>> \o stack) /\ FramesOf(<<f>> \o stack) = {f} \cup FramesOf(stack)
    BY <1>1, <2>5, <2>8, <2>9, PushInv
  <2> DEFINE s == <<f>> \o stack
  <2>11. StackInv(s) /\ \A g \in FramesOf(s) : ~OnTop(g)
    BY <1>2, <2>8, <2>10
  <2> HIDE DEF s
  <2> QED BY <2>2, <2>4, <2>6, <2>11, CloseConnSafe DEF s
<1> QED BY <1>3, <1>4

LEMMA CloseAllSafe ==
  ASSUME Basics, Safe, CallCloseAll, ~undermined'
  PROVE  Safe'
<1>1. StackInv(stack) /\ alive \subseteq Conns
  BY DEF Safe, Basics, TypeOK
<1>2. \A g \in FramesOf(stack) : ~OnTop(g)
  BY <1>1, Caller DEF CallCloseAll
<1>3. \A i \in 1..Len(connections) : ~Undermines(i)
  BY DEF CallCloseAll
<1>4. ASSUME NEW g \in FramesOf(stack) PROVE ~Placed(g) /\ FrameOK(g)
  <2>1. FrameOK(g)
    BY <1>1 DEF StackInv
  <2>2. ASSUME Placed(g) PROVE FALSE
    <3>1. g.i \in Int /\ g.i >= 1 /\ g.i <= Len(connections)
      BY <2>1, <2>2, PlacedInt DEF FrameOK, Sound
    <3>2. 1 \in 1..Len(connections)
      BY <3>1, VectorTypes
    <3>3. g.i < 1
      BY <1>3, <2>2, <3>1, <3>2, NotUndermined
    <3> QED BY <3>1, <3>3
  <2> QED BY <2>1, <2>2
<1>5. \A g \in FramesOf(stack) : ~Releasing(g)
  BY <1>2, <1>4 DEF Releasing, OnTop, Placed
<1>6. alive = From(1)
  BY <1>1, <1>5 DEF StackInv
<1>7. ASSUME NEW g \in FramesOf(stack) PROVE Subject(g) = {}
  <2>1. ASSUME NEW c \in Subject(g) PROVE FALSE
    <3>1. c \in alive
      BY <1>4, <2>1 DEF FrameOK, Sound
    <3>2. PICK j \in 1..Len(connections) : c = connections[j]
      BY <1>6, <3>1 DEF From
    <3>3. j \in Int
      OBVIOUS
    <3> QED BY <1>3, <1>4, <2>1, <3>2, <3>3, NotUndermined
  <2> QED BY <2>1
<1> DEFINE f == CloseAll(1)
<1>8. f \in Frames /\ f.op = "closeAll" /\ f.i = 1
  BY FrameTypes, MaxAssumption DEF CloseAll, Index
<1>9. /\ stack' = <<f>> \o stack
      /\ UNCHANGED <<state, sock, connections, alive, connState, scratch, inited, polled>>
  BY DEF CallCloseAll
<1> HIDE DEF f
<1>10. FrameOK(f)
  BY <1>6, <1>8 DEF FrameOK, Sound, Subject, Placed
<1>11. \A g \in FramesOf(stack) : Over(f, g)
  BY <1>2, <1>4, <1>7, <1>8 DEF Over, Placed, AtBottom, Walking, Ending
<1>12. StackInv(stack')
  BY <1>1, <1>8, <1>9, <1>10, <1>11, PushInv
<1> QED BY <1>9, <1>12, Calm DEF Safe

(***************************************************************************)
(* Frames that tell nothing of the vector.                                 *)
(***************************************************************************)
LEMMA ServerStepSafe ==
  ASSUME Basics, Safe, HandlerReturn \/ DoClose \/ DoOpen \/ DoConnClose
  PROVE  Safe'
<1>1. /\ StackInv(stack) /\ stack # <<>> /\ Free(Head(stack))
      /\ Head(stack).op # "accepted"
  BY DEF Safe, HandlerReturn, DoClose, DoOpen, DoConnClose, Resumes, TopIs, Free
<1>2. /\ StackInv(Tail(stack)) /\ \A g \in FramesOf(Tail(stack)) : ~OnTop(g)
      /\ Head(stack) \in Frames /\ FrameOK(Head(stack))
      /\ FramesOf(stack) = {Head(stack)} \cup FramesOf(Tail(stack))
  BY <1>1, PopInv
<1>3. CASE HandlerReturn
  <2>1. /\ UNCHANGED <<state, sock, connections, alive, scratch, inited, polled>>
        /\ StackInv(stack')
    BY <1>2, <1>3 DEF HandlerReturn
  <2> QED BY <2>1, Calm DEF Safe
<1>4. CASE DoClose
  <2>1. CloseServer(Tail(stack))
    BY <1>4 DEF DoClose
  <2> QED BY <1>2, <2>1, CloseServerSafe
<1>5. CASE DoOpen
  <2>1. state # "deleted"
    BY <1>1, <1>2, <1>5 DEF StackInv, DoOpen, TopIs
  <2>2. CASE BindAndListen("sDisconnected", Tail(stack))
    BY <1>2, <2>1, <2>2, BindAndListenSafe
  <2>3. CASE /\ sock' = "none" /\ stack' = Tail(stack)
             /\ UNCHANGED <<state, connections, alive, connState, scratch, inited, polled>>
    BY <1>2, <2>3, Calm
  <2> QED BY <1>5, <2>2, <2>3 DEF DoOpen
<1>6. CASE DoConnClose
  <2> DEFINE c == Head(stack).c
  <2>1. Head(stack).op = "connClose" /\ CloseConn(c, Tail(stack))
    BY <1>6 DEF DoConnClose, Resumes, TopIs
  <2>2. c \in Conns /\ c \in alive
    BY <1>2, <2>1, FrameFields DEF FrameOK, Sound, Subject
  <2> QED BY <1>2, <2>1, <2>2, CloseConnSafe
<1> QED BY <1>3, <1>4, <1>5, <1>6

LEMMA AcceptedSafe ==
  ASSUME Basics, Safe, DoAccepted
  PROVE  Safe'
<1>1. /\ StackInv(stack) /\ stack # <<>> /\ Head(stack).op = "accepted"
      /\ scratch' = NextScratch /\ stack' = Tail(stack)
      /\ UNCHANGED <<state, sock, connections, alive, connState, inited, polled>>
  BY DEF Safe, DoAccepted, TopIs
<1> DEFINE t == Tail(stack)
<1>2. /\ t \in Seq(Frames) /\ Shape(t)
      /\ FramesOf(stack) = {Head(stack)} \cup FramesOf(t)
  BY <1>1, Pop, PopShape DEF StackInv
<1>3. ~Releasing(Head(stack)) /\ ~Walking(Head(stack)) /\ ~Ending(Head(stack))
  BY <1>1 DEF Releasing, Walking, Ending
<1>4. scratch' \notin Conns
  BY <1>1, ServerAssumption DEF NextScratch
<1> HIDE DEF t
<1>5. \A f \in FramesOf(t) : FrameOK(f)'
  BY <1>1, <1>2 DEF StackInv, FrameOK, Sound, From
<1>6. StackInv(stack)'
  BY <1>1, <1>2, <1>3, <1>4, <1>5 DEF StackInv, From, t
<1> QED BY <1>1, <1>6 DEF Safe, NoneTwice, WinSockCounted

(***************************************************************************)
(* Frames that release connections.                                        *)
(***************************************************************************)
LEMMA Erased ==
  ASSUME Basics, NoneTwice, NEW i \in 1..Len(connections),
         connections' = EraseAt(connections, i)
  PROVE  /\ NoneTwice'
         /\ \A m \in 1..i : From(m)' = From(m) \ {connections[i]}
<1> DEFINE n == Len(connections)
           v == connections'
<1>1. /\ n \in Nat /\ i \in Int /\ i >= 1 /\ i <= n /\ Len(v) = n - 1
      /\ \A k \in 1..(n - 1) :
           v[k] = IF k < i THEN connections[k] ELSE connections[k + 1]
  BY ErasedBasics
<1>2. \A j, k \in 1..n : connections[j] = connections[k] => j = k
  BY DEF NoneTwice
<1> HIDE DEF v, n
<1>3. ASSUME NEW j \in 1..Len(v), NEW k \in 1..Len(v), v[j] = v[k] PROVE j = k
  <2> DEFINE a == IF j < i THEN j ELSE j + 1
             b == IF k < i THEN k ELSE k + 1
  <2>1. a \in 1..n /\ b \in 1..n /\ v[j] = connections[a] /\ v[k] = connections[b]
    BY <1>1
  <2>2. a = b
    BY <1>2, <1>3, <2>1
  <2> QED BY <1>1, <2>2
<1>4. ASSUME NEW m \in 1..i
      PROVE  {v[j] : j \in m..Len(v)} = {connections[j] : j \in m..n} \ {connections[i]}
  <2>0. m \in Int /\ m >= 1 /\ m <= i
    BY <1>1
  <2>1. ASSUME NEW j \in m..Len(v)
        PROVE  \E k \in m..n : v[j] = connections[k] /\ connections[k] # connections[i]
    <3> DEFINE a == IF j < i THEN j ELSE j + 1
    <3>1. a \in m..n /\ a \in 1..n /\ a # i /\ v[j] = connections[a] /\ i \in 1..n
      BY <1>1, <2>0
    <3> HIDE DEF a
    <3>2. connections[a] # connections[i]
      BY <1>2, <3>1
    <3> QED BY <3>1, <3>2
  <2>2. ASSUME NEW j \in m..n, connections[j] # connections[i]
        PROVE  \E k \in m..Len(v) : v[k] = connections[j]
    <3> DEFINE a == IF j < i THEN j ELSE j - 1
    <3>1. a \in m..Len(v) /\ v[a] = connections[j]
      BY <1>1, <2>0, <2>2
    <3> QED BY <3>1
  <2> DEFINE A == {v[j] : j \in m..Len(v)}
             B == {connections[j] : j \in m..n}
  <2>3. ASSUME NEW x \in A PROVE x \in B \ {connections[i]}
    <3>1. PICK j \in m..Len(v) : x = v[j]
      OBVIOUS
    <3> QED BY <2>1, <3>1
  <2>4. ASSUME NEW x \in B \ {connections[i]} PROVE x \in A
    <3>1. PICK j \in m..n : x = connections[j] /\ connections[j] # connections[i]
      OBVIOUS
    <3>2. PICK k \in m..Len(v) : v[k] = x
      BY <2>2, <3>1
    <3> QED BY <3>2
  <2> HIDE DEF A, B
  <2>5. A = B \ {connections[i]}
    BY <2>3, <2>4
  <2> QED BY <2>5 DEF A, B
<1> QED BY <1>3, <1>4 DEF NoneTwice, From, v, n

LEMMA Released ==
  ASSUME Basics, Safe, NEW c \in alive, Release(c), UNCHANGED <<state, sock>>
  PROVE  /\ alive' = alive \ {c}
         /\ scratch' \in Conns => scratch \in Conns
         /\ state' = "deleted" => sock' = "none"
         /\ IsFiniteSet(alive)' /\ WinSockCounted'
<1>1. alive' = alive \ {c} /\ (scratch' \in Conns => scratch \in Conns)
  BY ReleaseBasics
<1>2. inited' = inited - 1 /\ inited \in Int
  BY VectorTypes DEF Release
<1>3. /\ IsFiniteSet(alive \ {c}) /\ Cardinality(alive) \in Nat
      /\ Cardinality(alive \ {c}) = Cardinality(alive) - 1
  BY FS_RemoveElement, FS_CardinalityType DEF Safe
<1>4. inited' = Cardinality(alive \ {c}) + (IF state = "deleted" THEN 0 ELSE 1)
  BY <1>2, <1>3 DEF Safe, WinSockCounted
<1>5. WinSockCounted' /\ IsFiniteSet(alive)'
  BY <1>1, <1>3, <1>4 DEF WinSockCounted
<1> QED BY <1>1, <1>5 DEF Safe

\* A frame below one that erases element i.
LEMMA BelowErase ==
  ASSUME Basics, Safe, NEW i \in 1..Len(connections),
         connections' = EraseAt(connections, i),
         alive' = alive \ {connections[i]}, polled' = polled,
         NEW g \in Frames, FrameOK(g), ~OnTop(g), Placed(g) => g.i < i,
         connections[i] \notin Subject(g)
  PROVE  FrameOK(g)'
<1> DEFINE n == Len(connections)
<1>1. /\ n \in Nat /\ i \in Int /\ i >= 1 /\ i <= n /\ Len(connections') = n - 1
      /\ \A k \in 1..(n - 1) :
           connections'[k] = IF k < i THEN connections[k] ELSE connections[k + 1]
  BY ErasedBasics
<1>2. \A m \in 1..i : From(m)' = From(m) \ {connections[i]}
  BY Erased DEF Safe
<1>3. Placed(g) => g.i \in Int /\ g.i >= 1
  BY FrameFields, MaxAssumption DEF Place
<1>4. Sound(g)'
  BY <1>1, <1>3 DEF FrameOK, Sound
<1>5. g.op \notin {"closeAll", "dismantle"} /\ (g.op = "walk" => g.i = 1)
  BY DEF OnTop
<1>6. ASSUME Releasing(g) PROVE alive' = From(g.i)'
  <2>1. Placed(g) /\ alive = From(g.i)
    BY <1>5, <1>6 DEF Releasing, Placed, FrameOK
  <2>2. g.i \in 1..i
    BY <1>1, <1>3, <2>1
  <2> QED BY <1>2, <2>1, <2>2
<1>7. ASSUME g.op = "walk", NEW k \in 1..(n - 1)
      PROVE  connections'[k] \in polled <=> k < g.i
  <2>1. \A j \in 1..n : connections[j] \notin polled
    BY <1>1, <1>5, <1>7 DEF FrameOK
  <2> QED BY <1>1, <1>5, <1>7, <2>1
<1>8. ASSUME g.op = "afterUpdate", NEW k \in 1..(n - 1)
      PROVE  connections'[k] \in polled <=> k <= g.i
  <2>1. \A j \in 1..n : connections[j] \in polled <=> j <= g.i
    BY <1>8 DEF FrameOK
  <2>2. g.i \in Int /\ g.i < i
    BY <1>3, <1>8 DEF Placed
  <2>3. CASE k < i
    BY <1>1, <2>1, <2>3
  <2>4. CASE ~(k < i)
    <3>1. connections'[k] = connections[k + 1] /\ k + 1 \in 1..n
      BY <1>1, <2>4
    <3> QED BY <1>1, <2>1, <2>2, <2>4, <3>1
  <2> QED BY <2>3, <2>4
<1> QED BY <1>1, <1>4, <1>5, <1>6, <1>7, <1>8 DEF FrameOK

LEMMA CloseTailSafe ==
  ASSUME Basics, Safe, DoCloseTail
  PROVE  Safe'
<1> DEFINE i == Head(stack).i
           c == Head(stack).c
           t == Tail(stack)
<1>1. /\ stack # <<>> /\ Head(stack).op = "closeTail"
      /\ i \in 1..Len(connections) /\ c \in alive /\ connections[i] = c
  BY Found DEF DoCloseTail
<1>2. /\ Release(c) /\ connections' = EraseAt(connections, i) /\ stack' = t
      /\ UNCHANGED <<state, sock, connState, polled>>
  BY DEF DoCloseTail
<1>3. /\ t \in Seq(Frames) /\ Shape(t) /\ StackInv(stack)
      /\ FramesOf(stack) = {Head(stack)} \cup FramesOf(t)
      /\ \A g \in FramesOf(t) : g \in Frames /\ FrameOK(g) /\ Over(Head(stack), g)
  <2>1. StackInv(stack) /\ stack \in Seq(Frames) /\ Shape(stack)
    BY DEF Safe, StackInv
  <2>2. /\ t \in Seq(Frames) /\ Shape(t)
        /\ FramesOf(stack) = {Head(stack)} \cup FramesOf(t)
        /\ \A g \in FramesOf(t) : Over(Head(stack), g)
    BY <1>1, <2>1, Pop, PopShape
  <2> HIDE DEF t
  <2>3. \A g \in FramesOf(t) : g \in Frames
    BY <2>2 DEF FramesOf
  <2> QED BY <2>1, <2>2, <2>3 DEF StackInv
<1>4. /\ alive' = alive \ {c} /\ (scratch' \in Conns => scratch \in Conns)
      /\ state' = "deleted" => sock' = "none"
      /\ IsFiniteSet(alive)' /\ WinSockCounted'
  BY <1>1, <1>2, Released
<1> HIDE DEF t, i, c
<1>5. NoneTwice' /\ From(1)' = From(1) \ {c}
  <2>1. NoneTwice' /\ \A m \in 1..i : From(m)' = From(m) \ {connections[i]}
    BY <1>1, <1>2, Erased DEF Safe
  <2>2. 1 \in 1..i
    BY <1>1
  <2> QED BY <1>1, <2>1, <2>2
<1>6. ASSUME NEW g \in FramesOf(t) PROVE FrameOK(g)'
  <2>1. g \in Frames /\ FrameOK(g) /\ ~OnTop(g) /\ c \notin Subject(g)
    BY <1>1, <1>3, <1>6 DEF Over, c
  <2>2. Placed(g) => g.i < i
    BY <1>1, <1>3, <1>6 DEF Over, Placed, i
  <2> QED BY <1>1, <1>2, <1>4, <2>1, <2>2, BelowErase
<1>7. /\ ~Releasing(Head(stack)) /\ ~Walking(Head(stack)) /\ ~Ending(Head(stack))
      /\ Head(stack).op # "accepted"
  BY <1>1 DEF Releasing, Walking, Ending
<1>8. (\A f \in FramesOf(t) : ~Releasing(f)) => alive' = From(1)'
  BY <1>3, <1>4, <1>5, <1>7 DEF StackInv
<1>9. (\A f \in FramesOf(t) : ~Walking(f)) => polled' = {}
  BY <1>2, <1>3, <1>7 DEF StackInv
<1>10. scratch' \in Conns => \E f \in FramesOf(t) : f.op = "accepted"
  BY <1>3, <1>4, <1>7 DEF StackInv
<1>11. state' = "deleted" => /\ \A f \in FramesOf(t) : f.op \notin {"open", "implGone"}
                             /\ \E f \in FramesOf(t) : Ending(f)
  <2>1. connections # <<>>
    BY <1>1, Empty
  <2> QED BY <1>2, <1>3, <1>7, <2>1 DEF StackInv
<1>12. StackInv(stack)'
  BY <1>2, <1>3, <1>6, <1>8, <1>9, <1>10, <1>11 DEF StackInv
<1> QED BY <1>4, <1>5, <1>12 DEF Safe

\* Frames below a release of all connections count on none of them.
Bare(g) == ~Placed(g) /\ Subject(g) = {} /\ ~OnTop(g)

LEMMA BareOK ==
  ASSUME NEW g, Bare(g),
         g.op = "walk" => \A k \in 1..Len(connections') : connections'[k] \notin polled'
  PROVE  FrameOK(g)' /\ ~Releasing(g)
<1>1. g.op \notin {"closeAll", "dismantle", "allTail", "gone", "afterUpdate"}
  BY DEF Bare, OnTop, Placed
<1>2. g.op = "walk" => g.i = 1
  BY DEF Bare, OnTop
<1>3. ASSUME g.op = "walk", NEW k \in 1..Len(connections')
      PROVE  connections'[k] \in polled' <=> k < g.i
  BY <1>2, <1>3
<1> QED BY <1>1, <1>2, <1>3 DEF Bare, FrameOK, Sound, Releasing

LEMMA BareBelow ==
  ASSUME StackInv(stack), stack # <<>>, Releasing(Head(stack))
  PROVE  /\ Tail(stack) \in Seq(Frames) /\ Shape(Tail(stack))
         /\ FramesOf(stack) = {Head(stack)} \cup FramesOf(Tail(stack))
         /\ \A g \in FramesOf(Tail(stack)) :
              Bare(g) /\ FrameOK(g) /\ Over(Head(stack), g) /\ ~Ending(Head(stack))
<1>1. /\ Tail(stack) \in Seq(Frames) /\ Shape(Tail(stack))
      /\ FramesOf(stack) = {Head(stack)} \cup FramesOf(Tail(stack))
      /\ \A g \in FramesOf(Tail(stack)) : Over(Head(stack), g)
  BY Pop, PopShape DEF StackInv
<1>2. ASSUME NEW g \in FramesOf(Tail(stack))
      PROVE  Bare(g) /\ FrameOK(g) /\ ~Ending(Head(stack))
  <2>1. Over(Head(stack), g) /\ FrameOK(g)
    BY <1>1 DEF StackInv
  <2>2. Head(stack).op \in {"closeAll", "allTail"} /\ ~OnTop(g)
    BY <2>1 DEF Over, AtBottom, Ending, Releasing
  <2> QED BY <2>1, <2>2 DEF Over, Bare, Ending
<1> QED BY <1>1, <1>2

LEMMA ReleaseStepSafe ==
  ASSUME Basics, Safe, DoAllTail \/ DoGone
  PROVE  Safe'
<1> DEFINE i == Head(stack).i
           c == Head(stack).c
           t == Tail(stack)
<1>1. /\ stack # <<>> /\ Releasing(Head(stack)) /\ i \in 1..Len(connections)
      /\ i \in Place /\ c \in alive /\ connections[i] = c
  BY Found DEF DoAllTail, DoGone, Releasing
<1>2. Release(c) /\ UNCHANGED <<state, sock, connections, connState, polled>>
  BY DEF DoAllTail, DoGone
<1>3. i + 1 \in Index /\ i \in Int /\ i >= 1 /\ i <= Len(connections)
  BY <1>1, VectorTypes DEF Place, Index
<1>4. PICK f \in Frames : /\ stack' = <<f>> \o t /\ f.i = i + 1
                          /\ f.op = IF Head(stack).op = "allTail" THEN "closeAll"
                                                                  ELSE "dismantle"
  <2>1. CASE DoAllTail
    <3> DEFINE f == CloseAll(i + 1)
    <3>1. f \in Frames /\ f.op = "closeAll" /\ f.i = i + 1
      BY <1>3, FrameTypes DEF CloseAll
    <3>2. stack' = <<f>> \o t /\ Head(stack).op = "allTail"
      BY <2>1 DEF DoAllTail, Resumes, TopIs
    <3> HIDE DEF f
    <3> QED BY <3>1, <3>2
  <2>2. CASE DoGone
    <3> DEFINE f == Dismantle(i + 1)
    <3>1. f \in Frames /\ f.op = "dismantle" /\ f.i = i + 1
      BY <1>3, FrameTypes DEF Dismantle
    <3>2. stack' = <<f>> \o t /\ Head(stack).op = "gone"
      BY <2>2 DEF DoGone, Resumes, TopIs
    <3> HIDE DEF f
    <3> QED BY <3>1, <3>2
  <2> QED BY <2>1, <2>2
<1>5. /\ t \in Seq(Frames) /\ Shape(t) /\ StackInv(stack)
      /\ FramesOf(stack) = {Head(stack)} \cup FramesOf(t)
      /\ \A g \in FramesOf(t) : Bare(g) /\ FrameOK(g) /\ Over(Head(stack), g)
                                /\ ~Ending(Head(stack))
  BY <1>1, BareBelow DEF Safe
<1>6. /\ alive' = alive \ {c} /\ (scratch' \in Conns => scratch \in Conns)
      /\ state' = "deleted" => sock' = "none"
      /\ IsFiniteSet(alive)' /\ WinSockCounted'
  BY <1>1, <1>2, Released
<1>7. alive = From(i)
  BY <1>1, <1>5 DEF StackInv, FrameOK
<1>8. Head(stack).op \in {"allTail", "gone"}
  BY DEF DoAllTail, DoGone, Resumes, TopIs
<1> HIDE DEF t, i, c
<1>9. alive' = From(i + 1)
  <2>1. ASSUME NEW j \in i..Len(connections), connections[j] # c
        PROVE  j \in (i + 1)..Len(connections)
    BY <1>1, <1>3, <2>1
  <2>2. ASSUME NEW j \in (i + 1)..Len(connections)
        PROVE  j \in i..Len(connections) /\ connections[j] # c
    <3>1. j \in 1..Len(connections) /\ j # i /\ j \in i..Len(connections)
      BY <1>3
    <3> QED BY <1>1, <3>1 DEF Safe, NoneTwice
  <2> QED BY <1>6, <1>7, <2>1, <2>2 DEF From
<1>10. FrameOK(f)'
  <2>1. Releasing(f) /\ f.i = i + 1 /\ Subject(f) = {} /\ ~Placed(f)
        /\ f.op \notin {"walk", "afterUpdate"}
    BY <1>4, <1>8 DEF Releasing, Subject, Placed
  <2>2. i + 1 \in 1..(Len(connections) + 1)
    BY <1>3, VectorTypes
  <2> QED BY <1>2, <1>9, <2>1, <2>2 DEF FrameOK, Sound, From
<1>11. ASSUME NEW g \in FramesOf(t) PROVE FrameOK(g)' /\ Over(f, g)
  <2>1. g.op = "walk" => \A k \in 1..Len(connections) : connections[k] \notin polled
    <3>1. g.op = "walk" => g.i = 1
      BY <1>5 DEF Bare, OnTop
    <3>2. \A k \in 1..Len(connections) : ~(k < 1)
      BY VectorTypes
    <3> QED BY <1>5, <3>1, <3>2 DEF FrameOK
  <2>2. FrameOK(g)'
    BY <1>2, <1>5, <2>1, BareOK
  <2>3. f.op = "closeAll"
    BY <1>4, <1>5, <1>8 DEF Ending
  <2>4. Over(f, g)
    BY <1>5, <2>3 DEF Bare, Over, Placed, AtBottom, Walking, Ending
  <2> QED BY <2>2, <2>4
<1>12. /\ stack' \in Seq(Frames) /\ FramesOf(stack') = {f} \cup FramesOf(t)
       /\ Shape(stack')
  BY <1>4, <1>5, <1>11, Push, PushShape
<1>13. /\ Releasing(f) /\ ~Walking(Head(stack)) /\ (Ending(Head(stack)) => Ending(f))
       /\ Head(stack).op # "accepted" /\ f.op \notin {"open", "implGone"}
  BY <1>4, <1>8 DEF Releasing, Walking, Ending
<1>14. StackInv(stack)'
  <2>1. \A g \in FramesOf(stack') : FrameOK(g)'
    BY <1>10, <1>11, <1>12
  <2>2. (\A g \in FramesOf(stack') : ~Walking(g)) => polled' = {}
    BY <1>2, <1>5, <1>12, <1>13 DEF StackInv
  <2>3. scratch' \in Conns => \E g \in FramesOf(stack') : g.op = "accepted"
    BY <1>5, <1>6, <1>12, <1>13 DEF StackInv
  <2>4. state' = "deleted" =>
          /\ \A g \in FramesOf(stack') : g.op \notin {"open", "implGone"}
          /\ connections' = <<>> \/ \E g \in FramesOf(stack') : Ending(g)
    BY <1>2, <1>5, <1>12, <1>13 DEF StackInv
  <2> QED BY <1>12, <1>13, <2>1, <2>2, <2>3, <2>4 DEF StackInv
<1> QED BY <1>2, <1>6, <1>14 DEF Safe, NoneTwice

\* The loops of closeAllConnections() and ~Socket: the next connection, or the
\* end.
LEMMA NextReleaseSafe ==
  ASSUME Basics, Safe, DoCloseAll \/ DoDismantle
  PROVE  Safe'
<1> DEFINE i == Head(stack).i
           t == Tail(stack)
<1>1. /\ stack # <<>> /\ Head(stack).op \in {"closeAll", "dismantle"}
      /\ Releasing(Head(stack)) /\ Head(stack).op # "accepted"
      /\ ~Walking(Head(stack))
  BY DEF DoCloseAll, DoDismantle, TopIs, Releasing, Walking
<1>2. /\ t \in Seq(Frames) /\ Shape(t) /\ StackInv(stack)
      /\ FramesOf(stack) = {Head(stack)} \cup FramesOf(t)
      /\ \A g \in FramesOf(t) : Bare(g) /\ FrameOK(g) /\ Over(Head(stack), g)
                                /\ ~Ending(Head(stack))
  BY <1>1, BareBelow DEF Safe
<1>3. CASE /\ i > Len(connections)
           /\ connections' = <<>> /\ stack' = t
           /\ UNCHANGED <<state, sock, alive, connState, scratch, inited, polled>>
  <2> HIDE DEF t
  <2>1. alive = From(i) /\ i \in Int
    <3>1. alive = From(i)
      BY <1>1, <1>2 DEF StackInv, FrameOK
    <3> QED BY <1>1, <3>1, BasicTail, FrameFields, MaxAssumption DEF Index
  <2>2. \A j \in i..Len(connections) : FALSE
    BY <1>3, <2>1, VectorTypes
  <2>3. alive = {}
    BY <2>1, <2>2 DEF From
  <2>4. Len(connections') = 0
    BY <1>3, Empty
  <2>5. alive' = From(1)'
    BY <1>3, <2>3, <2>4 DEF From
  <2>6. ASSUME NEW g \in FramesOf(t) PROVE FrameOK(g)'
    <3>1. g.op = "walk" => \A k \in 1..Len(connections') : connections'[k] \notin polled'
      BY <2>4
    <3> QED BY <1>2, <3>1, BareOK
  <2>7. NoneTwice'
    BY <2>4 DEF NoneTwice
  <2>8. polled' = polled /\ scratch' = scratch
    BY <1>3
  <2>9. StackInv(stack)'
    <3>1. \A g \in FramesOf(t) : FrameOK(g)'
      BY <2>6
    <3>2. (\A g \in FramesOf(t) : ~Walking(g)) => polled' = {}
      BY <1>1, <1>2, <2>8 DEF StackInv
    <3>3. scratch' \in Conns => \E g \in FramesOf(t) : g.op = "accepted"
      BY <1>1, <1>2, <2>8 DEF StackInv
    <3>4. state' = "deleted" => \A g \in FramesOf(t) : g.op \notin {"open", "implGone"}
      BY <1>2, <1>3 DEF StackInv
    <3> QED BY <1>2, <1>3, <2>5, <3>1, <3>2, <3>3, <3>4 DEF StackInv
  <2> QED BY <1>3, <2>7, <2>9 DEF Safe, WinSockCounted
<1>4. ASSUME NEW f \in Frames, f.i = i, f.i \in 1..Len(connections),
             f.c = connections[f.i], f.c \in alive, f.c \in Conns,
             f.op = IF Head(stack).op = "closeAll" THEN "allTail" ELSE "gone",
             CloseConn(f.c, <<f>> \o t)
      PROVE  Safe'
  <2>1. alive = From(f.i)
    BY <1>1, <1>2, <1>4 DEF StackInv, FrameOK
  <2>2. FrameOK(f) /\ ~OnTop(f) /\ Releasing(f) /\ f.op \notin {"open", "implGone"}
        /\ (Ending(Head(stack)) => Ending(f))
    <3>1. f.op \in {"allTail", "gone"} /\ Placed(f) /\ Subject(f) = {f.c}
      BY <1>4 DEF Placed, Subject
    <3>2. f.i <= Len(connections)
      BY <1>4, VectorTypes
    <3>3. FrameOK(f)
      BY <1>4, <2>1, <3>1, <3>2 DEF FrameOK, Sound
    <3> QED BY <1>1, <1>4, <3>1, <3>3 DEF OnTop, Releasing, Ending
  <2>3. ASSUME NEW g \in FramesOf(t) PROVE Over(f, g)
    <3>1. f.op = "allTail"
      BY <1>1, <1>2, <1>4, <2>3 DEF Ending
    <3> QED BY <1>2, <2>3, <3>1 DEF Bare, Over, Placed, AtBottom, Walking, Ending
  <2>4. /\ StackInv(<<f>> \o t)
        /\ FramesOf(<<f>> \o t) = {f} \cup FramesOf(t)
    BY <1>1, <1>2, <2>2, <2>3, ReplaceInv
  <2> DEFINE s == <<f>> \o t
  <2>5. StackInv(s) /\ \A g \in FramesOf(s) : ~OnTop(g)
    BY <1>2, <2>2, <2>4 DEF Bare
  <2> HIDE DEF s
  <2> QED BY <1>4, <2>5, CloseConnSafe DEF s
<1> QED BY <1>3, <1>4, NextRelease

(***************************************************************************)
(* update().                                                               *)
(***************************************************************************)
\* update() and the destructor find their own frame at the bottom.
LEMMA Bottom ==
  ASSUME Safe, stack # <<>>, AtBottom(Head(stack))
  PROVE  /\ Tail(stack) = <<>> /\ FramesOf(stack) = {Head(stack)}
         /\ FrameOK(Head(stack)) /\ Head(stack) \in Frames
         /\ ~Releasing(Head(stack)) => alive = From(1)
         /\ scratch \notin Conns
         /\ (~Ending(Head(stack)) /\ state = "deleted") => connections = <<>>
         /\ ~Walking(Head(stack)) => polled = {}
         /\ state = "deleted" => Head(stack).op # "implGone"
<1>1. StackInv(stack) /\ stack \in Seq(Frames) /\ Shape(stack)
  BY DEF Safe, StackInv
<1>2. Tail(stack) = <<>>
  BY <1>1, PopShape
<1>3. FramesOf(stack) = {Head(stack)} /\ Head(stack) \in Frames
  BY <1>1, <1>2, Pop, Empty
<1>4. Head(stack).op # "accepted"
  BY DEF AtBottom, Walking, Ending
<1> QED BY <1>1, <1>2, <1>3, <1>4 DEF StackInv

LEMMA WalkSafe ==
  ASSUME Basics, Safe, DoWalk
  PROVE  Safe'
<1> DEFINE i == Head(stack).i
           c == connections[i]
<1>1. /\ stack # <<>> /\ Head(stack).op = "walk"
      /\ UNCHANGED <<state, sock, connections, alive, connState, scratch, inited>>
  BY DEF DoWalk, TopIs
<1>2. /\ Tail(stack) = <<>> /\ FrameOK(Head(stack)) /\ i \in Index
      /\ alive = From(1) /\ scratch \notin Conns
      /\ state = "deleted" => connections = <<>>
  <2>1. AtBottom(Head(stack)) /\ ~Releasing(Head(stack)) /\ ~Ending(Head(stack))
    BY <1>1 DEF AtBottom, Walking, Ending, Releasing
  <2> QED BY <1>1, <2>1, Bottom, FrameFields
<1>3. i \in Int /\ i >= 1
  BY <1>2, MaxAssumption DEF Index
<1>4. \A j \in 1..Len(connections) : connections[j] \in polled <=> j < i
  BY <1>1, <1>2 DEF FrameOK
<1>5. ASSUME StackInv(stack)' PROVE Safe'
  BY <1>1, <1>5 DEF Safe, NoneTwice, WinSockCounted
<1>6. CASE i > Len(connections)
  <2>1. stack' = <<>> /\ polled' = {}
    <3>1. ~(i <= Len(connections))
      BY <1>3, <1>6, VectorTypes
    <3> QED BY <1>2, <3>1, Zenon DEF DoWalk
  <2>2. /\ <<>> \in Seq(Frames) /\ FramesOf(<<>>) = {} /\ Shape(<<>>)
    BY Empty DEF Shape
  <2>3. StackInv(stack)'
    BY <1>1, <1>2, <2>1, <2>2 DEF StackInv, From
  <2> QED BY <1>5, <2>3
<1>7. CASE i <= Len(connections)
  <2>1. i \in 1..Len(connections) /\ i \in Place /\ c \in Conns
    BY <1>3, <1>7, VectorTypes DEF Place
  <2>2. c \in alive
    BY <1>2, <2>1 DEF From
  <2>3. PICK a \in Frames, d \in Frames, e \in Frames, k \in Frames :
          /\ a.op = "afterUpdate" /\ a.i = i /\ a.c = c
          /\ Free(d) /\ Subject(d) = {c} /\ d.op \in {"handler", "connClose"}
          /\ Free(e) /\ Subject(e) = {c} /\ e.op \in {"handler", "connClose"}
          /\ Free(k) /\ Subject(k) = {c} /\ k.op \in {"handler", "connClose"}
          /\ \/ stack' = <<a>> \o Tail(stack)
             \/ stack' = <<d>> \o (<<a>> \o Tail(stack))
             \/ stack' = <<k>> \o (<<a>> \o Tail(stack))
             \/ stack' = <<e, k>> \o (<<a>> \o Tail(stack))
    <3> DEFINE a == AfterUpdate(i, c)
               d == Handler("sData", c)
               e == Handler("sError", c)
               k == ConnClosing(c)
    <3>1. a \in Frames /\ a.op = "afterUpdate" /\ a.i = i /\ a.c = c
      BY <2>1, FrameTypes DEF AfterUpdate
    <3>2. /\ d \in Frames /\ Free(d) /\ Subject(d) = {c} /\ d.op \in {"handler", "connClose"}
          /\ e \in Frames /\ Free(e) /\ Subject(e) = {c} /\ e.op \in {"handler", "connClose"}
          /\ k \in Frames /\ Free(k) /\ Subject(k) = {c} /\ k.op \in {"handler", "connClose"}
      BY <2>1, ConnFrames DEF Events
    <3>3. \/ stack' = <<a>> \o Tail(stack) \/ stack' = <<d>> \o (<<a>> \o Tail(stack))
          \/ stack' = <<k>> \o (<<a>> \o Tail(stack))
          \/ stack' = <<e, k>> \o (<<a>> \o Tail(stack))
      <4>1. ~(i > Len(connections))
        BY <1>3, <1>7, VectorTypes
      <4> QED BY <4>1, Zenon DEF DoWalk
    <3> HIDE DEF a, d, e, k
    <3> QED BY <3>1, <3>2, <3>3
  <2>4. polled' = polled \cup {c}
    BY <1>3, <1>7, VectorTypes DEF DoWalk
  <2>7. c = connections[i]
    OBVIOUS
  <2>8. state # "deleted"
    <3>1. connections # <<>>
      BY <2>1, Empty
    <3> QED BY <1>2, <3>1
  <2> HIDE DEF c, i
  <2>9. FrameOK(a)'
    <3>1. \A j \in 1..Len(connections) : connections[j] \in polled' <=> j <= i
      <4>1. ASSUME NEW j \in 1..Len(connections)
            PROVE  connections[j] \in polled' <=> j <= i
        <5>1. connections[j] = c <=> j = i
          BY <2>1, <2>7 DEF Safe, NoneTwice
        <5>2. j < i \/ j = i <=> j <= i
          BY <1>3
        <5> QED BY <1>4, <2>4, <5>1, <5>2
      <4> QED BY <4>1
    <3>2. Sound(a)'
      BY <1>1, <1>7, <2>2, <2>3, <2>7 DEF Sound, Placed, Subject
    <3>3. a.op \notin {"walk", "closeAll", "dismantle"} /\ ~Releasing(a)
      BY <2>3 DEF Releasing
    <3> QED BY <1>1, <2>3, <3>1, <3>2, <3>3 DEF FrameOK
  <2>10. FrameOK(d)' /\ FrameOK(e)' /\ FrameOK(k)'
    BY <1>1, <2>2, <2>3, FreeOKNext
  <2>11. <<a>> \o Tail(stack) = <<a>>
    BY <1>2, <2>3, Single
  <2>12. PICK r \in Seq(Frames) : r = <<a>> \o Tail(stack)
    BY <2>3, <2>11, Single
  <2>13. Shape(r) /\ FramesOf(r) = {a} /\ ~OnTop(a) /\ Walking(a)
    BY <2>3, <2>11, <2>12, Single DEF OnTop, Walking
  <2>14. ASSUME NEW s \in Seq(Frames), Shape(s), FramesOf(s) \subseteq {a, d, e, k},
                a \in FramesOf(s), stack' = s
         PROVE  Safe'
    <3>1. \A g \in FramesOf(s) :
            FrameOK(g)' /\ ~Releasing(g) /\ g.op \notin {"open", "implGone"}
      BY <2>3, <2>9, <2>10, <2>14 DEF Releasing
    <3>2. StackInv(stack)'
      BY <1>1, <1>2, <2>8, <2>13, <2>14, <3>1 DEF StackInv, From
    <3> QED BY <1>5, <3>2
  <2>15. ASSUME NEW f \in {d, k}
         PROVE  /\ <<f>> \o r \in Seq(Frames) /\ Shape(<<f>> \o r)
                /\ FramesOf(<<f>> \o r) = {f, a}
    <3>1. Over(f, a) /\ f \in Frames
      BY <2>3, <2>13, FreeOver
    <3> QED BY <2>13, <3>1, Push, PushShape
  <2>16. /\ <<e, k>> \o r \in Seq(Frames) /\ Shape(<<e, k>> \o r)
         /\ FramesOf(<<e, k>> \o r) = {e, k, a}
    <3>1. PICK s \in Seq(Frames) : s = <<k>> \o r
      BY <2>15
    <3>2. Shape(s) /\ FramesOf(s) = {k, a}
      BY <2>15, <3>1
    <3>3. \A g \in FramesOf(s) : Over(e, g)
      <4>1. ~OnTop(k)
        BY <2>3 DEF Free, OnTop
      <4>2. Over(e, k) /\ Over(e, a)
        BY <2>3, <2>13, <4>1, FreeOver
      <4> QED BY <3>2, <4>2
    <3>4. /\ <<e>> \o s \in Seq(Frames) /\ Shape(<<e>> \o s)
          /\ FramesOf(<<e>> \o s) = {e, k, a}
      <4>1. /\ <<e>> \o s \in Seq(Frames)
            /\ FramesOf(<<e>> \o s) = {e} \cup FramesOf(s)
        BY Push
      <4>2. Shape(<<e>> \o s)
        BY <3>2, <3>3, PushShape
      <4> QED BY <3>2, <4>1, <4>2
    <3>5. <<e, k>> \o r = <<e>> \o s
      BY <2>3, <3>1, Two
    <3> QED BY <3>4, <3>5
  <2> QED BY <2>3, <2>12, <2>13, <2>14, <2>15, <2>16
<1> QED BY <1>3, <1>6, <1>7, VectorTypes

LEMMA AfterUpdateSafe ==
  ASSUME Basics, Safe, DoAfterUpdate
  PROVE  Safe'
<1> DEFINE i == Head(stack).i
           c == connections[i]
           closed == connState[c] = "sClose"
           n == Len(connections)
<1>1. /\ IF closed THEN Release(c) /\ connections' = EraseAt(connections, i)
                   ELSE UNCHANGED <<alive, scratch, inited, connections>>
      /\ stack' = <<Walk(Advance(i, closed))>> \o Tail(stack)
      /\ UNCHANGED <<state, sock, connState, polled>>
  BY DEF DoAfterUpdate
<1>2. /\ stack # <<>> /\ i \in Place /\ i \in 1..n /\ Head(stack).op = "afterUpdate"
      /\ c \in alive /\ n \in Nat
  BY Found DEF DoAfterUpdate
<1>3. /\ Tail(stack) = <<>> /\ FrameOK(Head(stack))
      /\ alive = From(1) /\ scratch \notin Conns
      /\ state = "deleted" => connections = <<>>
  <2>1. AtBottom(Head(stack)) /\ ~Releasing(Head(stack)) /\ ~Ending(Head(stack))
    BY <1>2 DEF AtBottom, Walking, Ending, Releasing
  <2> QED BY <1>2, <2>1, Bottom
<1>4. \A j \in 1..n : connections[j] \in polled <=> j <= i
  BY <1>2, <1>3 DEF FrameOK
<1>5. i \in Int /\ i >= 1 /\ i <= n
  BY <1>2
<1>6. state # "deleted"
  <2>1. connections # <<>>
    BY <1>2, Empty
  <2> QED BY <1>3, <2>1
<1>7. PICK w \in Frames : /\ w.op = "walk" /\ w.i = Advance(i, closed)
                          /\ stack' = <<w>> \o Tail(stack)
  <2> DEFINE w == Walk(Advance(i, closed))
  <2>1. Advance(i, closed) \in Index
    BY <1>2, MaxAssumption DEF Advance, Index, Place
  <2>2. w \in Frames /\ w.op = "walk" /\ w.i = Advance(i, closed)
    BY <2>1, FrameTypes DEF Walk
  <2>3. stack' = <<w>> \o Tail(stack)
    BY <1>1
  <2> HIDE DEF w, closed
  <2> QED BY <2>2, <2>3
<1> HIDE DEF closed
<1>8. stack' \in Seq(Frames) /\ FramesOf(stack') = {w} /\ Shape(stack') /\ Walking(w)
      /\ ~Releasing(w) /\ Subject(w) = {} /\ ~Placed(w)
  BY <1>1, <1>3, <1>7, Single DEF Walking, Releasing, Subject, Placed
<1>9. ASSUME alive' = From(1)', scratch' \notin Conns,
             w.i \in 1..(Len(connections') + 1),
             \A k \in 1..Len(connections') : connections'[k] \in polled <=> k < w.i
      PROVE  StackInv(stack)'
  <2>1. FrameOK(w)'
    BY <1>1, <1>7, <1>8, <1>9 DEF FrameOK, Sound
  <2> QED BY <1>1, <1>6, <1>8, <1>9, <2>1 DEF StackInv
<1>10. CASE closed
  <2>1. Release(c) /\ connections' = EraseAt(connections, i) /\ w.i = i
    BY <1>1, <1>7, <1>10 DEF Advance
  <2>2. /\ alive' = alive \ {c} /\ (scratch' \in Conns => scratch \in Conns)
        /\ IsFiniteSet(alive)' /\ WinSockCounted'
    BY <1>1, <1>2, <2>1, Released
  <2>3. NoneTwice' /\ From(1)' = From(1) \ {c}
    <3>1. 1 \in 1..i
      BY <1>5
    <3> QED BY <1>2, <2>1, <3>1, Erased DEF Safe
  <2>4. /\ Len(connections') = n - 1
        /\ \A k \in 1..(n - 1) :
             connections'[k] = IF k < i THEN connections[k] ELSE connections[k + 1]
    BY <1>2, <2>1, ErasedBasics
  <2>5. ASSUME NEW k \in 1..Len(connections')
        PROVE  connections'[k] \in polled <=> k < w.i
    <3>1. CASE k < i
      <4>1. connections'[k] = connections[k] /\ k \in 1..n
        BY <1>5, <2>4, <3>1
      <4> QED BY <1>4, <1>5, <2>1, <3>1, <4>1
    <3>2. CASE ~(k < i)
      <4>1. connections'[k] = connections[k + 1] /\ k + 1 \in 1..n /\ ~(k + 1 <= i)
        BY <1>5, <2>4, <3>2
      <4> QED BY <1>4, <2>1, <3>2, <4>1
    <3> QED BY <3>1, <3>2
  <2>6. w.i \in 1..(Len(connections') + 1)
    BY <1>5, <2>1, <2>4
  <2>7. StackInv(stack)'
    BY <1>3, <1>9, <2>2, <2>3, <2>5, <2>6
  <2> QED BY <1>1, <1>6, <2>2, <2>3, <2>7 DEF Safe
<1>11. CASE ~closed
  <2>1. UNCHANGED <<alive, scratch, inited, connections>> /\ w.i = i + 1
    BY <1>1, <1>7, <1>11 DEF Advance
  <2>2. w.i \in 1..(Len(connections') + 1)
    BY <1>2, <1>5, <2>1
  <2>3. ASSUME NEW k \in 1..Len(connections')
        PROVE  connections'[k] \in polled <=> k < w.i
    <3>1. k \in 1..n /\ (k < w.i <=> k <= i)
      BY <1>5, <2>1
    <3> QED BY <1>4, <2>1, <3>1
  <2>4. alive' = From(1)'
    BY <1>3, <2>1 DEF From
  <2>5. StackInv(stack)'
    BY <1>3, <1>9, <2>1, <2>2, <2>3, <2>4
  <2> QED BY <1>1, <2>1, <2>5 DEF Safe, NoneTwice, WinSockCounted
<1> QED BY <1>10, <1>11

(***************************************************************************)
(* Destructors and constructors.                                           *)
(***************************************************************************)
LEMMA ImplGoneSafe ==
  ASSUME Basics, Safe, DoImplGone
  PROVE  Safe'
<1>1. /\ stack # <<>> /\ Head(stack).op = "implGone"
      /\ state' = "deleted" /\ sock' = "none" /\ inited' = inited - 1
      /\ scratch' = "null" /\ UNCHANGED <<connections, alive, connState, polled>>
  BY DEF DoImplGone, TopIs
<1>2. /\ Tail(stack) = <<>> /\ alive = From(1) /\ polled = {} /\ state # "deleted"
  <2>1. /\ AtBottom(Head(stack)) /\ ~Releasing(Head(stack)) /\ ~Ending(Head(stack))
        /\ ~Walking(Head(stack))
    BY <1>1 DEF AtBottom, Walking, Ending, Releasing
  <2> QED BY <1>1, <2>1, Bottom
<1>3. PICK f \in Frames : f.op = "dismantle" /\ f.i = 1 /\ stack' = <<f>> \o Tail(stack)
  <2> DEFINE f == Dismantle(1)
  <2>1. f \in Frames /\ f.op = "dismantle" /\ f.i = 1
    BY FrameTypes, MaxAssumption DEF Dismantle, Index
  <2>2. stack' = <<f>> \o Tail(stack)
    BY DEF DoImplGone
  <2> HIDE DEF f
  <2> QED BY <2>1, <2>2
<1>4. /\ stack' \in Seq(Frames) /\ FramesOf(stack') = {f} /\ Shape(stack')
      /\ Releasing(f) /\ Ending(f) /\ ~Placed(f) /\ Subject(f) = {}
  BY <1>2, <1>3, Single DEF Releasing, Ending, Placed, Subject
<1>5. FrameOK(f)'
  BY <1>1, <1>2, <1>3, <1>4 DEF FrameOK, Sound, From
<1>6. scratch' \notin Conns
  BY <1>1, ServerAssumption
<1>7. StackInv(stack)'
  BY <1>1, <1>2, <1>3, <1>4, <1>5, <1>6 DEF StackInv
<1>8. WinSockCounted'
  <2>1. inited = Cardinality(alive) + 1 /\ Cardinality(alive) \in Nat
    BY <1>2, FS_CardinalityType DEF Safe, WinSockCounted
  <2> QED BY <1>1, <2>1 DEF WinSockCounted
<1> QED BY <1>1, <1>7, <1>8 DEF Safe, NoneTwice

\* With nothing pending, the vector is the living connections.
LEMMA Idle ==
  ASSUME Safe, stack = <<>>
  PROVE  /\ alive = From(1) /\ polled = {} /\ scratch \notin Conns
         /\ state = "deleted" => connections = <<>>
  BY Empty DEF Safe, StackInv

LEMMA ConstructSafe ==
  ASSUME Basics, Safe, Construct
  PROVE  Safe'
<1>1. /\ stack = <<>> /\ state = "deleted" /\ state' = "sClose" /\ inited' = inited + 1
      /\ UNCHANGED <<sock, connections, alive, connState, scratch, stack, polled>>
  BY DEF Construct
<1>2. StackInv(stack)'
  <2>1. StackInv(stack) /\ stack' = <<>> /\ FramesOf(<<>>) = {}
    BY <1>1, Empty DEF Safe
  <2> QED BY <1>1, <2>1 DEF StackInv, From
<1>3. WinSockCounted'
  <2>1. inited = Cardinality(alive) + 0 /\ Cardinality(alive) \in Nat
    BY <1>1, FS_CardinalityType DEF Safe, WinSockCounted
  <2> QED BY <1>1, <2>1 DEF WinSockCounted
<1> QED BY <1>1, <1>2, <1>3 DEF Safe, NoneTwice

(***************************************************************************)
(* update(), from the main loop.                                           *)
(***************************************************************************)
\* The stack it leaves.
LEMMA UpdateInv ==
  ASSUME state' # "deleted", alive' = From(1)', polled' = {},
         \/ stack' = <<Walk(1)>> /\ scratch' \notin Conns
         \/ \E f \in Frames, g \in Frames :
              /\ stack' = <<f, g, Walk(1)>> /\ Free(f) /\ Free(g)
              /\ Subject(f) = {} /\ Subject(g) = {}
              /\ scratch' \in Conns => g.op = "accepted"
  PROVE  StackInv(stack)'
<1> DEFINE w == Walk(1)
<1>1. /\ w \in Frames /\ w.op = "walk" /\ w.i = 1
      /\ <<w>> \in Seq(Frames) /\ FramesOf(<<w>>) = {w} /\ Shape(<<w>>)
      /\ \A f \in Frames, g \in Frames :
           Free(f) /\ Free(g) =>
             /\ <<f, g, w>> \in Seq(Frames) /\ Shape(<<f, g, w>>)
             /\ FramesOf(<<f, g, w>>) = {f, g, w}
  BY UpdateStack, Single
<1> HIDE DEF w
<1>2. Bare(w) /\ Walking(w)
  BY <1>1 DEF Bare, Placed, Subject, OnTop, Walking
<1>3. FrameOK(w)' /\ ~Releasing(w)
  BY <1>2, BareOK
<1>4. CASE stack' = <<w>> /\ scratch' \notin Conns
  BY <1>1, <1>2, <1>3, <1>4 DEF StackInv
<1>5. ASSUME NEW f \in Frames, NEW g \in Frames, stack' = <<f, g, w>>,
             Free(f), Free(g), Subject(f) = {}, Subject(g) = {},
             scratch' \in Conns => g.op = "accepted"
      PROVE  StackInv(stack)'
  <2>1. FrameOK(f)' /\ FrameOK(g)' /\ ~Releasing(f) /\ ~Releasing(g)
    BY <1>5, FreeOKNext DEF Free, Releasing
  <2>2. /\ stack' \in Seq(Frames) /\ Shape(stack') /\ FramesOf(stack') = {f, g, w}
    BY <1>1, <1>5
  <2> QED BY <1>2, <1>3, <1>5, <2>1, <2>2 DEF StackInv
<1> QED BY <1>4, <1>5 DEF w

LEMMA UpdateSafe ==
  ASSUME Basics, Safe, Update
  PROVE  Safe'
<1>1. stack = <<>> /\ state # "deleted"
  BY DEF Update
<1>2. alive = From(1) /\ polled = {} /\ scratch \notin Conns
  BY <1>1, Idle
<1>3. ASSUME NEW c \in Conns, AcceptOk(c) PROVE Safe'
  <2>1. /\ c \notin alive /\ alive' = alive \cup {c}
        /\ connections' = Append(connections, c) /\ inited' = inited + 1
        /\ stack' = <<Handler("sConnection", c), Accepted, Walk(1)>>
        /\ UNCHANGED <<state, sock, polled>>
    BY <1>3 DEF AcceptOk, Started
  <2> DEFINE n == Len(connections)
             v == connections'
  <2>2. /\ Len(v) = n + 1 /\ n \in Nat
        /\ \A k \in 1..n : v[k] = connections[k] /\ connections[k] # c
        /\ v[n + 1] = c
    <3>1. /\ Len(v) = n + 1 /\ n \in Nat
          /\ \A k \in 1..n : v[k] = connections[k]
          /\ v[n + 1] = c
      BY <2>1, AppendProperties, VectorTypes
    <3>2. \A k \in 1..n : connections[k] # c
      BY <1>2, <2>1 DEF From
    <3> QED BY <3>1, <3>2
  <2>3. NoneTwice'
    <3>1. \A j, k \in 1..n : connections[j] = connections[k] => j = k
      BY DEF Safe, NoneTwice
    <3> HIDE DEF v, n
    <3>2. ASSUME NEW j \in 1..(n + 1), NEW k \in 1..(n + 1), v[j] = v[k] PROVE j = k
      <4>1. j \in 1..n \/ j = n + 1
        BY <2>2
      <4>2. k \in 1..n \/ k = n + 1
        BY <2>2
      <4> QED BY <2>2, <3>1, <3>2, <4>1, <4>2
    <3> QED BY <2>2, <3>2 DEF NoneTwice, v
  <2>4. alive' = From(1)'
    <3> HIDE DEF v, n
    <3> DEFINE A == {connections[j] : j \in 1..n}
               B == {v[j] : j \in 1..(n + 1)}
    <3>1. A \cup {c} = B
      <4>1. ASSUME NEW x \in A PROVE x \in B
        <5>1. PICK j \in 1..n : x = connections[j]
          OBVIOUS
        <5>2. j \in 1..(n + 1) /\ x = v[j]
          BY <2>2, <5>1
        <5> QED BY <5>2
      <4>2. c \in B
        <5>1. n + 1 \in 1..(n + 1)
          BY <2>2
        <5> QED BY <2>2, <5>1
      <4>3. ASSUME NEW x \in B PROVE x \in A \cup {c}
        <5>1. PICK j \in 1..(n + 1) : x = v[j]
          OBVIOUS
        <5>2. j \in 1..n \/ j = n + 1
          BY <2>2
        <5> QED BY <2>2, <5>1, <5>2
      <4> HIDE DEF A, B
      <4> QED BY <4>1, <4>2, <4>3
    <3>2. alive = A /\ From(1)' = B
      BY <1>2, <2>2 DEF From, v, n
    <3> QED BY <2>1, <3>1, <3>2
  <2>5. StackInv(stack)'
    <3>1. \E f \in Frames, g \in Frames :
            /\ stack' = <<f, g, Walk(1)>> /\ Free(f) /\ Free(g)
            /\ Subject(f) = {} /\ Subject(g) = {} /\ g.op = "accepted"
      <4>1. PICK f \in Frames : f = Handler("sConnection", c) /\ Free(f) /\ Subject(f) = {}
        BY ConnFrames
      <4>2. PICK g \in Frames : g = Accepted /\ Free(g) /\ Subject(g) = {} /\ g.op = "accepted"
        BY ServerFrames
      <4> QED BY <2>1, <4>1, <4>2
    <3> QED BY <1>1, <1>2, <2>1, <2>4, <3>1, UpdateInv
  <2>6. IsFiniteSet(alive)' /\ WinSockCounted'
    <3>1. /\ IsFiniteSet(alive \cup {c}) /\ Cardinality(alive) \in Nat
          /\ Cardinality(alive \cup {c}) = Cardinality(alive) + 1
      BY <2>1, FS_AddElement, FS_CardinalityType DEF Safe
    <3>2. inited = Cardinality(alive) + 1
      BY <1>1 DEF Safe, WinSockCounted
    <3> QED BY <1>1, <2>1, <3>1, <3>2 DEF WinSockCounted
  <2> QED BY <1>1, <2>1, <2>3, <2>5, <2>6 DEF Safe
<1>4. ASSUME UNCHANGED <<connections, alive, inited, polled>>, state' # "deleted",
             StackInv(stack)'
      PROVE  Safe'
  BY <1>1, <1>4 DEF Safe, NoneTwice, WinSockCounted
<1>5. CASE AcceptError
  <2>1. /\ state' = "sDisconnected" /\ scratch' \in {scratch, "free"}
        /\ stack' = <<Handler("sError", Server), Closing, Walk(1)>>
        /\ UNCHANGED <<connections, alive, inited, polled>>
    BY <1>5 DEF AcceptError
  <2>2. scratch' \notin Conns /\ alive' = From(1)'
    BY <1>2, <2>1, ServerAssumption DEF From
  <2>3. \E f \in Frames, g \in Frames :
          /\ stack' = <<f, g, Walk(1)>> /\ Free(f) /\ Free(g)
          /\ Subject(f) = {} /\ Subject(g) = {}
    <3>1. PICK f \in Frames : f = Handler("sError", Server) /\ Free(f) /\ Subject(f) = {}
      BY ServerFrames DEF Events
    <3>2. PICK g \in Frames : g = Closing /\ Free(g) /\ Subject(g) = {}
      BY ServerFrames
    <3> QED BY <2>1, <3>1, <3>2
  <2>4. StackInv(stack)'
    BY <1>2, <2>1, <2>2, <2>3, UpdateInv
  <2> QED BY <1>4, <2>1, <2>4
<1>6. CASE NoAccept
  <2>1. /\ scratch' \in {scratch, "free"} /\ stack' = <<Walk(1)>>
        /\ UNCHANGED <<state, connections, alive, inited, polled>>
    BY <1>6 DEF NoAccept
  <2>2. scratch' \notin Conns /\ alive' = From(1)'
    BY <1>2, <2>1, ServerAssumption DEF From
  <2>3. StackInv(stack)'
    BY <1>1, <1>2, <2>1, <2>2, UpdateInv
  <2> QED BY <1>1, <1>4, <2>1, <2>3
<1> QED BY <1>3, <1>5, <1>6 DEF Update

(***************************************************************************)
(* The invariant.                                                          *)
(***************************************************************************)
LEMMA NextInv ==
  ASSUME Inv, [Next]_vars
  PROVE  Inv' /\ (undermined => undermined')
<1>1. Basics /\ Basics'
  BY NextBasics DEF Inv
<1>2. undermined => undermined'
  <2>1. CASE UNCHANGED undermined
    BY <2>1
  <2>2. CASE CallCloseConnection \/ CallCloseAll
    BY <2>2 DEF CallCloseConnection, CallCloseAll, MayCall
  <2>3. CASE UNCHANGED vars
    BY <2>3 DEF vars
  <2> QED BY <2>1, <2>2, <2>3 DEF Next, CallListen, CallClose, CallCloseOne, CallDelete,
             Construct, HandlerReturn, Continue, Update
<1>3. ASSUME ~undermined' PROVE Safe'
  <2>1. Safe
    BY <1>2, <1>3 DEF Inv
  <2>2. CASE UNCHANGED vars
    BY <2>1, <2>2, Calm DEF vars, Safe
  <2>3. CASE Continue
    BY <1>1, <2>1, <2>3, ServerStepSafe, AcceptedSafe, CloseTailSafe, ReleaseStepSafe,
       NextReleaseSafe, WalkSafe, AfterUpdateSafe, ImplGoneSafe DEF Continue
  <2>4. CASE HandlerReturn \/ Construct \/ Update
    BY <1>1, <2>1, <2>4, ServerStepSafe, ConstructSafe, UpdateSafe
  <2>5. CASE CallListen \/ CallClose \/ CallDelete
    BY <1>1, <2>1, <2>5, CallSafe
  <2>6. CASE CallCloseOne \/ CallCloseConnection \/ CallCloseAll
    BY <1>1, <1>3, <2>1, <2>6, CloseCallSafe, CloseAllSafe
  <2> QED BY <2>2, <2>3, <2>4, <2>5, <2>6 DEF Next
<1> QED BY <1>1, <1>2, <1>3 DEF Inv

LEMMA InitInv ==
  ASSUME Init
  PROVE  Inv
<1>1. Basics
  BY InitBasics
<1>2. /\ connections = <<>> /\ alive = {} /\ stack = <<>> /\ polled = {}
      /\ scratch = "null" /\ state = "sClose" /\ inited = 1 /\ sock = "none"
  BY DEF Init
<1>3. Len(connections) = 0 /\ FramesOf(stack) = {} /\ stack \in Seq(Frames) /\ Len(stack) = 0
  BY <1>2, Empty
<1>4. NoneTwice /\ From(1) = {}
  BY <1>3 DEF NoneTwice, From
<1>5. Shape(stack)
  BY <1>3 DEF Shape
<1>6. StackInv(stack)
  BY <1>2, <1>3, <1>4, <1>5, ServerAssumption DEF StackInv
<1>7. IsFiniteSet(alive) /\ Cardinality(alive) = 0
  BY <1>2, FS_EmptySet
<1>8. WinSockCounted
  BY <1>2, <1>7 DEF WinSockCounted
<1> QED BY <1>1, <1>2, <1>4, <1>6, <1>7, <1>8 DEF Inv, Safe

LEMMA Invariance == Spec => []Inv
<1>1. Init => Inv
  BY InitInv
<1>2. Inv /\ [Next]_vars => Inv'
  BY NextInv
<1> QED BY <1>1, <1>2, PTL DEF Spec

(***************************************************************************)
(* The theorems.                                                           *)
(***************************************************************************)
\* Types, whatever the application calls.
THEOREM TypeCorrect == Spec => []TypeOK
<1>1. Inv => TypeOK
  BY DEF Inv, Basics
<1> QED BY <1>1, Invariance, PTL

\* No library function comes back to a connection Socket that was deleted, or
\* to a place of the vector that holds another one, whichever connections the
\* handlers close, and take out of the vector, behind it.
THEOREM FramesStaySound == Spec => []NoDanglingFrame
<1>1. Inv => NoDanglingFrame
  <2> SUFFICES ASSUME Inv, ~undermined, NEW k \in 1..Len(stack) PROVE Sound(stack[k])
    BY DEF NoDanglingFrame
  <2>1. FrameOK(stack[k])
    BY DEF Inv, Safe, StackInv, FramesOf
  <2> QED BY <2>1 DEF FrameOK
<1> QED BY <1>1, Invariance, PTL

\* The vector holds each connection once and at rest exactly the living ones.
THEOREM VectorOwns == Spec => [](~undermined => VectorOwnsConnections)
<1>1. Inv => (~undermined => VectorOwnsConnections)
  <2> SUFFICES ASSUME Inv, ~undermined PROVE VectorOwnsConnections
    OBVIOUS
  <2> QED BY Idle DEF Inv, Safe, NoneTwice, VectorOwnsConnections, From
<1> QED BY <1>1, Invariance, PTL

\* accept() never makes more connections than maxConnections.
THEOREM BoundKept == Spec => []NotAboveMax
<1>1. Inv => NotAboveMax
  BY DEF Inv, Basics
<1> QED BY <1>1, Invariance, PTL

\* accept() starts with an address object no living connection refers to.
THEOREM ScratchFree == Spec => [](~undermined => ScratchNotShared)
<1>1. Inv => (~undermined => ScratchNotShared)
  BY Idle DEF Inv, ScratchNotShared
<1> QED BY <1>1, Invariance, PTL

\* One walk of update() polls every connection of the vector once, although
\* handlers close connections and erase later ones while it walks.
THEOREM WalkPollsOnce == Spec => [](~undermined => PolledOncePerWalk)
<1>1. Inv => (~undermined => PolledOncePerWalk)
  <2> SUFFICES ASSUME Inv, ~undermined, TopIs("walk"), NEW k \in 1..Len(connections)
               PROVE  connections[k] \in polled <=> k < Head(stack).i
    BY DEF PolledOncePerWalk
  <2>1. Head(stack) \in FramesOf(stack) /\ Head(stack).op = "walk"
    BY Pop DEF TopIs, Inv, Basics, TypeOK
  <2>2. FrameOK(Head(stack))
    BY <2>1 DEF Inv, Safe, StackInv
  <2> QED BY <2>1, <2>2 DEF FrameOK
<1> QED BY <1>1, Invariance, PTL

\* On Windows the WinSock library is started once for each implementation.
THEOREM WinSockStarted == Spec => [](~undermined => WinSockCounted)
<1>1. Inv => (~undermined => WinSockCounted)
  BY DEF Inv, Safe
<1> QED BY <1>1, Invariance, PTL

\* Whoever releases a connection has closed it before.
LEMMA ReleasedClosed ==
  ASSUME Basics, Next, NEW c \in alive, c \notin alive'
  PROVE  connState[c] = "sClose"
<1>1. CASE DoCloseTail \/ DoAllTail \/ DoGone
  <2>1. /\ stack # <<>> /\ Releases(Head(stack)) /\ alive' = alive \ {Head(stack).c}
    BY <1>1 DEF DoCloseTail, DoAllTail, DoGone, Resumes, TopIs, Release, Releases
  <2> QED BY <2>1, BasicTail
<1>2. CASE DoAfterUpdate
  <2> DEFINE d == connections[Head(stack).i]
  <2>1. connState[d] = "sClose" /\ alive' = alive \ {d}
    BY <1>2 DEF DoAfterUpdate, Release
  <2> QED BY <2>1
<1>3. ASSUME UNCHANGED alive PROVE FALSE
  BY <1>3
<1>4. CASE CallListen \/ CallClose \/ CallCloseOne \/ CallCloseConnection \/ CallCloseAll
           \/ CallDelete \/ Construct
  BY <1>3, <1>4 DEF CallListen, CallClose, CallCloseOne, CallCloseConnection,
     CloseConnection, CallCloseAll, CallDelete, Construct, CloseServer, CloseConn,
     BindAndListen
<1>5. CASE HandlerReturn \/ DoClose \/ DoOpen \/ DoConnClose \/ DoAccepted
  BY <1>3, <1>5 DEF HandlerReturn, DoClose, DoOpen, DoConnClose, DoAccepted,
     CloseServer, CloseConn, BindAndListen
<1>6. CASE DoCloseAll \/ DoDismantle \/ DoWalk \/ DoImplGone
  BY <1>3, <1>6 DEF DoCloseAll, DoDismantle, DoWalk, DoImplGone, CloseConn
<1>7. CASE Update
  BY <1>3, <1>7 DEF Update, AcceptOk, AcceptError, NoAccept
<1> QED BY <1>1, <1>2, <1>4, <1>5, <1>6, <1>7 DEF Next, Continue

\* A connection Socket is deleted only after it was closed, whether update(),
\* closeConnection(), closeAllConnections() or the destructor releases it, and
\* whatever the application calls on the way.
THEOREM ReleaseAfterClose == Spec => DeletedOnlyWhenClosed
<1>1. Inv /\ [Next]_vars
        => [\A c \in alive : c \notin alive' => connState[c] = "sClose"]_vars
  BY ReleasedClosed DEF Inv
<1> QED BY <1>1, Invariance, PTL DEF Spec, DeletedOnlyWhenClosed

(***************************************************************************)
(* The refinement of ConnectionPool.  A step of the server changes its     *)
(* phase, or one living connection, or neither.                            *)
(***************************************************************************)
LEMMA PhaseStep ==
  ASSUME UNCHANGED <<alive, connState>>, state = "deleted" => state' = "deleted"
  PROVE  [Pool!Next]_(Pool!poolVars)
<1>1. UNCHANGED <<Connected, Closed>>
  BY DEF Connected, Closed
<1>2. /\ Phase \in {"idle", "listening", "deleted"}
      /\ Phase' \in {"idle", "listening", "deleted"}
      /\ Phase = "deleted" => Phase' = "deleted"
  BY DEF Phase
<1> QED BY <1>1, <1>2
        DEF Pool!Next, Pool!poolVars, Pool!Listen, Pool!Stop, Pool!Delete

\* What closing one connection means to the sets of the living ones.
LEMMA ConnCloseStep ==
  ASSUME Basics, NEW c \in Conns, connState' = [connState EXCEPT ![c] = "sClose"],
         UNCHANGED <<state, alive>>
  PROVE  [Pool!Next]_(Pool!poolVars)
<1>1. connState \in [Conns -> ConnStates] /\ alive \subseteq Conns
  BY DEF Basics, TypeOK
<1>2. UNCHANGED Phase
  BY DEF Phase
<1>3. CASE c \in Connected
  <2>1. Connected' = Connected \ {c} /\ Closed' = Closed \cup {c}
    BY <1>1, <1>3 DEF Connected, Closed, ConnStates
  <2>2. Pool!Close(c)
    BY <1>2, <1>3, <2>1 DEF Pool!Close
  <2> QED BY <2>2 DEF Pool!Next
<1>4. CASE c \notin Connected
  <2>1. Connected' = Connected /\ Closed' = Closed
    BY <1>1, <1>4 DEF Connected, Closed, ConnStates
  <2> QED BY <1>2, <2>1 DEF Pool!poolVars
<1> QED BY <1>3, <1>4

LEMMA ConnReleaseStep ==
  ASSUME Basics, NEW c, c \in alive => connState[c] = "sClose", alive' = alive \ {c},
         UNCHANGED <<state, connState>>
  PROVE  [Pool!Next]_(Pool!poolVars)
<1>1. alive \subseteq Conns
  BY DEF Basics, TypeOK
<1>2. UNCHANGED <<Phase, Connected>> /\ Closed' = Closed \ {c}
  BY DEF Phase, Connected, Closed
<1>3. CASE c \in alive
  <2>1. c \in Closed /\ c \in Conns
    BY <1>1, <1>3 DEF Closed
  <2>2. Pool!Release(c)
    BY <1>2, <2>1 DEF Pool!Release
  <2> QED BY <2>1, <2>2 DEF Pool!Next
<1>4. CASE c \notin alive
  <2>1. Closed' = Closed
    BY <1>2, <1>4 DEF Closed
  <2> QED BY <1>2, <2>1 DEF Pool!poolVars
<1> QED BY <1>3, <1>4

\* The vector is as long as there are living connections, so its limit is one
\* on them.
LEMMA VectorCounts ==
  ASSUME Basics, alive = From(1)
  PROVE  Cardinality(alive) <= Len(connections)
<1>1. connections \in Seq(Conns) /\ Len(connections) \in Nat
  BY LenProperties DEF Basics, TypeOK
<1> DEFINE I == 1..Len(connections)
           f == [k \in I |-> connections[k]]
<1>2. IsFiniteSet(I) /\ Cardinality(I) = Len(connections)
  <2>1. 1 \in Int /\ Len(connections) \in Int
    BY <1>1
  <2>2. /\ IsFiniteSet(I)
        /\ Cardinality(I) = IF 1 > Len(connections) THEN 0 ELSE Len(connections) - 1 + 1
    BY <2>1, FS_Interval, Zenon
  <2> HIDE DEF I
  <2> QED BY <1>1, <2>2
<1>3. f \in Surjection(I, alive)
  BY DEF Surjection, From
<1> HIDE DEF f, I
<1>4. Cardinality(alive) <= Cardinality(I)
  BY <1>2, <1>3, FS_Surjection
<1> QED BY <1>2, <1>4

LEMMA AcceptStep ==
  ASSUME Basics, Safe, stack = <<>>, NEW c \in Conns, AcceptOk(c)
  PROVE  [Pool!Next]_(Pool!poolVars)
<1>1. /\ state = "sListening" /\ Len(connections) < MaxConnections
      /\ c \notin alive /\ alive' = alive \cup {c}
      /\ connState' = [connState EXCEPT ![c] = "sConnected"] /\ UNCHANGED state
  BY DEF AcceptOk, HasRoom
<1>2. connState \in [Conns -> ConnStates] /\ alive \subseteq Conns
      /\ Len(connections) \in Nat
  BY LenProperties DEF Basics, TypeOK
<1>3. Cardinality(alive) < MaxConnections
  <2>1. Cardinality(alive) <= Len(connections)
    BY Idle, VectorCounts
  <2>2. Cardinality(alive) \in Nat
    BY FS_CardinalityType DEF Safe
  <2> QED BY <1>1, <1>2, <2>1, <2>2, MaxAssumption
<1>4. Connected \cup Closed = alive
  BY <1>2 DEF Connected, Closed, ConnStates
<1>5. Connected' = Connected \cup {c} /\ UNCHANGED Closed
  BY <1>1, <1>2 DEF Connected, Closed
<1>6. Phase = "listening" /\ UNCHANGED Phase
  BY <1>1 DEF Phase
<1>7. Pool!Cardinality(alive) = Cardinality(alive)
  BY DEF Pool!Cardinality, Cardinality
<1>8. Pool!Accept(c)
  BY <1>1, <1>3, <1>4, <1>5, <1>6, <1>7 DEF Pool!Accept
<1> QED BY <1>8 DEF Pool!Next

\* A library function that goes on has its frame on the stack.
LEMMA FrameNeeded ==
  ASSUME HandlerReturn \/ Continue
  PROVE  stack # <<>>
<1>1. CASE HandlerReturn \/ DoClose \/ DoOpen \/ DoConnClose \/ DoAccepted \/ DoCloseTail
  BY <1>1 DEF HandlerReturn, DoClose, DoOpen, DoConnClose, DoAccepted, DoCloseTail,
     Resumes, TopIs
<1>2. CASE DoCloseAll \/ DoAllTail \/ DoWalk \/ DoAfterUpdate \/ DoImplGone
  BY <1>2 DEF DoCloseAll, DoAllTail, DoWalk, DoAfterUpdate, DoImplGone, Resumes, TopIs
<1>3. CASE DoDismantle \/ DoGone
  BY <1>3 DEF DoDismantle, DoGone, Resumes, TopIs
<1> QED BY <1>1, <1>2, <1>3 DEF Continue

\* A deleted server opens nothing and stays deleted.
LEMMA DeletedStays ==
  ASSUME Basics, Safe, Next, state = "deleted"
  PROVE  Construct \/ state' = "deleted"
<1>1. sock = "none"
  BY DEF Safe
<1>2. ASSUME NEW rest, CloseServer(rest) PROVE state' = "deleted"
  BY <1>1, <1>2 DEF CloseServer
<1>3. CASE CallListen \/ CallClose \/ CallDelete \/ DoClose
  BY <1>2, <1>3 DEF CallListen, CallClose, CallDelete, DoClose
<1>4. ~DoOpen
  <2>1. TopIs("open") => Head(stack) \in FramesOf(stack)
    BY Pop DEF TopIs, Safe, StackInv
  <2> QED BY <2>1 DEF DoOpen, TopIs, Safe, StackInv
<1>5. CASE CallCloseOne \/ CallCloseConnection \/ CallCloseAll \/ HandlerReturn
           \/ DoConnClose \/ DoAccepted \/ DoCloseTail
  BY <1>5 DEF CallCloseOne, CallCloseConnection, CloseConnection, CallCloseAll,
     HandlerReturn, DoConnClose, DoAccepted, DoCloseTail, CloseConn
<1>6. CASE DoCloseAll \/ DoAllTail \/ DoWalk \/ DoAfterUpdate \/ DoImplGone
           \/ DoDismantle \/ DoGone
  BY <1>6 DEF DoCloseAll, DoAllTail, DoWalk, DoAfterUpdate, DoImplGone, DoDismantle,
     DoGone, CloseConn
<1>7. ~Update
  BY DEF Update
<1> QED BY <1>3, <1>4, <1>5, <1>6, <1>7 DEF Next, Continue

\* Every step is one of the promise, or leaves what it speaks of alone.
LEMMA StepImplements ==
  ASSUME Basics, Safe, Next
  PROVE  [Pool!Next]_(Pool!poolVars)
<1>1. state = "deleted" => Construct \/ state' = "deleted"
  BY DeletedStays
<1>2. stack \in Seq(Frames) /\ alive \subseteq Conns /\ connections \in Seq(Conns)
  BY DEF Basics, TypeOK
<1>3. ASSUME ~Construct, UNCHANGED <<alive, connState>>
      PROVE  [Pool!Next]_(Pool!poolVars)
  BY <1>1, <1>3, PhaseStep
<1>4. ASSUME NEW c \in Conns, NEW rest, CloseConn(c, rest)
      PROVE  [Pool!Next]_(Pool!poolVars)
  BY <1>4, ConnCloseStep DEF CloseConn
<1>5. ASSUME stack # <<>>, Releases(Head(stack)), Release(Head(stack).c),
             UNCHANGED <<state, connState>>
      PROVE  [Pool!Next]_(Pool!poolVars)
  <2>1. connState[Head(stack).c] = "sClose"
    BY <1>5, BasicTail
  <2> QED BY <1>5, <2>1, ConnReleaseStep DEF Release
<1>6. CASE CallListen \/ CallClose \/ CallCloseAll \/ CallDelete \/ DoClose
  <2>1. UNCHANGED <<alive, connState>>
    BY <1>6 DEF CallListen, CallClose, CallCloseAll, CallDelete, DoClose, CloseServer,
       BindAndListen
  <2>2. ~Construct
    BY <1>6, CallsAssumption DEF CallListen, CallClose, CallCloseAll, CallDelete, DoClose,
       Construct, MayCall, TopIs
  <2> QED BY <1>3, <2>1, <2>2
<1>7. CASE HandlerReturn \/ DoOpen \/ DoAccepted \/ DoImplGone \/ DoWalk
  <2>1. ~Construct
    BY <1>7, FrameNeeded DEF Construct, Continue
  <2>2. UNCHANGED <<alive, connState>>
    BY <1>7 DEF HandlerReturn, DoOpen, BindAndListen, DoAccepted, DoImplGone, DoWalk
  <2> QED BY <1>3, <2>1, <2>2
<1>8. CASE CallCloseOne \/ CallCloseConnection
  <2>1. CASE CallCloseOne
    BY <1>2, <1>4, <2>1 DEF CallCloseOne
  <2>2. CASE CallCloseConnection
    <3>1. PICK i \in 1..Len(connections) : CloseConnection(i)
      BY <2>2 DEF CallCloseConnection
    <3>2. connections[i] \in Conns
      BY <1>2, ElementOfSeq
    <3> QED BY <1>4, <3>1, <3>2 DEF CloseConnection
  <2> QED BY <1>8, <2>1, <2>2
<1>9. CASE DoConnClose
  <2>1. stack # <<>> /\ Head(stack).op = "connClose"
        /\ CloseConn(Head(stack).c, Tail(stack))
    BY <1>9 DEF DoConnClose, Resumes, TopIs
  <2>2. Head(stack).c \in Conns
    BY <2>1, BasicTail, FrameFields
  <2> QED BY <1>4, <2>1, <2>2
<1>10. CASE DoCloseAll \/ DoDismantle
  <2>1. ~Construct
    BY <1>10 DEF DoCloseAll, DoDismantle, TopIs, Construct
  <2> QED BY <1>3, <1>4, <1>10, <2>1, NextRelease
<1>11. CASE DoCloseTail \/ DoAllTail \/ DoGone
  <2>1. /\ stack # <<>> /\ Releases(Head(stack)) /\ Release(Head(stack).c)
        /\ UNCHANGED <<state, connState>>
    BY <1>11 DEF DoCloseTail, DoAllTail, DoGone, Resumes, TopIs, Releases
  <2> QED BY <1>5, <2>1
<1>12. CASE DoAfterUpdate
  <2> DEFINE c == connections[Head(stack).i]
  <2>1. CASE connState[c] = "sClose"
    <3>1. alive' = alive \ {c} /\ UNCHANGED <<state, connState>>
      BY <1>12, <2>1 DEF DoAfterUpdate, Release
    <3> HIDE DEF c
    <3> QED BY <2>1, <3>1, ConnReleaseStep
  <2>2. CASE connState[c] # "sClose"
    <3>1. UNCHANGED <<alive, connState>>
      BY <1>12, <2>2 DEF DoAfterUpdate
    <3>2. ~Construct
      BY <1>12, FrameNeeded DEF Construct, Continue
    <3> QED BY <1>3, <3>1, <3>2
  <2> QED BY <2>1, <2>2
<1>13. CASE Update
  <2>1. stack = <<>> /\ state # "deleted"
    BY <1>13 DEF Update
  <2>2. CASE \E c \in Conns : AcceptOk(c)
    BY <2>1, <2>2, AcceptStep
  <2>3. CASE AcceptError \/ NoAccept
    <3>1. UNCHANGED <<alive, connState>>
      BY <2>3 DEF AcceptError, NoAccept
    <3> QED BY <1>3, <2>1, <3>1 DEF Construct
  <2> QED BY <1>13, <2>2, <2>3 DEF Update
<1>14. CASE Construct
  <2>1. /\ stack = <<>> /\ state = "deleted" /\ state' = "sClose"
        /\ UNCHANGED <<alive, connState>>
    BY <1>14 DEF Construct
  <2>2. alive = From(1) /\ Len(connections) = 0
    BY <2>1, Idle, Empty
  <2>3. alive = {}
    BY <2>2 DEF From
  <2>4. /\ Phase = "deleted" /\ Phase' = "idle" /\ Connected \cup Closed = {}
        /\ UNCHANGED <<Connected, Closed>>
    BY <2>1, <2>3 DEF Phase, Connected, Closed
  <2>5. Pool!Construct
    BY <2>4 DEF Pool!Construct
  <2> QED BY <2>5 DEF Pool!Next
<1> QED BY <1>6, <1>7, <1>8, <1>9, <1>10, <1>11, <1>12, <1>13, <1>14 DEF Next, Continue

\* A server implements the safety part of ConnectionPool up to the first call
\* that undermines a frame, whatever else the main loop and the handlers call:
\* no connection is taken on beyond maxConnections or by a server that does not
\* listen or is being destroyed, none is released before it is closed, and a
\* destroyed server leaves none.
THEOREM ImplementsPool ==
  Spec => Pool!Init /\ [][undermined \/ Pool!Next]_(Pool!poolVars)
<1>1. Init => Pool!Init
  <2> SUFFICES ASSUME Init PROVE Pool!Init
    OBVIOUS
  <2>1. state = "sClose" /\ alive = {}
    BY DEF Init
  <2> QED BY <2>1 DEF Pool!Init, Phase, Connected, Closed
<1>2. Inv /\ [Next]_vars => [undermined \/ Pool!Next]_(Pool!poolVars)
  <2> SUFFICES ASSUME Inv, [Next]_vars, ~undermined
               PROVE  [Pool!Next]_(Pool!poolVars)
    OBVIOUS
  <2>1. CASE Next
    BY <2>1, StepImplements DEF Inv
  <2>2. CASE UNCHANGED vars
    BY <2>2 DEF vars, Pool!poolVars, Phase, Connected, Closed
  <2> QED BY <2>1, <2>2
<1> QED BY <1>1, <1>2, Invariance, PTL DEF Spec
=============================================================================
