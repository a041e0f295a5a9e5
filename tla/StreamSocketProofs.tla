------------------------- MODULE StreamSocketProofs -------------------------
(***************************************************************************)
(* Proofs about StreamSocket, for every set of protocols and of calls, all *)
(* timeouts and every depth of re-entrancy.                                *)
(***************************************************************************)
EXTENDS StreamSocket, SequenceTheorems, TLAPS

USE DEF config

(***************************************************************************)
(* Frames and sequences of frames.                                         *)
(***************************************************************************)
\* Every frame the actions push is one of Frames.
LEMMA FrameTypes ==
  /\ \A ev \in Events : Handler(ev) \in Frames
  /\ \A err \in BOOLEAN : Closing(err) \in Frames
  /\ \A p \in {-1, 4, 6}, c \in BOOLEAN : Opening(p, c) \in Frames
  /\ Connecting \in Frames /\ AfterRecv \in Frames /\ UpdateEnd \in Frames
  BY DEF Handler, Closing, Opening, Connecting, AfterRecv, UpdateEnd, Frames

\* What tells the frames apart.
LEMMA FrameOps ==
  /\ \A ev : Handler(ev).op = "handler" /\ Handler(ev).ev = ev
  /\ \A err : Closing(err).op = "close" /\ Closing(err).hasError = err
  /\ \A p, c : Opening(p, c).op = "open"
  /\ Connecting.op = "connect" /\ AfterRecv.op = "afterRecv"
  /\ UpdateEnd.op = "updateEnd"
  BY DEF Handler, Closing, Opening, Connecting, AfterRecv, UpdateEnd

\* Pushing one frame gives a stack again, and shifts the others by one.
LEMMA PushOne ==
  ASSUME NEW f \in Frames, NEW s \in Seq(Frames)
  PROVE  /\ <<f>> \o s \in Seq(Frames)
         /\ Len(<<f>> \o s) = Len(s) + 1
         /\ \A i \in 1..(Len(s) + 1) : (<<f>> \o s)[i] = IF i = 1 THEN f ELSE s[i - 1]
<1>1. <<f>> \in Seq(Frames) /\ Len(<<f>>) = 1 /\ <<f>>[1] = f
  OBVIOUS
<1> QED BY <1>1, ConcatProperties

\* Popping the top frame gives a stack again.
LEMMA PopOne ==
  ASSUME NEW s \in Seq(Frames), s # <<>>
  PROVE  /\ Head(s) \in Frames /\ Tail(s) \in Seq(Frames)
         /\ Head(s) = s[1] /\ Len(s) \in Nat /\ Len(s) > 0
         /\ Len(Tail(s)) = Len(s) - 1
         /\ \A i \in 1..(Len(s) - 1) : Tail(s)[i] = s[i + 1]
<1>1. Head(s) = s[1] /\ Len(s) > 0
  OBVIOUS
<1> QED BY <1>1, HeadTailProperties, LenProperties

\* Pushing up to three frames on a stack gives a stack.
LEMMA PushTypes ==
  ASSUME NEW s \in Seq(Frames), NEW f \in Frames, NEW g \in Frames, NEW h \in Frames
  PROVE  /\ <<f>> \o s \in Seq(Frames)
         /\ <<f, g>> \o s \in Seq(Frames)
         /\ <<f, g, h>> \o s \in Seq(Frames)
<1>1. <<f>> \in Seq(Frames) /\ <<f, g>> \in Seq(Frames) /\ <<f, g, h>> \in Seq(Frames)
  OBVIOUS
<1> QED BY <1>1, ConcatProperties

(***************************************************************************)
(* Type correctness.                                                       *)
(***************************************************************************)
\* The part of TypeOK that the operators with an argument `rest` touch.
LEMMA CloseImplType ==
  ASSUME TypeOK, NEW rest \in Seq(Frames), CloseImpl(rest)
  PROVE  /\ state' \in StateTypes /\ elapsed' \in 0..MaxElapsed
         /\ updating' \in {"none", "live", "deleted"} /\ sock' \in SockStates
         /\ closeDue' \in BOOLEAN /\ stack' \in Seq(Frames)
         /\ UNCHANGED <<protocol, errorCode, internalError, lost>>
<1>1. 0 \in 0..MaxElapsed
  BY TimeoutAssumption DEF MaxElapsed
<1>2. <<Handler("sClose")>> \o rest \in Seq(Frames)
  BY FrameTypes, PushTypes DEF Events
<1> QED BY <1>1, <1>2 DEF TypeOK, CloseImpl, SetState, NewState, StateTypes,
          SockStates, stateVars

LEMMA StartConnectType ==
  ASSUME TypeOK, NEW rest \in Seq(Frames), StartConnect(rest)
  PROVE  /\ state' \in StateTypes /\ elapsed' \in 0..MaxElapsed
         /\ updating' \in {"none", "live", "deleted"} /\ sock' \in SockStates
         /\ errorCode' \in Errnos \cup {"none"}
         /\ internalError' \in {"uninitialised", "InternalNone", "SocketInvalid"}
         /\ stack' \in Seq(Frames) /\ UNCHANGED protocol
<1>1. 0 \in 0..MaxElapsed
  BY TimeoutAssumption DEF MaxElapsed
<1>2. <<Handler("sConnected")>> \o rest \in Seq(Frames)
  BY FrameTypes, PushTypes DEF Events
<1> QED BY <1>1, <1>2 DEF TypeOK, StartConnect, NewState, SetError, StateTypes,
          SockStates, Errnos, stateVars, implVars

LEMMA TypeInit == Init => TypeOK
<1> SUFFICES ASSUME Init PROVE TypeOK
  OBVIOUS
<1>1. stack \in Seq(Frames)
  BY EmptySeq DEF Init
<1>2. elapsed \in 0..MaxElapsed
  BY TimeoutAssumption DEF Init, MaxElapsed
<1>3. state \in StateTypes /\ sock \in SockStates /\ protocol \in {4, 6}
      /\ connectTimeoutSecs \in {-1, ConnectTimeout}
  BY DEF Init, StateTypes, SockStates
<1> QED BY <1>1, <1>2, <1>3 DEF Init, TypeOK

\* A call of the application keeps the types.
LEMMA CallTypes ==
  ASSUME TypeOK,
         CallConnect \/ CallCreate \/ CallClose \/ CallSend \/ CallSetIOTimeout
  PROVE  TypeOK'
<1> USE DEF vars
<1>0. stack \in Seq(Frames)
  BY DEF TypeOK
<1>1. ASSUME NEW p \in Protocols \cup {-1}, NEW c \in BOOLEAN, Create(p, c),
             UNCHANGED <<config, ioTimeoutSecs>>
      PROVE  TypeOK'
  <2>1. <<Closing(FALSE), Opening(p, c)>> \o stack \in Seq(Frames)
    BY <1>0, ProtocolsAssumption, FrameTypes, PushTypes
  <2>2. CloseImpl(<<Closing(FALSE), Opening(p, c)>> \o stack)
    BY <1>1 DEF Create
  <2> QED BY <1>1, <2>1, <2>2, CloseImplType DEF TypeOK
<1>2. CASE CallConnect
  <2>1. PICK p \in Protocols :
          \/ Create(p, TRUE)
          \/ StartConnect(stack) /\ UNCHANGED <<closeDue, lost>>
    BY <1>2 DEF CallConnect
  <2>2. UNCHANGED <<config, ioTimeoutSecs>>
    BY <1>2 DEF CallConnect
  <2>3. CASE Create(p, TRUE)
    BY <1>1, <2>2, <2>3
  <2>4. CASE StartConnect(stack) /\ UNCHANGED <<closeDue, lost>>
    BY <1>0, <2>2, <2>4, StartConnectType DEF TypeOK
  <2> QED BY <2>1, <2>3, <2>4
<1>3. CASE CallCreate
  BY <1>1, <1>3 DEF CallCreate
<1>4. CASE CallClose
  BY <1>0, <1>4, CloseImplType DEF CallClose, TypeOK
<1>5. CASE CallSend
  BY <1>5 DEF CallSend, SetError, TypeOK, stateVars, Errnos
<1>6. CASE CallSetIOTimeout
  BY <1>6 DEF CallSetIOTimeout, TypeOK, stateVars, implVars
<1> QED BY <1>2, <1>3, <1>4, <1>5, <1>6

\* The return of a handler and the continuations keep the types.
LEMMA ContinueTypes ==
  ASSUME TypeOK, HandlerReturn \/ Continue
  PROVE  TypeOK'
<1>1. stack \in Seq(Frames) /\ stack # <<>>
  BY DEF TypeOK, HandlerReturn, Continue, DoClose, DoOpen, DoConnect, DoAfterRecv,
     DoUpdateEnd, TopIs
<1>2. Head(stack) \in Frames /\ Tail(stack) \in Seq(Frames)
  BY <1>1, PopOne
<1>3. 0 \in 0..MaxElapsed
  BY TimeoutAssumption DEF MaxElapsed
<1>4. CASE HandlerReturn
  BY <1>2, <1>4 DEF HandlerReturn, TypeOK, stateVars, implVars
<1>5. CASE DoClose
  BY <1>2, <1>5, CloseImplType DEF DoClose, TypeOK
<1>6. CASE DoOpen
  <2>1. Head(stack).protocol \in {-1, 4, 6}
    BY <1>2, <1>6 DEF DoOpen, TopIs, Frames
  <2>2. protocol' \in {4, 6}
    BY <1>6, <2>1 DEF DoOpen, Resolve, TypeOK
  <2>3. <<Connecting>> \o Tail(stack) \in Seq(Frames)
    BY <1>2, FrameTypes, PushTypes
  <2> QED BY <1>2, <1>3, <1>6, <2>2, <2>3
            DEF DoOpen, TypeOK, SetState, NewState, stateVars, StateTypes, SockStates
<1>7. CASE DoConnect
  BY <1>2, <1>7, StartConnectType DEF DoConnect, TypeOK
<1>8. CASE DoAfterRecv
  BY <1>2, <1>3, <1>8 DEF DoAfterRecv, TypeOK, implVars
<1>9. CASE DoUpdateEnd
  BY <1>2, <1>9 DEF DoUpdateEnd, TypeOK, implVars
<1> QED BY <1>4, <1>5, <1>6, <1>7, <1>8, <1>9 DEF Continue

\* update() keeps the types.
LEMMA UpdateTypes ==
  ASSUME TypeOK, Update
  PROVE  TypeOK'
<1>1. 0 \in 0..MaxElapsed
  BY TimeoutAssumption DEF MaxElapsed
<1>2. \A f, g, h \in Frames : <<f>> \in Seq(Frames) /\ <<f, g>> \in Seq(Frames)
                             /\ <<f, g, h>> \in Seq(Frames)
  OBVIOUS
<1>3. \A rest \in Seq(Frames) : EmitError(rest) \in Seq(Frames)
  BY FrameTypes, PushTypes DEF EmitError, Events
<1>4. CASE UpdateConnectExpired
  BY <1>1, <1>2, <1>4, FrameTypes
     DEF UpdateConnectExpired, TypeOK, StateTypes, implVars
<1>5. CASE UpdateConnectPending
  BY <1>2, <1>5, FrameTypes DEF UpdateConnectPending, TypeOK, implVars
<1>6. CASE UpdateConnectOk
  BY <1>1, <1>2, <1>6, FrameTypes
     DEF UpdateConnectOk, TypeOK, StateTypes, SockStates, ErrorRead, Events
<1>7. CASE UpdateConnectFailed
  <2>1. errorCode' \in Errnos /\ internalError' = "InternalNone"
    BY <1>7 DEF UpdateConnectFailed, CheckErrors, RecordError, SetError, Errnos
  <2>2. stack' \in Seq(Frames)
    BY <1>2, <1>3, <1>7, FrameTypes DEF UpdateConnectFailed
  <2> QED BY <1>1, <1>7, <2>1, <2>2
            DEF UpdateConnectFailed, TypeOK, StateTypes, SockStates, ErrorRead
<1>8. CASE UpdateRecv
  <2>1. <<Handler("sData"), AfterRecv>> \in Seq(Frames)
        /\ <<Closing(FALSE), AfterRecv>> \in Seq(Frames)
        /\ <<Closing(TRUE), AfterRecv>> \in Seq(Frames)
        /\ <<AfterRecv>> \in Seq(Frames)
    BY <1>2, FrameTypes DEF Events
  <2>2. stack' \in Seq(Frames)
    BY <1>3, <1>8, <2>1 DEF UpdateRecv
  <2> QED BY <1>8, <2>2 DEF UpdateRecv, TypeOK, SetError, Errnos
<1>9. CASE UpdateIdle
  <2>1. stack' \in Seq(Frames)
    BY <1>2, <1>9, FrameTypes DEF UpdateIdle, Events
  <2> QED BY <1>9, <2>1 DEF UpdateIdle, TypeOK, implVars
<1> QED BY <1>4, <1>5, <1>6, <1>7, <1>8, <1>9 DEF Update

LEMMA TypeNext == TypeOK /\ [Next]_vars => TypeOK'
<1> SUFFICES ASSUME TypeOK, [Next]_vars
             PROVE  TypeOK'
  OBVIOUS
<1>1. CASE CallConnect \/ CallCreate \/ CallClose \/ CallSend \/ CallSetIOTimeout
  BY <1>1, CallTypes
<1>2. CASE HandlerReturn \/ Continue
  BY <1>2, ContinueTypes
<1>3. CASE Update
  BY <1>3, UpdateTypes
<1>4. CASE Handshake
  BY <1>4 DEF Handshake, TypeOK, SockStates, stateVars
<1>5. CASE Tick
  BY <1>5, TimeoutAssumption DEF Tick, TypeOK, MaxElapsed, implVars
<1>6. CASE UNCHANGED vars
  BY <1>6 DEF vars, stateVars, implVars, TypeOK
<1> QED BY <1>1, <1>2, <1>3, <1>4, <1>5, <1>6 DEF Next

\* Every variable keeps its type; the stack holds only frames of the library
\* and of handlers, however deep the handlers re-enter the Socket.
THEOREM TypeCorrect == Spec => []TypeOK
  BY TypeInit, TypeNext, PTL DEF Spec

(***************************************************************************)
(* The set of frames of a stack.                                           *)
(***************************************************************************)
\* The frames of two stacks put together are those of either.
LEMMA FramesConcat ==
  ASSUME NEW r \in Seq(Frames), NEW s \in Seq(Frames)
  PROVE  FramesOf(r \o s) = FramesOf(r) \cup FramesOf(s)
<1>1. /\ Len(r) \in Nat /\ Len(s) \in Nat /\ Len(r \o s) = Len(r) + Len(s)
      /\ \A i \in 1..(Len(r) + Len(s)) :
           (r \o s)[i] = IF i <= Len(r) THEN r[i] ELSE s[i - Len(r)]
  BY ConcatProperties, LenProperties
<1>2. ASSUME NEW f \in FramesOf(r \o s) PROVE f \in FramesOf(r) \cup FramesOf(s)
  <2>1. PICK i \in 1..(Len(r) + Len(s)) : f = (r \o s)[i]
    BY <1>1, <1>2 DEF FramesOf
  <2>2. CASE i <= Len(r)
    BY <1>1, <2>1, <2>2 DEF FramesOf
  <2>3. CASE i > Len(r)
    <3>1. f = s[i - Len(r)] /\ i - Len(r) \in 1..Len(s)
      BY <1>1, <2>1, <2>3
    <3> QED BY <3>1 DEF FramesOf
  <2> QED BY <1>1, <2>1, <2>2, <2>3
<1>3. ASSUME NEW f \in FramesOf(r) PROVE f \in FramesOf(r \o s)
  <2>1. PICK i \in 1..Len(r) : f = r[i]
    BY <1>3 DEF FramesOf
  <2>2. i \in 1..(Len(r) + Len(s)) /\ (r \o s)[i] = f
    BY <1>1, <2>1
  <2> QED BY <1>1, <2>2 DEF FramesOf
<1>4. ASSUME NEW f \in FramesOf(s) PROVE f \in FramesOf(r \o s)
  <2>1. PICK i \in 1..Len(s) : f = s[i]
    BY <1>4 DEF FramesOf
  <2>2. i + Len(r) \in 1..(Len(r) + Len(s)) /\ (r \o s)[i + Len(r)] = f
    BY <1>1, <2>1
  <2> QED BY <1>1, <2>2 DEF FramesOf
<1> QED BY <1>2, <1>3, <1>4

\* The frames of a stack are its top and those of the rest.
LEMMA FramesPop ==
  ASSUME NEW s \in Seq(Frames), s # <<>>
  PROVE  FramesOf(s) = {Head(s)} \cup FramesOf(Tail(s))
<1>1. /\ Head(s) = s[1] /\ Len(s) \in Nat /\ Len(s) > 0
      /\ Len(Tail(s)) = Len(s) - 1
      /\ \A i \in 1..(Len(s) - 1) : Tail(s)[i] = s[i + 1]
  BY PopOne
<1>2. ASSUME NEW f \in FramesOf(s) PROVE f \in {Head(s)} \cup FramesOf(Tail(s))
  <2>1. PICK i \in 1..Len(s) : f = s[i]
    BY <1>2 DEF FramesOf
  <2>2. CASE i = 1
    BY <1>1, <2>1, <2>2
  <2>3. CASE i > 1
    <3>1. i - 1 \in 1..Len(Tail(s)) /\ Tail(s)[i - 1] = f
      BY <1>1, <2>1, <2>3
    <3> QED BY <3>1 DEF FramesOf
  <2> QED BY <2>1, <2>2, <2>3
<1>3. Head(s) \in FramesOf(s)
  BY <1>1 DEF FramesOf
<1>4. ASSUME NEW f \in FramesOf(Tail(s)) PROVE f \in FramesOf(s)
  <2>1. PICK i \in 1..(Len(s) - 1) : f = Tail(s)[i]
    BY <1>1, <1>4 DEF FramesOf
  <2>2. i + 1 \in 1..Len(s) /\ s[i + 1] = f
    BY <1>1, <2>1
  <2> QED BY <2>2 DEF FramesOf
<1> QED BY <1>2, <1>3, <1>4

\* The frames of the short stacks that the actions push.
LEMMA FramesLit ==
  /\ FramesOf(<<>>) = {}
  /\ \A f : FramesOf(<<f>>) = {f}
  /\ \A f, g : FramesOf(<<f, g>>) = {f, g}
  /\ \A f, g, h : FramesOf(<<f, g, h>>) = {f, g, h}
  BY DEF FramesOf

\* Pushing literally written frames on a stack.
LEMMA FramesPush ==
  ASSUME NEW s \in Seq(Frames), NEW f \in Frames, NEW g \in Frames
  PROVE  /\ FramesOf(<<f>> \o s) = {f} \cup FramesOf(s)
         /\ FramesOf(<<f, g>> \o s) = {f, g} \cup FramesOf(s)
         /\ <<f>> \o s # <<>> /\ <<f, g>> \o s # <<>>
         /\ Head(<<f>> \o s) = f /\ Head(<<f, g>> \o s) = f
         /\ Tail(<<f>> \o s) = s
<1>1. <<f>> \in Seq(Frames) /\ <<f, g>> \in Seq(Frames)
  OBVIOUS
<1>2. FramesOf(<<f>> \o s) = {f} \cup FramesOf(s)
      /\ FramesOf(<<f, g>> \o s) = {f, g} \cup FramesOf(s)
  <2>1. FramesOf(<<f>> \o s) = FramesOf(<<f>>) \cup FramesOf(s)
    BY <1>1, FramesConcat
  <2>2. FramesOf(<<f, g>> \o s) = FramesOf(<<f, g>>) \cup FramesOf(s)
    BY <1>1, FramesConcat
  <2>3. FramesOf(<<f>>) = {f} /\ FramesOf(<<f, g>>) = {f, g}
    BY FramesLit
  <2> QED BY <2>1, <2>2, <2>3
<1>3. <<f>> \o s # <<>> /\ <<f, g>> \o s # <<>>
      /\ Head(<<f>> \o s) = f /\ Head(<<f, g>> \o s) = f
  BY <1>1, ConcatProperties, LenProperties
<1>4. Tail(<<f>> \o s) = s
  BY <1>1, <1>3, PushOne, PopOne, SeqEqual
<1> QED BY <1>2, <1>3, <1>4

(***************************************************************************)
(* The safety invariants.                                                  *)
(***************************************************************************)
\* ReportedErrorIsSet in terms of the set of frames.
LEMMA ReportedAlt ==
  ReportedErrorIsSet <=>
    (~lost /\ Handler("sError") \in FramesOf(stack)
       => errorCode \in Errnos /\ internalError = "InternalNone")
  BY DEF ReportedErrorIsSet, FramesOf

\* Where the application may call, no connect frame is pending.
LEMMA AtCall ==
  ASSUME TypeOK, FdInv, stack = <<>> \/ TopIs("handler")
  PROVE  NoFrame("connect", stack)
<1>1. CASE stack = <<>>
  BY <1>1, FramesLit DEF NoFrame
<1>2. CASE TopIs("handler")
  <2>1. stack \in Seq(Frames) /\ stack # <<>> /\ Head(stack).op # "connect"
    BY <1>2 DEF TopIs, TypeOK
  <2> QED BY <2>1, FramesPop DEF FdInv, NoFrame
<1> QED BY <1>1, <1>2

\* SocketLinux::close keeps the invariants.
LEMMA CloseImplInv ==
  ASSUME Inv, TypeOK', NEW rest \in Seq(Frames), CloseImpl(rest),
         UNCHANGED config, NoFrame("connect", rest),
         Handler("sError") \in FramesOf(rest) => Handler("sError") \in FramesOf(stack)
  PROVE  Inv'
<1>1. Handler("sClose") \in Frames /\ Handler("sClose").op = "handler"
      /\ Handler("sClose") # Handler("sError")
  BY FrameTypes DEF Handler, Events
<1>2. FramesOf(stack') \subseteq {Handler("sClose")} \cup FramesOf(rest)
  BY <1>1, FramesPush DEF CloseImpl
<1>3. NoFrame("connect", stack')
  BY <1>1, <1>2 DEF NoFrame
<1>4. FdInv'
  <2>1. FdMatchesState'
    BY DEF Inv, FdInv, FdMatchesState, CloseImpl, SetState, NewState, stateVars
  <2>2. (~TopIs("connect"))' /\ (stack' # <<>> => NoFrame("connect", Tail(stack')))
    BY <1>3, FramesPop DEF TopIs, NoFrame, TypeOK
  <2> QED BY <2>1, <2>2 DEF FdInv
<1>5. CloseDueInv'
  BY DEF Inv, CloseDueInv, CloseImpl
<1>6. ReportedErrorIsSet'
  <2>1. Handler("sError") \in FramesOf(stack') => Handler("sError") \in FramesOf(stack)
    BY <1>1, <1>2
  <2>2. UNCHANGED <<lost, errorCode, internalError>>
    BY DEF CloseImpl
  <2> QED BY <2>1, <2>2, ReportedAlt DEF Inv, ReportedErrorIsSet, FramesOf
<1>7. ConnectedMeansChecked'
  BY DEF Inv, ConnectedMeansChecked, CloseImpl, SetState, NewState, stateVars
<1> QED BY <1>4, <1>5, <1>6, <1>7 DEF Inv

\* The body of connect() keeps them, called on an open Socket.
LEMMA StartConnectInv ==
  ASSUME Inv, TypeOK', NEW rest \in Seq(Frames), StartConnect(rest),
         UNCHANGED <<closeDue, lost>>,
         state # "sClose",
         NoFrame("connect", rest),
         FramesOf(rest) \subseteq FramesOf(stack),
         \A f \in FramesOf(stack) : f.op = "close" => f \in FramesOf(rest)
  PROVE  Inv'
<1>1. Handler("sConnected") \in Frames /\ Handler("sConnected").op = "handler"
      /\ Handler("sConnected") # Handler("sError")
  BY FrameTypes DEF Handler, Events
<1>2. FramesOf(stack') \subseteq {Handler("sConnected")} \cup FramesOf(rest)
      /\ FramesOf(rest) \subseteq FramesOf(stack')
  BY <1>1, FramesPush DEF StartConnect
<1>3. NoFrame("connect", stack')
  BY <1>1, <1>2 DEF NoFrame
<1>4. (sock' = "none" <=> sock = "none") /\ state' # "sClose"
  BY DEF StartConnect, NewState, stateVars, implVars
<1>5. FdInv'
  <2>1. FdMatchesState'
    BY <1>4 DEF Inv, FdInv, FdMatchesState
  <2>2. (~TopIs("connect"))' /\ (stack' # <<>> => NoFrame("connect", Tail(stack')))
    BY <1>3, FramesPop DEF TopIs, NoFrame, TypeOK
  <2> QED BY <2>1, <2>2 DEF FdInv
<1>6. CloseDueInv'
  <2>1. NoFrame("open", stack) => NoFrame("open", stack')
    BY <1>1, <1>2 DEF NoFrame
  <2>2. ~NoFrame("close", stack) => ~NoFrame("close", stack')
    BY <1>2 DEF NoFrame
  <2> QED BY <1>4, <2>1, <2>2 DEF Inv, CloseDueInv
<1>7. ReportedErrorIsSet'
  <2>1. Handler("sError") \in FramesOf(stack') => Handler("sError") \in FramesOf(stack)
    BY <1>1, <1>2
  <2>2. \/ UNCHANGED <<errorCode, internalError>>
        \/ errorCode' = "EOTHER" /\ internalError' = "InternalNone"
        \/ sock = "none"
    BY DEF StartConnect, SetError, implVars
  <2>3. sock = "none" => lost
    BY DEF Inv, FdInv, FdMatchesState
  <2>4. (~lost /\ Handler("sError") \in FramesOf(stack)
           => errorCode \in Errnos /\ internalError = "InternalNone")'
    BY <2>1, <2>2, <2>3, ReportedAlt DEF Inv, Errnos
  <2> QED BY <2>4 DEF ReportedErrorIsSet, FramesOf
<1>8. ConnectedMeansChecked'
  BY DEF Inv, ConnectedMeansChecked, StartConnect, NewState, stateVars, implVars
<1> QED BY <1>5, <1>6, <1>7, <1>8 DEF Inv

\* Popping a frame that is neither a close nor a connect frame keeps them, as
\* long as the state and the descriptor stay as they are.
LEMMA PopInv ==
  ASSUME Inv, TypeOK', stack # <<>>, stack' = Tail(stack), Head(stack).op # "close",
         UNCHANGED <<state, sock, errorCode, internalError, config, closeDue, lost>>
  PROVE  Inv'
<1>1. stack \in Seq(Frames) /\ FramesOf(stack) = {Head(stack)} \cup FramesOf(stack')
  BY FramesPop DEF Inv, TypeOK
<1>2. NoFrame("connect", stack')
  BY DEF Inv, FdInv
<1>3. FdInv'
  <2>1. (~TopIs("connect"))' /\ (stack' # <<>> => NoFrame("connect", Tail(stack')))
    BY <1>2, FramesPop DEF TopIs, NoFrame, TypeOK
  <2> QED BY <2>1 DEF Inv, FdInv, FdMatchesState
<1>4. CloseDueInv'
  BY <1>1 DEF Inv, CloseDueInv, NoFrame
<1>5. ReportedErrorIsSet'
  <2>1. (~lost /\ Handler("sError") \in FramesOf(stack)
           => errorCode \in Errnos /\ internalError = "InternalNone")'
    BY <1>1, ReportedAlt DEF Inv
  <2> QED BY <2>1 DEF ReportedErrorIsSet, FramesOf
<1>6. ConnectedMeansChecked'
  BY DEF Inv, ConnectedMeansChecked
<1> QED BY <1>3, <1>4, <1>5, <1>6 DEF Inv

LEMMA CallInv ==
  ASSUME Inv, TypeOK',
         CallConnect \/ CallCreate \/ CallClose \/ CallSend \/ CallSetIOTimeout
  PROVE  Inv'
<1>0. TypeOK /\ FdInv /\ stack \in Seq(Frames)
  BY DEF Inv, TypeOK
<1>1. NoFrame("connect", stack)
  BY <1>0, AtCall
     DEF CallConnect, CallCreate, CallClose, CallSend, CallSetIOTimeout, MayCall
<1>2. ASSUME NEW p \in Protocols \cup {-1}, NEW c \in BOOLEAN, Create(p, c),
             UNCHANGED config
      PROVE  Inv'
  <2> DEFINE rest == <<Closing(FALSE), Opening(p, c)>> \o stack
  <2>1. Closing(FALSE) \in Frames /\ Opening(p, c) \in Frames
    BY ProtocolsAssumption, FrameTypes
  <2>2. rest \in Seq(Frames)
    BY <1>0, <2>1, PushTypes
  <2>3. FramesOf(rest) = {Closing(FALSE), Opening(p, c)} \cup FramesOf(stack)
    BY <1>0, <2>1, FramesPush
  <2>4. NoFrame("connect", rest)
        /\ (Handler("sError") \in FramesOf(rest) => Handler("sError") \in FramesOf(stack))
    <3>1. /\ Closing(FALSE).op # "connect" /\ Opening(p, c).op # "connect"
          /\ Closing(FALSE) # Handler("sError") /\ Opening(p, c) # Handler("sError")
      <4>1. Closing(FALSE).op = "close"
        BY FrameOps
      <4>2. Opening(p, c).op = "open" /\ Handler("sError").op = "handler"
        BY FrameOps
      <4> QED BY <4>1, <4>2
    <3> QED BY <1>1, <2>3, <3>1 DEF NoFrame
  <2>5. CloseImpl(rest)
    BY <1>2 DEF Create
  <2> HIDE DEF rest
  <2> QED BY <1>2, <2>2, <2>4, <2>5, CloseImplInv
<1>3. CASE CallConnect
  <2>1. PICK p \in Protocols :
          \/ Create(p, TRUE) /\ UNCHANGED config
          \/ state # "sClose" /\ StartConnect(stack) /\ UNCHANGED <<closeDue, lost>>
    BY <1>3 DEF CallConnect
  <2>2. CASE Create(p, TRUE) /\ UNCHANGED config
    BY <1>2, <2>2
  <2>3. CASE state # "sClose" /\ StartConnect(stack) /\ UNCHANGED <<closeDue, lost>>
    BY <1>0, <1>1, <2>3, StartConnectInv
  <2> QED BY <2>1, <2>2, <2>3
<1>4. CASE CallCreate
  BY <1>2, <1>4 DEF CallCreate
<1>5. CASE CallClose
  BY <1>0, <1>1, <1>5, CloseImplInv DEF CallClose
<1>6. CASE CallSend
  <2>1. sock = "none" => lost
    BY <1>6 DEF Inv, FdInv, FdMatchesState, CallSend
  <2>2. ReportedErrorIsSet'
    BY <1>6, <2>1 DEF CallSend, SetError, Inv, ReportedErrorIsSet, Errnos
  <2> QED BY <1>6, <2>2 DEF CallSend, Inv, FdInv, FdMatchesState, CloseDueInv, NoFrame,
            TopIs, ConnectedMeansChecked, stateVars
<1>7. CASE CallSetIOTimeout
  BY <1>7 DEF CallSetIOTimeout, Inv, FdInv, FdMatchesState, CloseDueInv, NoFrame, TopIs,
     ReportedErrorIsSet, ConnectedMeansChecked, stateVars, implVars
<1> QED BY <1>3, <1>4, <1>5, <1>6, <1>7

LEMMA ContinueInv ==
  ASSUME Inv, TypeOK', HandlerReturn \/ Continue
  PROVE  Inv'
<1>1. stack \in Seq(Frames) /\ stack # <<>>
  BY DEF Inv, TypeOK, HandlerReturn, Continue, DoClose, DoOpen, DoConnect, DoAfterRecv,
     DoUpdateEnd, TopIs
<1>2. /\ Head(stack) \in Frames /\ Tail(stack) \in Seq(Frames)
      /\ FramesOf(stack) = {Head(stack)} \cup FramesOf(Tail(stack))
      /\ NoFrame("connect", Tail(stack))
  BY <1>1, PopOne, FramesPop DEF Inv, FdInv
<1>3. CASE HandlerReturn
  BY <1>1, <1>3, PopInv DEF HandlerReturn, TopIs, stateVars, implVars
<1>4. CASE DoClose
  BY <1>2, <1>4, CloseImplInv DEF DoClose
<1>5. CASE DoOpen
  <2>1. ~closeDue
    BY <1>2, <1>5 DEF Inv, CloseDueInv, NoFrame, DoOpen, TopIs
  <2>2. ReportedErrorIsSet'
    <3>1. stack' = <<Connecting>> \o Tail(stack) \/ stack' = Tail(stack)
      BY <1>5 DEF DoOpen
    <3>2. FramesOf(<<Connecting>> \o Tail(stack)) = {Connecting} \cup FramesOf(Tail(stack))
      BY <1>2, FrameTypes, FramesPush
    <3>3. Connecting # Handler("sError")
      BY FrameOps
    <3>4. Handler("sError") \in FramesOf(stack') => Handler("sError") \in FramesOf(stack)
      BY <1>2, <3>1, <3>2, <3>3
    <3>5. (~lost /\ Handler("sError") \in FramesOf(stack)
             => errorCode \in Errnos /\ internalError = "InternalNone")'
      BY <1>5, <3>4, ReportedAlt DEF Inv, DoOpen
    <3> QED BY <3>5 DEF ReportedErrorIsSet, FramesOf
  <2>3. ConnectedMeansChecked'
    BY <1>5 DEF Inv, ConnectedMeansChecked, DoOpen, SetState, NewState, stateVars
  <2>4. FdMatchesState'
    BY <1>5 DEF Inv, FdInv, FdMatchesState, DoOpen, SetState, NewState, stateVars
  <2>5. CASE stack' = Tail(stack)
    <3>1. (~TopIs("connect"))' /\ (stack' # <<>> => NoFrame("connect", Tail(stack')))
      BY <1>2, <2>5, FramesPop DEF TopIs, NoFrame
    <3> QED BY <1>5, <2>1, <2>2, <2>3, <2>4, <3>1
              DEF Inv, FdInv, CloseDueInv, DoOpen
  <2>6. CASE stack' = <<Connecting>> \o Tail(stack) /\ sock' = "unconnected"
             /\ SetState("sDisconnected")
    <3>1. Tail(stack') = Tail(stack)
      BY <1>2, <2>6, FrameTypes, FramesPush
    <3>2. state' = "sDisconnected"
      BY <2>6 DEF SetState, NewState, stateVars
    <3> QED BY <1>2, <1>5, <2>1, <2>2, <2>3, <2>4, <2>6, <3>1, <3>2
              DEF Inv, FdInv, CloseDueInv, DoOpen
  <2> QED BY <1>5, <2>5, <2>6 DEF DoOpen
<1>6. CASE DoConnect
  <2>1. state # "sClose" /\ Head(stack).op # "close"
    BY <1>6 DEF Inv, FdInv, DoConnect, TopIs
  <2> QED BY <1>2, <1>6, <2>1, StartConnectInv DEF DoConnect
<1>7. CASE DoAfterRecv
  BY <1>1, <1>7, PopInv DEF DoAfterRecv, TopIs, implVars
<1>8. CASE DoUpdateEnd
  BY <1>1, <1>8, PopInv DEF DoUpdateEnd, TopIs, implVars
<1> QED BY <1>3, <1>4, <1>5, <1>6, <1>7, <1>8 DEF Continue

\* At the main loop no close is due.
LEMMA IdleClosed ==
  ASSUME Inv, stack = <<>>
  PROVE  ~closeDue
  BY FramesLit DEF Inv, CloseDueInv, NoFrame

\* What update() pushes on the empty stack: its frames, none of them to open
\* or to connect.
LEMMA UpdateFrames ==
  ASSUME Update, TypeOK'
  PROVE  /\ NoFrame("connect", stack') /\ NoFrame("open", stack')
         /\ closeDue' /\ ~closeDue => ~NoFrame("close", stack')
         /\ Handler("sError") \in FramesOf(stack') => RecordError("EOTHER")
              \/ RecordError("ECONNREFUSED") \/ RecordError("ETIMEDOUT")
<1> DEFINE Plain == {Handler("sConnected"), Handler("sData"), Handler("sTimeout"),
                     AfterRecv, UpdateEnd}
           Closes == {Closing(FALSE), Closing(TRUE)}
<1>1. \A f \in Plain : f.op \notin {"connect", "open"} /\ f # Handler("sError")
  <2>1. Handler("sConnected").op = "handler" /\ Handler("sConnected").ev = "sConnected"
        /\ Handler("sData").op = "handler" /\ Handler("sData").ev = "sData"
        /\ Handler("sTimeout").op = "handler" /\ Handler("sTimeout").ev = "sTimeout"
        /\ Handler("sError").op = "handler" /\ Handler("sError").ev = "sError"
    BY FrameOps
  <2>2. AfterRecv.op = "afterRecv" /\ UpdateEnd.op = "updateEnd"
    BY FrameOps
  <2> QED BY <2>1, <2>2
<1>2. \A f \in Closes : f.op = "close" /\ f # Handler("sError")
  <2>1. Closing(FALSE).op = "close" /\ Closing(TRUE).op = "close"
    BY FrameOps
  <2>2. Handler("sError").op = "handler"
    BY FrameOps
  <2> QED BY <2>1, <2>2
<1>3. Handler("sError").op = "handler"
  BY FrameOps
<1> HIDE DEF Plain, Closes
<1>4. ASSUME FramesOf(stack') \subseteq Plain \cup Closes \cup {Handler("sError")}
      PROVE  NoFrame("connect", stack') /\ NoFrame("open", stack')
  BY <1>1, <1>2, <1>3, <1>4 DEF NoFrame
<1>5. ASSUME FramesOf(stack') \subseteq Plain \cup Closes
      PROVE  Handler("sError") \notin FramesOf(stack')
  BY <1>1, <1>2, <1>5
<1>6. ASSUME NEW f \in Closes, f \in FramesOf(stack')
      PROVE  ~NoFrame("close", stack')
  BY <1>2, <1>6 DEF NoFrame
<1>7. ASSUME NEW r \in Seq(Frames), stack' = EmitError(r)
      PROVE  FramesOf(stack') = {Handler("sError"), Closing(TRUE)} \cup FramesOf(r)
  <2>1. Handler("sError") \in Frames /\ Closing(TRUE) \in Frames
    BY FrameTypes DEF Events
  <2> QED BY <1>7, <2>1, FramesPush DEF EmitError
<1>8. CASE UpdateConnectExpired
  <2>1. FramesOf(stack') = {Closing(FALSE), UpdateEnd}
    BY <1>8, FramesLit DEF UpdateConnectExpired
  <2>2. FramesOf(stack') \subseteq Plain \cup Closes /\ Closing(FALSE) \in Closes
    BY <2>1 DEF Plain, Closes
  <2> QED BY <1>4, <1>5, <1>6, <2>1, <2>2
<1>9. CASE UpdateConnectPending \/ UpdateConnectOk \/ UpdateIdle
  <2>1. FramesOf(stack') \subseteq Plain
    BY <1>9, FramesLit DEF UpdateConnectPending, UpdateConnectOk, UpdateIdle, Plain
  <2>2. closeDue' = closeDue
    BY <1>9 DEF UpdateConnectPending, UpdateConnectOk, UpdateIdle
  <2> QED BY <1>4, <1>5, <2>1, <2>2
<1>10. CASE UpdateConnectFailed
  <2>1. stack' = EmitError(<<UpdateEnd>>) /\ <<UpdateEnd>> \in Seq(Frames)
    BY <1>10, FrameTypes DEF UpdateConnectFailed
  <2>2. FramesOf(stack') = {Handler("sError"), Closing(TRUE), UpdateEnd}
    BY <1>7, <2>1, FramesLit
  <2>3. FramesOf(stack') \subseteq Plain \cup Closes \cup {Handler("sError")}
        /\ Closing(TRUE) \in Closes
    BY <2>2 DEF Plain, Closes
  <2>4. RecordError("EOTHER") \/ RecordError("ECONNREFUSED") \/ RecordError("ETIMEDOUT")
    BY <1>10 DEF UpdateConnectFailed, CheckErrors
  <2> QED BY <1>4, <1>6, <2>2, <2>3, <2>4
<1>11. CASE UpdateRecv
  <2>1. CASE stack' \in {<<Handler("sData"), AfterRecv>>, <<AfterRecv>>}
             /\ closeDue' = closeDue
    <3>1. FramesOf(stack') \subseteq Plain
      BY <2>1, FramesLit DEF Plain
    <3> QED BY <1>4, <1>5, <2>1, <3>1
  <2>2. CASE stack' = <<Closing(FALSE), AfterRecv>>
    <3>1. FramesOf(stack') = {Closing(FALSE), AfterRecv}
      BY <2>2, FramesLit
    <3>2. FramesOf(stack') \subseteq Plain \cup Closes /\ Closing(FALSE) \in Closes
      BY <3>1 DEF Plain, Closes
    <3> QED BY <1>4, <1>5, <1>6, <3>1, <3>2
  <2>3. CASE stack' = EmitError(<<Closing(TRUE), AfterRecv>>) /\ RecordError("EOTHER")
    <3>1. <<Closing(TRUE), AfterRecv>> \in Seq(Frames)
      <4>1. Closing(TRUE) \in Frames /\ AfterRecv \in Frames
        BY FrameTypes
      <4>2. \A f, g \in Frames : <<f, g>> \in Seq(Frames)
        OBVIOUS
      <4> QED BY <4>1, <4>2
    <3>2. FramesOf(stack') = {Handler("sError"), Closing(TRUE), AfterRecv}
      <4>1. FramesOf(<<Closing(TRUE), AfterRecv>>) = {Closing(TRUE), AfterRecv}
        BY FramesLit
      <4>2. FramesOf(stack') = {Handler("sError"), Closing(TRUE)}
                                 \cup FramesOf(<<Closing(TRUE), AfterRecv>>)
        BY <1>7, <2>3, <3>1
      <4> QED BY <4>1, <4>2
    <3>3. FramesOf(stack') \subseteq Plain \cup Closes \cup {Handler("sError")}
          /\ Closing(TRUE) \in Closes
      BY <3>2 DEF Plain, Closes
    <3> QED BY <1>4, <1>6, <2>3, <3>2, <3>3
  <2> QED BY <1>11, <2>1, <2>2, <2>3 DEF UpdateRecv, RecordError
<1> QED BY <1>8, <1>9, <1>10, <1>11 DEF Update

LEMMA UpdateInv ==
  ASSUME Inv, TypeOK', Update
  PROVE  Inv'
<1>1. stack = <<>> /\ ~closeDue
  BY IdleClosed
     DEF Update, UpdateConnectExpired, UpdateConnectPending, UpdateConnectOk,
         UpdateConnectFailed, UpdateRecv, UpdateIdle
<1>2. FdInv'
  <2>1. (~TopIs("connect"))' /\ (stack' # <<>> => NoFrame("connect", Tail(stack')))
    BY UpdateFrames, FramesPop DEF TopIs, NoFrame, TypeOK
  <2>2. FdMatchesState'
    BY DEF Inv, FdInv, FdMatchesState, Update, UpdateConnectExpired,
       UpdateConnectPending, UpdateConnectOk, UpdateConnectFailed, UpdateRecv,
       UpdateIdle, ErrorRead, CanBeWritable, implVars
  <2> QED BY <2>1, <2>2 DEF FdInv
<1>3. CloseDueInv'
  <2>1. closeDue' => sock' # "none"
    BY <1>1 DEF Update, UpdateConnectExpired, UpdateConnectPending, UpdateConnectOk,
       UpdateConnectFailed, UpdateRecv, UpdateIdle, ErrorRead, CanBeWritable,
       RecvResults, implVars
  <2> QED BY <1>1, <2>1, UpdateFrames DEF CloseDueInv
<1>4. ReportedErrorIsSet'
  <2>1. (Handler("sError") \in FramesOf(stack)
           => errorCode \in Errnos /\ internalError = "InternalNone")'
    BY UpdateFrames DEF RecordError, SetError, Errnos
  <2> QED BY <2>1 DEF ReportedErrorIsSet, FramesOf
<1>5. ConnectedMeansChecked'
  BY DEF Inv, ConnectedMeansChecked, Update, UpdateConnectExpired,
     UpdateConnectPending, UpdateConnectOk, UpdateConnectFailed, UpdateRecv,
     UpdateIdle, ErrorRead, CanBeWritable, CheckPasses, implVars
<1> QED BY <1>2, <1>3, <1>4, <1>5 DEF Inv

LEMMA InvInit == Init => Inv
<1> SUFFICES ASSUME Init PROVE Inv
  OBVIOUS
<1>1. FdInv /\ CloseDueInv
  BY DEF Init, FdInv, FdMatchesState, TopIs, CloseDueInv
<1>2. ReportedErrorIsSet
  BY FramesLit, ReportedAlt DEF Init
<1>3. ConnectedMeansChecked
  BY DEF Init, ConnectedMeansChecked
<1> QED BY <1>1, <1>2, <1>3, TypeInit DEF Inv

LEMMA InvNext == Inv /\ [Next]_vars => Inv'
<1> SUFFICES ASSUME Inv, [Next]_vars
             PROVE  Inv'
  OBVIOUS
<1>0. TypeOK'
  BY TypeNext DEF Inv
<1>1. CASE CallConnect \/ CallCreate \/ CallClose \/ CallSend \/ CallSetIOTimeout
  BY <1>0, <1>1, CallInv
<1>2. CASE HandlerReturn \/ Continue
  BY <1>0, <1>2, ContinueInv
<1>3. CASE Update
  BY <1>0, <1>3, UpdateInv
<1>4. CASE Handshake \/ Tick \/ UNCHANGED vars
  <2>1. UNCHANGED <<stack, state, closeDue, lost, errorCode, internalError, config>>
    BY <1>4 DEF Handshake, Tick, vars, stateVars, implVars
  <2>2. sock' = sock \/ (sock = "handshaking" /\ sock' # "none")
    BY <1>4 DEF Handshake, Tick, vars, implVars
  <2>3. FdInv'
    BY <2>1, <2>2 DEF Inv, FdInv, FdMatchesState, TopIs, NoFrame, FramesOf
  <2>4. CloseDueInv'
    BY <2>1, <2>2 DEF Inv, CloseDueInv, NoFrame, FramesOf
  <2>5. ReportedErrorIsSet'
    BY <2>1 DEF Inv, ReportedErrorIsSet
  <2>6. ConnectedMeansChecked'
    BY <2>1, <2>2 DEF Inv, ConnectedMeansChecked
  <2> QED BY <1>0, <2>3, <2>4, <2>5, <2>6 DEF Inv
<1> QED BY <1>1, <1>2, <1>3, <1>4 DEF Next

LEMMA InvCorrect == Spec => []Inv
  BY InvInit, InvNext, PTL DEF Spec

\* A descriptor exists exactly when the Socket is not in sClose, at every
\* point of every call and at every depth of re-entrancy (SocketLinux::close,
\* Socket::setState).
THEOREM DescriptorMatchesState == Spec => []FdMatchesState
<1>1. Inv => FdMatchesState
  BY DEF Inv, FdInv
<1> QED BY <1>1, InvCorrect, PTL

\* A descriptor that failed is closed before update() returns to the main
\* loop (SocketBase::emitError, Socket::recv, SocketStateConnecting::update).
THEOREM FailureIsClosed == Spec => []FailureEndsInClose
<1>1. Inv => FailureEndsInClose
  BY IdleClosed DEF FailureEndsInClose
<1> QED BY <1>1, InvCorrect, PTL

\* Every sError report carries the error of an operation that failed
\* (SocketBase::setError before SocketBase::emitError).
THEOREM ErrorIsSet == Spec => []ReportedErrorIsSet
<1>1. Inv => ReportedErrorIsSet
  BY DEF Inv
<1> QED BY <1>1, InvCorrect, PTL

\* A Socket is in sConnected only after its handshake, and not after one that
\* was refused or timed out (SocketLinux::checkConnected).
THEOREM ConnectedIsChecked == Spec => []ConnectedMeansChecked
<1>1. Inv => ConnectedMeansChecked
  BY DEF Inv
<1> QED BY <1>1, InvCorrect, PTL

(***************************************************************************)
(* The error of a failed handshake is not lost.                            *)
(***************************************************************************)
\* What one step does to a handshake.
Watches ==
  /\ HandshakeIsWatched'
  /\ sock' # sock /\ sock \in {"refused", "timedout"}
       => lost' \/ closeDue' \/ state' = "sClose"

LEMMA CloseWatches ==
  ASSUME TypeOK, HandshakeIsWatched, NEW rest, CloseImpl(rest)
  PROVE  Watches
  BY DEF Watches, HandshakeIsWatched, CloseImpl, SetState, NewState, stateVars, TypeOK

LEMMA ConnectWatches ==
  ASSUME TypeOK, HandshakeIsWatched, NEW rest, StartConnect(rest),
         UNCHANGED <<closeDue, lost>>
  PROVE  Watches
  BY DEF Watches, HandshakeIsWatched, StartConnect, NewState, stateVars, implVars

LEMMA UpdateWatches ==
  ASSUME TypeOK, HandshakeIsWatched, Update
  PROVE  Watches
<1>1. CASE UpdateConnectExpired
  BY <1>1 DEF Watches, HandshakeIsWatched, UpdateConnectExpired, implVars
<1>2. CASE UpdateConnectPending
  BY <1>2 DEF Watches, HandshakeIsWatched, UpdateConnectPending, implVars
<1>3. CASE UpdateConnectOk
  BY <1>3 DEF Watches, HandshakeIsWatched, UpdateConnectOk, ErrorRead, CheckPasses,
              CanBeWritable
<1>4. CASE UpdateConnectFailed
  BY <1>4 DEF Watches, HandshakeIsWatched, UpdateConnectFailed
<1>5. CASE UpdateRecv
  BY <1>5 DEF Watches, HandshakeIsWatched, UpdateRecv
<1>6. CASE UpdateIdle
  BY <1>6 DEF Watches, HandshakeIsWatched, UpdateIdle, implVars
<1> QED BY <1>1, <1>2, <1>3, <1>4, <1>5, <1>6 DEF Update

LEMMA NextWatches ==
  ASSUME TypeOK, HandshakeIsWatched, [Next]_vars
  PROVE  Watches
<1>1. CASE CallConnect
  <2>1. ASSUME NEW p \in Protocols, Create(p, TRUE) PROVE Watches
    BY <2>1, CloseWatches DEF Create
  <2>2. ASSUME StartConnect(stack), UNCHANGED <<closeDue, lost>> PROVE Watches
    BY <2>2, ConnectWatches
  <2> QED BY <1>1, <2>1, <2>2 DEF CallConnect
<1>2. CASE CallCreate
  BY <1>2, CloseWatches DEF CallCreate, Create
<1>3. CASE CallClose \/ DoClose
  BY <1>3, CloseWatches DEF CallClose, DoClose
<1>4. CASE CallSend \/ CallSetIOTimeout \/ HandlerReturn \/ UNCHANGED vars
  BY <1>4 DEF Watches, HandshakeIsWatched, CallSend, CallSetIOTimeout, HandlerReturn,
              vars, stateVars, implVars
<1>5. CASE DoOpen
  BY <1>5 DEF Watches, HandshakeIsWatched, DoOpen
<1>6. CASE DoConnect
  BY <1>6, ConnectWatches DEF DoConnect
<1>7. CASE DoAfterRecv \/ DoUpdateEnd
  BY <1>7 DEF Watches, HandshakeIsWatched, DoAfterRecv, DoUpdateEnd, implVars
<1>8. CASE Update
  BY <1>8, UpdateWatches
<1>9. CASE Handshake \/ Tick
  BY <1>9 DEF Watches, HandshakeIsWatched, Handshake, Tick, stateVars, implVars
<1> QED BY <1>1, <1>2, <1>3, <1>4, <1>5, <1>6, <1>7, <1>8, <1>9 DEF Next, Continue

\* The kernel's answer to a connect() is waited for by an attempt or dropped
\* with a descriptor that is about to be closed (SocketStateConnecting::update,
\* Socket::connect), whatever handlers call.
THEOREM HandshakesAreWatched == Spec => []HandshakeIsWatched
<1>1. Init => HandshakeIsWatched
  BY DEF Init, HandshakeIsWatched
<1>2. TypeOK /\ HandshakeIsWatched /\ [Next]_vars => HandshakeIsWatched'
  BY NextWatches DEF Watches
<1> QED BY <1>1, <1>2, TypeCorrect, PTL DEF Spec

\* Nobody takes the error of a refused handshake without a close that follows
\* (SocketLinux::checkConnected): with FailureIsClosed, the safety core of
\* RefusalEndsInClose.
THEOREM RefusalIsKept == Spec => RefusalIsNotLost
<1>1. TypeOK /\ HandshakeIsWatched /\ [Next]_vars
        => [sock' # sock /\ sock \in {"refused", "timedout"}
              => lost' \/ closeDue' \/ state' = "sClose"]_vars
  BY NextWatches DEF Watches
<1> QED BY <1>1, HandshakesAreWatched, TypeCorrect, PTL DEF Spec, RefusalIsNotLost

(***************************************************************************)
(* Handlers that open nothing.                                             *)
(***************************************************************************)
\* Which frames the operators that name frames by a field stand for.
LEMMA FrameIs ==
  ASSUME NEW f \in Frames
  PROVE  /\ f.op = "afterRecv" => f = AfterRecv
         /\ f.op = "close" /\ f.hasError => f = Closing(TRUE)
  BY DEF Frames, AfterRecv, Closing

\* AtBottom holds without the frames it is about, and of shorter stacks.
LEMMA BottomFacts ==
  ASSUME NEW s \in Seq(Frames)
  PROVE  /\ Len(s) <= 1 => AtBottom(s)
         /\ AtBottom(s) /\ s # <<>> => AtBottom(Tail(s))
         /\ AtBottom(s) /\ s # <<>>
              /\ Head(s).op \in {"open", "afterRecv", "updateEnd"} => Tail(s) = <<>>
         /\ \A f \in Frames : AtBottom(s) /\ f.op \notin {"open", "afterRecv", "updateEnd"}
              => AtBottom(<<f>> \o s)
<1>0. Len(s) \in Nat
  BY LenProperties
<1>1. Len(s) <= 1 => AtBottom(s)
  BY <1>0 DEF AtBottom
<1>2. ASSUME AtBottom(s), s # <<>> PROVE AtBottom(Tail(s))
  BY <1>0, <1>2, PopOne DEF AtBottom
<1>3. ASSUME AtBottom(s), s # <<>>,
             Head(s).op \in {"open", "afterRecv", "updateEnd"}
      PROVE  Tail(s) = <<>>
  <2>1. Head(s) = s[1] /\ Len(s) > 0 /\ Len(Tail(s)) = Len(s) - 1
        /\ Tail(s) \in Seq(Frames)
    BY <1>3, PopOne
  <2>2. ~(1 \in 1..(Len(s) - 1))
    BY <1>3, <2>1 DEF AtBottom
  <2>3. Len(Tail(s)) = 0
    BY <1>0, <2>1, <2>2
  <2> QED BY <2>1, <2>3, EmptySeq
<1>4. ASSUME NEW f \in Frames, AtBottom(s),
             f.op \notin {"open", "afterRecv", "updateEnd"}
      PROVE  AtBottom(<<f>> \o s)
  BY <1>0, <1>4, PushOne DEF AtBottom
<1> QED BY <1>1, <1>2, <1>3, <1>4

\* A stack of two frames.
LEMMA PairFacts ==
  ASSUME NEW f \in Frames, NEW g \in Frames
  PROVE  /\ <<f, g>> \in Seq(Frames)
         /\ f.op \notin {"open", "afterRecv", "updateEnd"} => AtBottom(<<f, g>>)
  BY DEF AtBottom

\* Short stacks, known by an equation.
LEMMA ShortStack ==
  ASSUME NEW s, NEW f \in Frames, NEW g \in Frames
  PROVE  /\ s = <<>> => FramesOf(s) = {} /\ AtBottom(s)
         /\ s = <<f>> => FramesOf(s) = {f} /\ AtBottom(s)
         /\ s = <<f, g>> => FramesOf(s) = {f, g}
         /\ s = <<f, g>> /\ f.op \notin {"open", "afterRecv", "updateEnd"} => AtBottom(s)
<1>1. CASE s = <<>>
  BY <1>1, FramesLit DEF AtBottom
<1>2. CASE s = <<f>>
  BY <1>2, FramesLit DEF AtBottom
<1>3. CASE s = <<f, g>>
  BY <1>3, FramesLit DEF AtBottom
<1> QED BY <1>1, <1>2, <1>3

\* The stacks of an error path: two frames on a short stack.
LEMMA ErrorStackFacts ==
  ASSUME NEW f \in Frames, NEW g \in Frames, NEW s \in Seq(Frames),
         f.op \notin {"open", "afterRecv", "updateEnd"},
         g.op \notin {"open", "afterRecv", "updateEnd"},
         AtBottom(s)
  PROVE  AtBottom(<<f, g>> \o s)
<1>1. <<f, g>> \in Seq(Frames) /\ Len(<<f, g>>) = 2 /\ <<f, g>>[1] = f /\ <<f, g>>[2] = g
  OBVIOUS
<1>2. /\ Len(s) \in Nat /\ Len(<<f, g>> \o s) = Len(s) + 2
      /\ \A i \in 1..(Len(s) + 2) :
           (<<f, g>> \o s)[i] = IF i <= 2 THEN <<f, g>>[i] ELSE s[i - 2]
  BY <1>1, ConcatProperties, LenProperties
<1>3. ASSUME NEW i \in 1..(Len(s) + 1)
      PROVE  (<<f, g>> \o s)[i].op \notin {"open", "afterRecv", "updateEnd"}
  <2>1. CASE i = 1
    BY <1>1, <1>2, <2>1
  <2>2. CASE i = 2
    BY <1>1, <1>2, <2>2
  <2>3. CASE i > 2
    <3>1. (<<f, g>> \o s)[i] = s[i - 2] /\ i - 2 \in 1..(Len(s) - 1)
      BY <1>2, <2>3
    <3> QED BY <3>1 DEF AtBottom
  <2> QED BY <2>1, <2>2, <2>3
<1> QED BY <1>2, <1>3 DEF AtBottom

\* Without a guarded frame RecvInv holds.
LEMMA Unguarded ==
  ASSUME Guarded \cap FramesOf(stack) = {}
  PROVE  RecvInv
  BY DEF RecvInv, Guarded

\* SocketLinux::close on the way back keeps the disciplined invariants.
LEMMA CloseImplDisciplined ==
  ASSUME Inv, OpenInv, RecvInv, TypeOK', NEW rest \in Seq(Frames), CloseImpl(rest),
         AtBottom(rest), FramesOf(rest) \subseteq FramesOf(stack)
  PROVE  OpenInv' /\ RecvInv'
<1>1. Handler("sClose") \in Frames
  BY FrameTypes DEF Events
<1>2. Handler("sClose").op = "handler" /\ Closing(TRUE).op = "close"
      /\ AfterRecv.op = "afterRecv"
  <2>1. Handler("sClose").op = "handler" /\ AfterRecv.op = "afterRecv"
    BY FrameOps
  <2>2. Closing(TRUE).op = "close"
    BY FrameOps
  <2> QED BY <2>1, <2>2
<1>3. FramesOf(stack') \subseteq {Handler("sClose")} \cup FramesOf(stack)
  BY <1>1, FramesPush DEF CloseImpl
<1>4. AtBottom(stack')
  BY <1>1, <1>2, BottomFacts DEF CloseImpl
<1>5. sock' = "none" /\ ~lost'
  BY DEF CloseImpl, OpenInv
<1>6. OpenInv'
  BY <1>4, <1>5 DEF OpenInv
<1>7. Guarded \cap FramesOf(stack') # {} => Guarded \cap FramesOf(stack) # {}
  BY <1>2, <1>3 DEF Guarded
<1>8. Guarded \cap FramesOf(stack') # {}
        => NoFrame("open", stack') /\ NoFrame("connect", stack')
  BY <1>2, <1>3, <1>7 DEF RecvInv, NoFrame
<1>9. AfterRecv \in FramesOf(stack')
        => state' = "sClose" \/ (state' = "sConnected" /\ updating' = "live")
  BY <1>2, <1>3 DEF RecvInv, CloseImpl, SetState, NewState, stateVars
<1> QED BY <1>5, <1>6, <1>8, <1>9 DEF RecvInv

\* The calls: handlers only close, send and set the idle timeout, and what the
\* main loop opens it opens on an empty stack.
LEMMA CallDisciplined ==
  ASSUME Disciplined, Inv, OpenInv, RecvInv, TypeOK',
         CallConnect \/ CallCreate \/ CallClose \/ CallSend \/ CallSetIOTimeout
  PROVE  OpenInv' /\ RecvInv'
<1>0. stack \in Seq(Frames)
  BY DEF Inv, TypeOK
<1>1. ASSUME NEW p \in Protocols \cup {-1}, NEW c \in BOOLEAN, Create(p, c),
             stack = <<>>
      PROVE  OpenInv' /\ RecvInv'
  <2>1. Closing(FALSE) \in Frames /\ Opening(p, c) \in Frames
    BY ProtocolsAssumption, FrameTypes
  <2>2. Handler("sClose") \in Frames
    BY FrameTypes DEF Events
  <2>3. <<Closing(FALSE), Opening(p, c)>> \o stack = <<Closing(FALSE), Opening(p, c)>>
    BY <1>1, <2>1, ConcatEmptySeq
  <2>4. stack' = <<Closing(FALSE), Opening(p, c)>>
        \/ stack' = <<Handler("sClose")>> \o <<Closing(FALSE), Opening(p, c)>>
    BY <1>1, <2>3 DEF Create, CloseImpl
  <2>6. Closing(FALSE).op = "close" /\ Closing(FALSE).hasError = FALSE
    BY FrameOps
  <2>7. Closing(TRUE).op = "close" /\ Closing(TRUE).hasError = TRUE
    BY FrameOps
  <2>8. Handler("sClose").op = "handler" /\ Opening(p, c).op = "open"
        /\ AfterRecv.op = "afterRecv"
    BY FrameOps
  <2>9. <<Closing(FALSE), Opening(p, c)>> \in Seq(Frames)
        /\ AtBottom(<<Closing(FALSE), Opening(p, c)>>)
    BY <2>1, <2>6, PairFacts
  <2>10. AtBottom(stack')
    BY <2>2, <2>4, <2>8, <2>9, BottomFacts
  <2>11. sock' = "none" /\ ~lost'
    BY <1>1 DEF OpenInv, Create, CloseImpl
  <2>12. FramesOf(<<Closing(FALSE), Opening(p, c)>>) = {Closing(FALSE), Opening(p, c)}
    BY FramesLit
  <2>13. FramesOf(stack') \subseteq {Handler("sClose"), Closing(FALSE), Opening(p, c)}
    <3>1. FramesOf(<<Handler("sClose")>> \o <<Closing(FALSE), Opening(p, c)>>)
            = {Handler("sClose")} \cup FramesOf(<<Closing(FALSE), Opening(p, c)>>)
      BY <2>2, <2>9, FramesPush
    <3> QED BY <2>4, <2>12, <3>1
  <2>14. (Guarded \cap FramesOf(stack) = {})'
    BY <2>6, <2>7, <2>8, <2>13 DEF Guarded
  <2> QED BY <2>10, <2>11, <2>14, Unguarded DEF OpenInv, RecvInv, Guarded
<1>2. ASSUME StartConnect(stack), UNCHANGED <<closeDue, lost>>, stack = <<>>
      PROVE  OpenInv' /\ RecvInv'
  <2>1. stack' = <<>> \/ stack' = <<Handler("sConnected")>>
    <3>1. <<Handler("sConnected")>> \o <<>> = <<Handler("sConnected")>>
      OBVIOUS
    <3> QED BY <1>2, <3>1 DEF StartConnect
  <2>2. FramesOf(stack') \subseteq {Handler("sConnected")} /\ Len(stack') <= 1
    BY <2>1, FramesLit
  <2>3. Handler("sConnected").op = "handler" /\ AfterRecv.op = "afterRecv"
    BY FrameOps
  <2>4. Closing(TRUE).op = "close"
    BY FrameOps
  <2>5. NoFrame("open", stack') /\ (Guarded \cap FramesOf(stack) = {})'
    BY <2>2, <2>3, <2>4 DEF NoFrame, Guarded
  <2>6. AtBottom(stack')
    BY <2>2, BottomFacts DEF TypeOK
  <2> QED BY <1>2, <2>5, <2>6 DEF OpenInv, RecvInv, Guarded
<1>3. CASE CallConnect
  <2>1. stack = <<>>
    BY <1>3 DEF CallConnect, MayCall, Disciplined
  <2> QED BY <1>1, <1>2, <1>3, <2>1 DEF CallConnect
<1>4. CASE CallCreate
  <2>1. stack = <<>>
    BY <1>4 DEF CallCreate, MayCall, Disciplined
  <2> QED BY <1>1, <1>4, <2>1 DEF CallCreate
<1>5. CASE CallClose
  BY <1>0, <1>5, CloseImplDisciplined DEF CallClose, OpenInv
<1>6. CASE CallSend \/ CallSetIOTimeout
  <2>1. UNCHANGED <<stack, state, updating, sock, closeDue, lost>>
    BY <1>6 DEF CallSend, CallSetIOTimeout, stateVars, implVars
  <2> QED BY <2>1 DEF OpenInv, RecvInv, NoFrame, AtBottom, Guarded, FramesOf
<1> QED BY <1>3, <1>4, <1>5, <1>6

\* The continuations.
LEMMA ContinueDisciplined ==
  ASSUME Inv, OpenInv, RecvInv, TypeOK', HandlerReturn \/ Continue
  PROVE  OpenInv' /\ RecvInv'
<1>1. stack \in Seq(Frames) /\ stack # <<>>
  BY DEF Inv, TypeOK, HandlerReturn, Continue, DoClose, DoOpen, DoConnect, DoAfterRecv,
     DoUpdateEnd, TopIs
<1>2. /\ Head(stack) \in Frames /\ Tail(stack) \in Seq(Frames)
      /\ FramesOf(stack) = {Head(stack)} \cup FramesOf(Tail(stack))
      /\ AtBottom(Tail(stack))
  BY <1>1, PopOne, FramesPop, BottomFacts DEF OpenInv
<1>3. Head(stack).op \in {"open", "afterRecv", "updateEnd"} => Tail(stack) = <<>>
  BY <1>1, BottomFacts DEF OpenInv
<1>4. CASE HandlerReturn
  <2>1. UNCHANGED <<state, updating, sock, closeDue, lost>> /\ stack' = Tail(stack)
    BY <1>4 DEF HandlerReturn, stateVars, implVars
  <2>2. OpenInv'
    BY <1>2, <2>1 DEF OpenInv, NoFrame
  <2>3. RecvInv'
    BY <1>2, <2>1 DEF RecvInv, NoFrame, Guarded
  <2> QED BY <2>2, <2>3
<1>5. CASE DoClose
  BY <1>2, <1>5, CloseImplDisciplined DEF DoClose
<1>6. CASE DoOpen
  <2>1. sock = "none" /\ Tail(stack) = <<>>
    BY <1>2, <1>3, <1>6 DEF DoOpen, TopIs, OpenInv, NoFrame
  <2>2. stack' = <<>> \/ stack' = <<Connecting>>
    <3>1. <<Connecting>> \o <<>> = <<Connecting>>
      OBVIOUS
    <3> QED BY <1>6, <2>1, <3>1 DEF DoOpen
  <2>3. FramesOf(stack') \subseteq {Connecting} /\ AtBottom(stack')
    <3>1. CASE stack' = <<>>
      BY <3>1, FrameTypes, ShortStack
    <3>2. CASE stack' = <<Connecting>>
      BY <3>2, FrameTypes, ShortStack
    <3> QED BY <2>2, <3>1, <3>2
  <2>4. Connecting.op = "connect" /\ AfterRecv.op = "afterRecv"
    BY FrameOps
  <2>5. Closing(TRUE).op = "close"
    BY FrameOps
  <2>6. NoFrame("open", stack') /\ (Guarded \cap FramesOf(stack) = {})'
    BY <2>3, <2>4, <2>5 DEF NoFrame, Guarded
  <2>7. ~lost'
    BY <1>6, <2>1 DEF DoOpen, OpenInv
  <2> QED BY <2>3, <2>6, <2>7 DEF OpenInv, RecvInv, Guarded
<1>7. CASE DoConnect
  <2>1. NoFrame("open", stack) /\ Guarded \cap FramesOf(stack) = {}
    BY <1>2, <1>7 DEF DoConnect, TopIs, Inv, FdInv, OpenInv, RecvInv, NoFrame
  <2>2. Handler("sConnected") \in Frames
    BY FrameTypes DEF Events
  <2>3. Handler("sConnected").op = "handler" /\ AfterRecv.op = "afterRecv"
    BY FrameOps
  <2>4. Closing(TRUE).op = "close"
    BY FrameOps
  <2>5. stack' = Tail(stack) \/ stack' = <<Handler("sConnected")>> \o Tail(stack)
    BY <1>7 DEF DoConnect, StartConnect
  <2>6. FramesOf(stack') \subseteq {Handler("sConnected")} \cup FramesOf(stack)
    <3>1. FramesOf(<<Handler("sConnected")>> \o Tail(stack))
            = {Handler("sConnected")} \cup FramesOf(Tail(stack))
      BY <1>2, <2>2, FramesPush
    <3> QED BY <1>2, <2>5, <3>1
  <2>7. NoFrame("open", stack') /\ (Guarded \cap FramesOf(stack) = {})'
    BY <2>1, <2>3, <2>4, <2>6 DEF NoFrame, Guarded
  <2>8. AtBottom(stack')
    BY <1>2, <2>2, <2>3, <2>5, BottomFacts
  <2>9. ~lost'
    BY <1>7 DEF DoConnect, OpenInv
  <2> QED BY <2>7, <2>8, <2>9 DEF OpenInv, RecvInv, Guarded
<1>8. CASE DoAfterRecv \/ DoUpdateEnd
  <2>1. Tail(stack) = <<>> /\ stack' = Tail(stack) /\ UNCHANGED <<sock, closeDue, lost>>
    BY <1>3, <1>8 DEF DoAfterRecv, DoUpdateEnd, TopIs, implVars
  <2>2. FramesOf(stack') = {}
    BY <2>1, FramesLit
  <2> QED BY <1>2, <2>1, <2>2 DEF OpenInv, RecvInv, NoFrame, Guarded
<1> QED BY <1>4, <1>5, <1>6, <1>7, <1>8 DEF Continue

\* update().
LEMMA UpdateDisciplined ==
  ASSUME Inv, OpenInv, RecvInv, TypeOK', Update
  PROVE  OpenInv' /\ RecvInv'
<1>1. NoFrame("open", stack') /\ NoFrame("connect", stack')
  BY UpdateFrames
<1>2. ~lost'
  BY DEF OpenInv, Update, UpdateConnectExpired, UpdateConnectPending, UpdateConnectOk,
     UpdateConnectFailed, UpdateRecv, UpdateIdle
<1>3. Handler("sError") \in Frames /\ Handler("sConnected") \in Frames
      /\ Handler("sData") \in Frames /\ Handler("sTimeout") \in Frames
      /\ AfterRecv \in Frames /\ UpdateEnd \in Frames
  BY FrameTypes DEF Events
<1>4. Closing(FALSE) \in Frames /\ Closing(TRUE) \in Frames
  BY FrameTypes
<1>5. Closing(FALSE).op = "close" /\ Closing(FALSE).hasError = FALSE
  BY FrameOps
<1>6. Closing(TRUE).op = "close" /\ Closing(TRUE).hasError = TRUE
  BY FrameOps
<1>7. /\ Handler("sError").op = "handler" /\ Handler("sConnected").op = "handler"
      /\ Handler("sData").op = "handler" /\ Handler("sTimeout").op = "handler"
      /\ AfterRecv.op = "afterRecv" /\ UpdateEnd.op = "updateEnd"
  BY FrameOps
<1>8. ASSUME NEW f \in Frames, f.op = "handler" \/ f = Closing(FALSE),
             stack' = <<f, UpdateEnd>>
      PROVE  OpenInv' /\ RecvInv'
  <2>1. FramesOf(stack') = {f, UpdateEnd} /\ AtBottom(stack')
    BY <1>3, <1>5, <1>8, ShortStack
  <2>2. (Guarded \cap FramesOf(stack) = {})'
    BY <1>5, <1>6, <1>7, <1>8, <2>1 DEF Guarded
  <2> QED BY <1>1, <1>2, <2>1, <2>2 DEF OpenInv, RecvInv, Guarded
<1>9. ASSUME stack' = <<UpdateEnd>>
      PROVE  OpenInv' /\ RecvInv'
  <2>1. FramesOf(stack') = {UpdateEnd} /\ AtBottom(stack')
    BY <1>3, <1>9, ShortStack
  <2>2. (Guarded \cap FramesOf(stack) = {})'
    BY <1>6, <1>7, <2>1 DEF Guarded
  <2> QED BY <1>1, <1>2, <2>1, <2>2 DEF OpenInv, RecvInv, Guarded
<1>10. CASE UpdateConnectExpired
  BY <1>4, <1>8, <1>10 DEF UpdateConnectExpired
<1>11. CASE UpdateConnectPending
  BY <1>9, <1>11 DEF UpdateConnectPending
<1>12. CASE UpdateConnectOk
  BY <1>3, <1>7, <1>8, <1>12 DEF UpdateConnectOk
<1>13. CASE UpdateIdle
  BY <1>3, <1>7, <1>8, <1>9, <1>13 DEF UpdateIdle
<1>14. CASE UpdateConnectFailed
  <2>1. closeDue' /\ stack' = <<Handler("sError"), Closing(TRUE)>> \o <<UpdateEnd>>
    BY <1>14 DEF UpdateConnectFailed, EmitError
  <2>2. <<UpdateEnd>> \in Seq(Frames) /\ FramesOf(<<UpdateEnd>>) = {UpdateEnd}
        /\ AtBottom(<<UpdateEnd>>)
    BY <1>3, ShortStack
  <2>3. FramesOf(stack') = {Handler("sError"), Closing(TRUE)} \cup {UpdateEnd}
    <3> DEFINE c == Closing(TRUE)
    <3> HIDE DEF c
    <3>1. c \in Frames /\ stack' = <<Handler("sError"), c>> \o <<UpdateEnd>>
      BY <1>4, <2>1 DEF c
    <3>2. FramesOf(<<Handler("sError"), c>> \o <<UpdateEnd>>)
            = {Handler("sError"), c} \cup FramesOf(<<UpdateEnd>>)
      BY <1>3, <2>2, <3>1, FramesPush
    <3>3. FramesOf(stack') = {Handler("sError"), c} \cup {UpdateEnd}
      BY <2>2, <3>1, <3>2
    <3> QED BY <3>3 DEF c
  <2>4. AfterRecv \notin FramesOf(stack')
    BY <1>6, <1>7, <2>3
  <2>5. AtBottom(stack')
    <3> DEFINE c == Closing(TRUE)
    <3> HIDE DEF c
    <3>1. c \in Frames /\ c.op = "close"
          /\ stack' = <<Handler("sError"), c>> \o <<UpdateEnd>>
      BY <1>4, <1>6, <2>1 DEF c
    <3> QED BY <1>3, <1>7, <2>2, <3>1, ErrorStackFacts
  <2> QED BY <1>1, <1>2, <2>1, <2>4, <2>5 DEF OpenInv, RecvInv, Guarded
<1>15. CASE UpdateRecv
  <2>1. state' = "sConnected" /\ updating' = "live"
    BY <1>15 DEF UpdateRecv
  <2>2. ASSUME closeDue', AtBottom(stack')
        PROVE  OpenInv' /\ RecvInv'
    BY <1>1, <1>2, <2>1, <2>2 DEF OpenInv, RecvInv
  <2>3. ASSUME FramesOf(stack') \subseteq {Handler("sData"), AfterRecv}, AtBottom(stack')
        PROVE  OpenInv' /\ RecvInv'
    <3>1. Closing(TRUE) \notin FramesOf(stack')
      BY <1>6, <1>7, <2>3
    <3> QED BY <1>1, <1>2, <2>1, <2>3, <3>1 DEF OpenInv, RecvInv
  <2>4. CASE stack' = EmitError(<<Closing(TRUE), AfterRecv>>) /\ closeDue'
    <3> DEFINE c == Closing(TRUE)
    <3> HIDE DEF c
    <3>1. c \in Frames /\ c.op = "close"
          /\ stack' = <<Handler("sError"), c>> \o <<c, AfterRecv>>
      BY <1>4, <1>6, <2>4 DEF c, EmitError
    <3>2. <<c, AfterRecv>> \in Seq(Frames) /\ AtBottom(<<c, AfterRecv>>)
      BY <1>3, <3>1, PairFacts
    <3>3. AtBottom(stack')
      BY <1>3, <1>7, <3>1, <3>2, ErrorStackFacts
    <3> QED BY <2>2, <2>4, <3>3
  <2>5. CASE stack' = <<Closing(FALSE), AfterRecv>> /\ closeDue'
    BY <1>3, <1>4, <1>5, <2>2, <2>5, ShortStack
  <2>6. CASE stack' = <<Handler("sData"), AfterRecv>>
    BY <1>3, <1>7, <2>3, <2>6, ShortStack
  <2>7. CASE stack' = <<AfterRecv>>
    BY <1>3, <2>3, <2>7, ShortStack
  <2> QED BY <1>15, <2>4, <2>5, <2>6, <2>7 DEF UpdateRecv
<1> QED BY <1>10, <1>11, <1>12, <1>13, <1>14, <1>15 DEF Update

LEMMA DisciplinedInit == Init => DisciplinedInv
<1> SUFFICES ASSUME Init PROVE DisciplinedInv
  OBVIOUS
<1>1. stack = <<>> /\ lost = FALSE /\ FramesOf(stack) = {}
  BY FramesLit DEF Init
<1>2. AtBottom(stack)
  BY <1>1 DEF AtBottom
<1>3. OpenInv /\ RecvInv
  BY <1>1, <1>2 DEF OpenInv, RecvInv, NoFrame
<1> QED BY <1>3, InvInit DEF DisciplinedInv

LEMMA DisciplinedNext ==
  ASSUME Disciplined
  PROVE  DisciplinedInv /\ [Next]_vars => DisciplinedInv'
<1> SUFFICES ASSUME DisciplinedInv, [Next]_vars
             PROVE  DisciplinedInv'
  OBVIOUS
<1>0. Inv /\ OpenInv /\ RecvInv /\ Inv' /\ TypeOK'
  BY InvNext DEF DisciplinedInv, Inv
<1>1. CASE CallConnect \/ CallCreate \/ CallClose \/ CallSend \/ CallSetIOTimeout
  BY <1>0, <1>1, CallDisciplined DEF DisciplinedInv
<1>2. CASE HandlerReturn \/ Continue
  BY <1>0, <1>2, ContinueDisciplined DEF DisciplinedInv
<1>3. CASE Update
  BY <1>0, <1>3, UpdateDisciplined DEF DisciplinedInv
<1>4. CASE Handshake \/ Tick \/ UNCHANGED vars
  <2>1. UNCHANGED <<stack, state, updating, closeDue, lost>>
        /\ (sock' = "none" <=> sock = "none")
    BY <1>4 DEF Handshake, Tick, vars, stateVars, implVars
  <2> QED BY <1>0, <2>1
            DEF DisciplinedInv, OpenInv, RecvInv, NoFrame, AtBottom, Guarded, FramesOf
<1> QED BY <1>1, <1>2, <1>3, <1>4 DEF Next

LEMMA DisciplinedCorrect ==
  ASSUME Disciplined
  PROVE  Spec => []DisciplinedInv
  BY DisciplinedInit, DisciplinedNext, PTL DEF Spec

\* If handlers open nothing, ::socket never overwrites an open descriptor
\* (SocketLinux::create closes first, and nothing opens in between).
THEOREM NoDescriptorIsLost ==
  ASSUME Disciplined
  PROVE  Spec => []NoDescriptorLost
<1>1. DisciplinedInv => NoDescriptorLost
  BY DEF DisciplinedInv, OpenInv, NoDescriptorLost
<1> QED BY <1>1, DisciplinedCorrect, PTL

\* If handlers open nothing, the isClosed() test of SocketStateConnected::update
\* does protect it from touching its state object after that was deleted.
THEOREM NoVisitIsStale ==
  ASSUME Disciplined
  PROVE  Spec => []NoStaleVisit
<1>1. DisciplinedInv => NoStaleVisit
  <2> SUFFICES ASSUME DisciplinedInv, TopIs("afterRecv"), VisitsObject
               PROVE  updating = "live"
    BY DEF NoStaleVisit
  <2>1. stack \in Seq(Frames) /\ stack # <<>> /\ Head(stack).op = "afterRecv"
    BY DEF DisciplinedInv, Inv, TypeOK, TopIs
  <2>2. Head(stack) = AfterRecv /\ Head(stack) \in FramesOf(stack)
    BY <2>1, PopOne, FramesPop, FrameIs
  <2> QED BY <2>2 DEF DisciplinedInv, RecvInv, VisitsObject
<1> QED BY <1>1, DisciplinedCorrect, PTL

\* If handlers open nothing, the close(true) of an error path closes only the
\* descriptor that failed (Socket::recv, SocketBase::emitError).
THEOREM CleanupIsPrecise ==
  ASSUME Disciplined
  PROVE  Spec => []CleanupHitsFailedDescriptor
<1>1. DisciplinedInv => CleanupHitsFailedDescriptor
  <2> SUFFICES ASSUME DisciplinedInv, TopIs("close"), Head(stack).hasError, sock # "none"
               PROVE  closeDue
    BY DEF CleanupHitsFailedDescriptor
  <2>1. stack \in Seq(Frames) /\ stack # <<>> /\ Head(stack).op = "close"
    BY DEF DisciplinedInv, Inv, TypeOK, TopIs
  <2>2. Head(stack) = Closing(TRUE) /\ Head(stack) \in FramesOf(stack)
    BY <2>1, PopOne, FramesPop, FrameIs
  <2> QED BY <2>2 DEF DisciplinedInv, RecvInv
<1> QED BY <1>1, DisciplinedCorrect, PTL

(***************************************************************************)
(* The refinement of SocketLifecycle.  Whatever handlers do, a step either *)
(* keeps the promise or comes after the loss of a descriptor (`lost`),     *)
(* which is for good; of the invariants only Inv is needed for that.       *)
(***************************************************************************)
\* SocketLinux::close is a Close of the promise, or changes none of it.
LEMMA CloseRefines ==
  ASSUME Inv, ~lost, NEW rest, CloseImpl(rest)
  PROVE  [Lifecycle!Next]_(Lifecycle!lifeVars)
<1>1. CASE sock = "none"
  <2>1. UNCHANGED <<state, closeDue>>
    BY <1>1 DEF CloseImpl, stateVars
  <2> QED BY <2>1 DEF Lifecycle!lifeVars
<1>2. CASE sock # "none"
  <2>1. state # "sClose" /\ state' = "sClose" /\ closeDue' = FALSE
    BY <1>2 DEF CloseImpl, SetState, NewState, Inv, FdInv, FdMatchesState
  <2> QED BY <2>1 DEF Lifecycle!Next, Lifecycle!Close
<1> QED BY <1>1, <1>2

\* connect() on an existing descriptor starts an attempt, or succeeds at once.
LEMMA ConnectRefines ==
  ASSUME TypeOK, NEW rest, StartConnect(rest), state # "sClose", UNCHANGED closeDue
  PROVE  [Lifecycle!Next]_(Lifecycle!lifeVars)
<1>1. CASE state' = state
  BY <1>1 DEF Lifecycle!lifeVars
<1>2. CASE state' # state /\ state' = "sConnected"
  <2>1. state = "sDisconnected"
    BY <1>2 DEF StartConnect, TypeOK, StateTypes, stateVars
  <2> QED BY <1>2, <2>1 DEF Lifecycle!Next, Lifecycle!Establish
<1>3. CASE state' # state /\ state' = "sConnecting"
  <2>1. state \in {"sDisconnected", "sConnected"}
    BY <1>3 DEF TypeOK, StateTypes
  <2> QED BY <1>3, <2>1 DEF Lifecycle!Next, Lifecycle!Attempt
<1> QED BY <1>1, <1>2, <1>3 DEF StartConnect, NewState, stateVars

\* Once a descriptor was overwritten, that is remembered.
LEMMA LossIsForGood ==
  ASSUME [Next]_vars, lost
  PROVE  lost'
  BY DEF Next, vars, CallConnect, CallCreate, Create, CloseImpl, CallClose, CallSend,
         CallSetIOTimeout, HandlerReturn, Continue, DoClose, DoOpen, DoConnect,
         DoAfterRecv, DoUpdateEnd, Update, UpdateConnectExpired, UpdateConnectPending,
         UpdateConnectOk, UpdateConnectFailed, UpdateRecv, UpdateIdle, Handshake, Tick

\* Every step that overwrites no descriptor, and comes before one that does,
\* is a step of SocketLifecycle or leaves its variables alone.
LEMMA StepRefines ==
  ASSUME Inv, [Next]_vars, ~lost'
  PROVE  [Lifecycle!Next]_(Lifecycle!lifeVars)
<1>0. ~lost /\ TypeOK /\ (sock = "none" <=> state = "sClose")
  BY LossIsForGood DEF Inv, FdInv, FdMatchesState
<1>1. CASE CallConnect
  <2>1. CASE \E p \in Protocols : Create(p, TRUE)
    BY <1>0, <2>1, CloseRefines DEF Create
  <2>2. CASE state # "sClose" /\ StartConnect(stack) /\ UNCHANGED closeDue
    BY <1>0, <2>2, ConnectRefines
  <2> QED BY <1>1, <2>1, <2>2 DEF CallConnect
<1>2. CASE CallCreate
  BY <1>0, <1>2, CloseRefines DEF CallCreate, Create
<1>3. CASE CallClose
  BY <1>0, <1>3, CloseRefines DEF CallClose
<1>4. CASE DoClose
  BY <1>0, <1>4, CloseRefines DEF DoClose
<1>5. CASE DoConnect
  <2>1. state # "sClose"
    BY <1>0, <1>5 DEF DoConnect, Inv, FdInv
  <2> QED BY <1>0, <1>5, <2>1, ConnectRefines DEF DoConnect
<1>6. CASE DoOpen
  <2>1. sock = "none"
    BY <1>6 DEF DoOpen
  <2>2. state = "sClose" /\ UNCHANGED closeDue /\ state' \in {state, "sDisconnected"}
    BY <1>0, <1>6, <2>1 DEF DoOpen, SetState, NewState, stateVars
  <2> QED BY <2>2 DEF Lifecycle!Next, Lifecycle!Open, Lifecycle!lifeVars
<1>7. CASE UpdateConnectExpired \/ UpdateConnectFailed
  <2>1. state = "sConnecting" /\ state' = "sDisconnected" /\ closeDue' = TRUE
    BY <1>0, <1>7 DEF UpdateConnectExpired, UpdateConnectFailed
  <2> QED BY <2>1 DEF Lifecycle!Next, Lifecycle!GiveUp
<1>8. CASE UpdateConnectOk
  <2>1. state = "sConnecting" /\ state' = "sConnected" /\ UNCHANGED closeDue
    BY <1>8 DEF UpdateConnectOk
  <2> QED BY <2>1 DEF Lifecycle!Next, Lifecycle!Establish
<1>9. CASE UpdateRecv
  <2>1. state = "sConnected" /\ UNCHANGED state
        /\ (closeDue' = TRUE \/ UNCHANGED closeDue)
    BY <1>9 DEF UpdateRecv
  <2> QED BY <2>1 DEF Lifecycle!Next, Lifecycle!Break, Lifecycle!lifeVars
<1>10. CASE \/ CallSend \/ CallSetIOTimeout \/ HandlerReturn \/ DoAfterRecv \/ DoUpdateEnd
            \/ UpdateConnectPending \/ UpdateIdle \/ Handshake \/ Tick \/ UNCHANGED vars
  <2>1. UNCHANGED <<state, closeDue>>
    BY <1>10 DEF CallSend, CallSetIOTimeout, HandlerReturn, DoAfterRecv, DoUpdateEnd,
                 UpdateConnectPending, UpdateIdle, Handshake, Tick, vars, stateVars
  <2> QED BY <2>1 DEF Lifecycle!lifeVars
<1> QED BY <1>1, <1>2, <1>3, <1>4, <1>5, <1>6, <1>7, <1>8, <1>9, <1>10
        DEF Next, Continue, Update

\* Whatever the handlers call, what getState() shows keeps the promise of
\* SocketLifecycle until ::socket overwrites an open descriptor, which is the
\* only way to break it: a failed descriptor is closed before it is used
\* again, and a new one is opened only in sClose (Socket.cpp, SocketState.cpp).
THEOREM KeepsLifecycleUntilLoss == Spec => LifecycleUntilLoss
<1>1. Init => Lifecycle!Init
  BY DEF Init, Lifecycle!Init
<1>2. Inv /\ [Next]_vars => [lost' \/ Lifecycle!Next]_(Lifecycle!lifeVars)
  BY StepRefines
<1> QED BY <1>1, <1>2, InvCorrect, PTL DEF Spec, LifecycleUntilLoss

\* If handlers open nothing, no descriptor is lost, and the promise is kept
\* without exception.
THEOREM KeepsLifecycle ==
  ASSUME Disciplined
  PROVE  Spec => LifecycleSafety
<1>1. Init => Lifecycle!Init
  BY DEF Init, Lifecycle!Init
<1>2. DisciplinedInv /\ DisciplinedInv' /\ [Next]_vars
        => [Lifecycle!Next]_(Lifecycle!lifeVars)
  BY StepRefines DEF DisciplinedInv, OpenInv
<1> QED BY <1>1, <1>2, DisciplinedCorrect, PTL DEF Spec, LifecycleSafety

(***************************************************************************)
(* Calls come back: the steps inside a call descend.                       *)
(***************************************************************************)
\* Removing the top frame of a stack whose top is not a pending open.
LEMMA PopDescends ==
  ASSUME Inv, stack # <<>>, stack' = Tail(stack), sock' = sock
  PROVE  Nearer
<1>1. /\ stack \in Seq(Frames) /\ Tail(stack) \in Seq(Frames)
      /\ Len(stack) \in Nat /\ Len(Tail(stack)) = Len(stack) - 1
      /\ FramesOf(stack) = {Head(stack)} \cup FramesOf(Tail(stack))
  BY PopOne, FramesPop DEF Inv, TypeOK
<1>2. ~TopIs("connect")'
  <2>1. ASSUME Tail(stack) # <<>> PROVE Head(Tail(stack)).op # "connect"
    <3>1. Head(Tail(stack)) \in FramesOf(Tail(stack))
      BY <1>1, <2>1, FramesPop
    <3> QED BY <3>1 DEF Inv, FdInv, NoFrame
  <2> QED BY <2>1 DEF TopIs
<1>3. Depth' < Depth
  BY <1>1, <1>2 DEF Depth
<1>4. Opens' < Opens \/ Opens' = Opens
  BY <1>1 DEF Opens, NoFrame
<1>5. Holds' = Holds
  BY DEF Holds
<1> QED BY <1>3, <1>4, <1>5 DEF Nearer

\* A close that finds a descriptor lets go of it.
LEMMA CloseDescends ==
  ASSUME Inv, sock # "none", NEW rest \in Seq(Frames), CloseImpl(rest),
         FramesOf(rest) \subseteq FramesOf(stack)
  PROVE  Nearer
<1>1. sock' = "none" /\ stack' = <<Handler("sClose")>> \o rest
  BY DEF CloseImpl
<1>2. Handler("sClose") \in Frames /\ Handler("sClose").op = "handler"
  BY FrameTypes, FrameOps DEF Events
<1>3. FramesOf(stack') = {Handler("sClose")} \cup FramesOf(rest)
  BY <1>1, <1>2, FramesPush
<1>4. Opens' < Opens \/ Opens' = Opens
  BY <1>2, <1>3 DEF Opens, NoFrame
<1>5. Holds' < Holds
  BY <1>1 DEF Holds
<1> QED BY <1>4, <1>5 DEF Nearer

\* A create() that waits on the stack waits at its bottom.
LEMMA OpenDescends ==
  ASSUME DisciplinedInv, DoOpen
  PROVE  Nearer
<1>1. stack \in Seq(Frames) /\ stack # <<>> /\ Head(stack).op = "open" /\ AtBottom(stack)
  BY DEF DisciplinedInv, Inv, TypeOK, OpenInv, DoOpen, TopIs
<1>2. Tail(stack) = <<>> /\ Head(stack) \in FramesOf(stack)
  BY <1>1, BottomFacts, FramesPop
<1>3. Opens = 1
  BY <1>1, <1>2 DEF Opens, NoFrame
<1>4. stack' = <<>> \/ stack' = <<Connecting>>
  <2>1. <<Connecting>> \o <<>> = <<Connecting>>
    OBVIOUS
  <2> QED BY <1>2, <2>1 DEF DoOpen
<1>5. FramesOf(stack') \subseteq {Connecting}
  BY <1>4, FramesLit
<1>6. Opens' = 0
  BY <1>5, FrameOps DEF Opens, NoFrame
<1> QED BY <1>3, <1>6 DEF Nearer

\* After connect() its sConnected handlers run, or nothing.
LEMMA ConnectDescends ==
  ASSUME Inv, DoConnect
  PROVE  Nearer
<1>1. /\ stack \in Seq(Frames) /\ stack # <<>> /\ Head(stack).op = "connect"
      /\ state = "sDisconnected" /\ sock = "unconnected"
      /\ Tail(stack) \in Seq(Frames) /\ Len(stack) \in Nat
      /\ Len(Tail(stack)) = Len(stack) - 1
      /\ FramesOf(stack) = {Head(stack)} \cup FramesOf(Tail(stack))
  BY PopOne, FramesPop DEF Inv, TypeOK, FdInv, DoConnect, TopIs
<1>2. sock' # "none" /\ stack' \in {Tail(stack), <<Handler("sConnected")>> \o Tail(stack)}
  BY <1>1 DEF DoConnect, StartConnect, implVars
<1>3. Holds' = Holds
  BY <1>1, <1>2 DEF Holds
<1>4. Handler("sConnected") \in Frames /\ Handler("sConnected").op = "handler"
  BY FrameTypes, FrameOps DEF Events
<1>5. CASE stack' = Tail(stack)
  <2>1. Depth' < Depth
    <3>1. Depth' = 2 * (Len(stack) - 1) + (IF TopIs("connect")' THEN 1 ELSE 0)
      BY <1>1, <1>5 DEF Depth
    <3>2. Depth = 2 * Len(stack) + 1
      BY <1>1 DEF Depth, TopIs
    <3> QED BY <1>1, <3>1, <3>2
  <2>2. Opens' < Opens \/ Opens' = Opens
    BY <1>1, <1>5 DEF Opens, NoFrame
  <2> QED BY <1>3, <2>1, <2>2 DEF Nearer
<1>6. CASE stack' = <<Handler("sConnected")>> \o Tail(stack)
  <2>1. /\ Head(stack') = Handler("sConnected")
        /\ FramesOf(stack') = {Handler("sConnected")} \cup FramesOf(Tail(stack))
        /\ Len(stack') = Len(stack)
    <3>1. Len(stack') = (Len(stack) - 1) + 1
      BY <1>1, <1>4, <1>6, PushOne
    <3>2. /\ Head(stack') = Handler("sConnected")
          /\ FramesOf(stack') = {Handler("sConnected")} \cup FramesOf(Tail(stack))
      BY <1>1, <1>4, <1>6, FramesPush
    <3> QED BY <1>1, <3>1, <3>2
  <2>2. Depth' < Depth
    <3>1. ~TopIs("connect")' /\ TopIs("connect")
      BY <1>1, <1>4, <2>1 DEF TopIs
    <3> QED BY <1>1, <2>1, <3>1 DEF Depth
  <2>3. Opens' < Opens \/ Opens' = Opens
    BY <1>1, <1>4, <2>1 DEF Opens, NoFrame
  <2> QED BY <1>3, <2>2, <2>3 DEF Nearer
<1> QED BY <1>2, <1>5, <1>6

\* If handlers open nothing, every step inside a call brings its return
\* nearer, and the calls that handlers make on the way never put it off: the
\* handlers of sClose may call close() again, since Socket::onClose runs after
\* sock was set to -1 (SocketLinux.cpp, close).
THEOREM CallsGetNearer ==
  ASSUME Disciplined
  PROVE  Spec => CallsDescend
<1>1. ASSUME DisciplinedInv, [Next]_vars, stack # <<>>
      PROVE  \/ Nearer
             \/ /\ ~(HandlerReturn \/ Continue)
                /\ UNCHANGED <<Opens, Holds, Depth>>
  <2>0. /\ Inv /\ stack \in Seq(Frames) /\ Tail(stack) \in Seq(Frames)
        /\ FramesOf(Tail(stack)) \subseteq FramesOf(stack)
    BY <1>1, PopOne, FramesPop DEF DisciplinedInv, Inv, TypeOK
  <2>1. ~CallConnect /\ ~CallCreate /\ ~Update
    BY <1>1 DEF Disciplined, CallConnect, CallCreate, MayCall, Update,
        UpdateConnectExpired, UpdateConnectPending, UpdateConnectOk,
        UpdateConnectFailed, UpdateRecv, UpdateIdle
  <2>2. CASE HandlerReturn \/ DoAfterRecv \/ DoUpdateEnd
    BY <1>1, <2>0, <2>2, PopDescends
       DEF HandlerReturn, DoAfterRecv, DoUpdateEnd, implVars
  <2>3. CASE DoClose
    <3>1. CASE sock = "none"
      BY <1>1, <2>0, <2>3, <3>1, PopDescends DEF DoClose, CloseImpl
    <3>2. CASE sock # "none"
      BY <2>0, <2>3, <3>2, CloseDescends DEF DoClose
    <3> QED BY <3>1, <3>2
  <2>4. CASE DoOpen
    BY <1>1, <2>4, OpenDescends
  <2>5. CASE DoConnect
    BY <2>0, <2>5, ConnectDescends
  <2>6. CASE ~(HandlerReturn \/ Continue)
    <3>1. CASE CallClose /\ sock # "none"
      BY <2>0, <3>1, CloseDescends DEF CallClose
    <3>2. CASE CallClose /\ sock = "none"
      <4>1. UNCHANGED <<stack, sock>>
        BY <3>2 DEF CallClose, CloseImpl
      <4> QED BY <2>6, <4>1 DEF Opens, Holds, Depth, NoFrame, TopIs
    <3>3. CASE CallSend \/ CallSetIOTimeout \/ Handshake \/ Tick \/ UNCHANGED vars
      <4>1. UNCHANGED stack /\ (sock' = "none" <=> sock = "none")
        BY <3>3 DEF CallSend, CallSetIOTimeout, Handshake, Tick, vars, stateVars, implVars
      <4> QED BY <2>6, <4>1 DEF Opens, Holds, Depth, NoFrame, TopIs
    <3> QED BY <1>1, <2>1, <2>6, <3>1, <3>2, <3>3 DEF Next
  <2> QED BY <2>2, <2>3, <2>4, <2>5, <2>6 DEF Continue
<1> QED BY <1>1, DisciplinedCorrect, PTL DEF Spec, CallsDescend
=============================================================================
