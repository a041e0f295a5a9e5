------------------------- MODULE EventEmitterProofs -------------------------
(***************************************************************************)
(* Proofs about EventEmitter, for every set of events, any number of       *)
(* handlers and any depth of emits inside emits.                           *)
(***************************************************************************)
EXTENDS EventEmitter, SequenceTheorems, TLAPS

(***************************************************************************)
(* The inductive invariant.  An emit whose vector has not moved has all the *)
(* handlers registered so far before it or behind it, in memory as large as *)
(* it was; the vector of any other emit is in memory taken later, because  *)
(* its handlers no longer fitted.                                          *)
(***************************************************************************)
InPlace(f) ==
  /\ f.room = capacity[f.ev]
  /\ f.i <= (IF f.running THEN Len(items[f.ev]) ELSE Len(items[f.ev]) + 1)
  /\ Len(f.seen) = IF f.running THEN f.i ELSE f.i - 1
  /\ \A n \in 1..Len(f.seen) : f.seen[n] = items[f.ev][n]

Outgrown(f) == f.block < block[f.ev] /\ Len(items[f.ev]) > f.room

FrameOK(f) == IF Stale(f) THEN Outgrown(f) ELSE InPlace(f)

Inv ==
  /\ TypeOK
  /\ \A e \in Events : Len(items[e]) <= MaxHandlers
  /\ \A k \in 1..Len(stack) : FrameOK(stack[k])

\* Pushing a frame on a stack, popping one, and replacing the top frame.
LEMMA Push ==
  ASSUME NEW s \in Seq(Frames), NEW f \in Frames
  PROVE  /\ <<f>> \o s \in Seq(Frames) /\ Len(<<f>> \o s) = Len(s) + 1
         /\ \A k \in 1..(Len(s) + 1) :
              (<<f>> \o s)[k] = IF k = 1 THEN f ELSE s[k - 1]
<1>1. <<f>> \in Seq(Frames) /\ Len(<<f>>) = 1 /\ <<f>>[1] = f
  OBVIOUS
<1> QED BY <1>1, ConcatProperties

LEMMA Pop ==
  ASSUME NEW s \in Seq(Frames), s # <<>>
  PROVE  /\ Head(s) \in Frames /\ Tail(s) \in Seq(Frames)
         /\ Head(s) = s[1] /\ Len(s) \in Nat /\ Len(s) > 0
         /\ Len(Tail(s)) = Len(s) - 1
         /\ \A k \in 1..(Len(s) - 1) : Tail(s)[k] = s[k + 1]
<1>1. Head(s) = s[1] /\ Len(s) > 0
  OBVIOUS
<1> QED BY <1>1, HeadTailProperties, LenProperties

LEMMA InitInv == Init => Inv
<1> SUFFICES ASSUME Init PROVE Inv
  OBVIOUS
<1>1. \A e \in Events : items[e] = <<>> /\ Len(items[e]) = 0
  BY DEF Init
<1>2. <<>> \in Seq(1..MaxHandlers) /\ stack \in Seq(Frames) /\ Len(stack) = 0
  BY EmptySeq DEF Init
<1> QED BY <1>1, <1>2, HandlersAssumption, DepthAssumption DEF Init, Inv, TypeOK

\* on(): the emits of the event stay in place if there was room, and are
\* outgrown if not; the others are not concerned.
LEMMA OnInv ==
  ASSUME Inv, NEW ev \in Events, On(ev)
  PROVE  Inv'
<1>1. /\ items \in [Events -> Seq(1..MaxHandlers)] /\ block \in [Events -> Nat]
      /\ capacity \in [Events -> Nat] /\ stack \in Seq(Frames) /\ Len(stack) <= MaxDepth
      /\ stack' = stack
  BY DEF Inv, TypeOK, On
<1> DEFINE seq == items[ev]
           new == Append(seq, Len(seq) + 1)
<1>2. /\ seq \in Seq(1..MaxHandlers) /\ Len(seq) < MaxHandlers /\ Len(seq) \in Nat
      /\ items' = [items EXCEPT ![ev] = new]
  BY <1>1, LenProperties DEF On
<1>3. /\ new \in Seq(1..MaxHandlers) /\ Len(new) = Len(seq) + 1
      /\ \A n \in 1..Len(seq) : new[n] = seq[n]
  BY <1>2, AppendProperties, HandlersAssumption
<1>4. Len(seq) <= capacity[ev] /\ capacity[ev] \in Nat
  BY <1>1 DEF Inv, TypeOK
<1> HIDE DEF new
<1>5. /\ items' \in [Events -> Seq(1..MaxHandlers)] /\ items'[ev] = new
      /\ \A e \in Events \ {ev} : items'[e] = items[e]
  BY <1>1, <1>2, <1>3
<1>6. /\ capacity' \in [Events -> Nat] /\ block' \in [Events -> Nat]
      /\ capacity'[ev] >= Len(new)
      /\ \A e \in Events \ {ev} : capacity'[e] = capacity[e] /\ block'[e] = block[e]
      /\ IF Full(ev) THEN block'[ev] = block[ev] + 1
                     ELSE capacity'[ev] = capacity[ev] /\ block'[ev] = block[ev]
  <2>1. CASE Full(ev)
    <3>1. PICK c \in Grown(capacity[ev]) : capacity' = [capacity EXCEPT ![ev] = c]
      BY <2>1 DEF On
    <3>2. c \in Nat /\ c >= capacity[ev] + 1
      BY <1>4, <3>1 DEF Grown
    <3>3. block' = [block EXCEPT ![ev] = @ + 1]
      BY <2>1 DEF On, Moved
    <3> QED BY <1>1, <1>2, <1>3, <1>4, <2>1, <3>1, <3>2, <3>3
  <2>2. CASE ~Full(ev)
    <3>1. capacity' = capacity /\ block' = block
      BY <2>2 DEF On
    <3> QED BY <1>1, <1>2, <1>3, <1>4, <2>2, <3>1 DEF Full
  <2> QED BY <2>1, <2>2
<1>7. TypeOK'
  BY <1>1, <1>5, <1>6 DEF Inv, TypeOK
<1>8. \A e \in Events : Len(items'[e]) <= MaxHandlers
  BY <1>2, <1>3, <1>5, HandlersAssumption DEF Inv
<1>9. ASSUME NEW f \in Frames, FrameOK(f)
      PROVE  FrameOK(f)'
  <2>1. /\ f.ev \in Events /\ f.block \in Nat /\ f.room \in Nat /\ f.i \in Nat
        /\ f.seen \in Seq(1..MaxHandlers)
    BY HandlersAssumption DEF Frames
  <2>2. Len(f.seen) \in Nat
    BY <2>1, LenProperties
  <2>3. CASE f.ev # ev
    BY <1>5, <1>6, <2>1, <2>3, <1>9 DEF FrameOK, Stale, Outgrown, InPlace
  <2>4. CASE f.ev = ev /\ Stale(f)
    <3>1. Outgrown(f)
      BY <2>4, <1>9 DEF FrameOK
    <3>2. block'[ev] >= block[ev] /\ block[ev] \in Nat /\ block'[ev] \in Nat
      BY <1>1, <1>6
    <3>3. f.block < block'[ev] /\ Len(items'[ev]) > f.room
      BY <1>2, <1>3, <1>5, <2>1, <2>4, <3>1, <3>2 DEF Outgrown
    <3> QED BY <2>1, <2>4, <3>2, <3>3 DEF FrameOK, Stale, Outgrown
  <2>5. CASE f.ev = ev /\ ~Stale(f)
    <3>1. InPlace(f) /\ f.block = block[ev]
      BY <2>5, <1>9 DEF FrameOK, Stale
    <3>2. CASE Full(ev)
      <4>1. f.block < block'[ev] /\ block'[ev] \in Nat /\ Len(items'[ev]) > f.room
        BY <1>1, <1>2, <1>3, <1>5, <1>6, <2>1, <2>5, <3>1, <3>2 DEF InPlace, Full
      <4> QED BY <2>1, <2>5, <4>1 DEF FrameOK, Stale, Outgrown
    <3>3. CASE ~Full(ev)
      <4>1. ~Stale(f)' /\ f.room = capacity'[ev]
        BY <1>6, <2>5, <3>1, <3>3 DEF Stale, InPlace
      <4>2. f.i <= (IF f.running THEN Len(new) ELSE Len(new) + 1)
        BY <1>2, <1>3, <2>1, <2>5, <3>1 DEF InPlace
      <4>3. Len(f.seen) = (IF f.running THEN f.i ELSE f.i - 1) /\ Len(f.seen) <= Len(seq)
        BY <1>2, <2>1, <2>2, <2>5, <3>1 DEF InPlace
      <4>4. \A n \in 1..Len(f.seen) : f.seen[n] = new[n]
        <5>1. \A n \in 1..Len(f.seen) : n \in 1..Len(seq) /\ f.seen[n] = seq[n]
          BY <1>2, <2>1, <2>2, <2>5, <3>1, <4>3 DEF InPlace
        <5> QED BY <1>3, <5>1
      <4>5. InPlace(f)'
        BY <1>5, <2>5, <4>1, <4>2, <4>3, <4>4 DEF InPlace
      <4> QED BY <4>1, <4>5 DEF FrameOK
    <3> QED BY <3>2, <3>3
  <2> QED BY <2>3, <2>4, <2>5
<1>10. ASSUME NEW k \in 1..Len(stack)
       PROVE  FrameOK(stack[k])'
  <2>1. stack[k] \in Frames /\ FrameOK(stack[k])
    BY <1>1 DEF Inv
  <2> QED BY <1>1, <1>9, <2>1 DEF FrameOK, Stale, Outgrown, InPlace
<1> QED BY <1>1, <1>7, <1>8, <1>10 DEF Inv

\* A frame pushed or put in the place of the top one.
LEMMA StackInv ==
  ASSUME Inv, UNCHANGED <<items, capacity, block>>,
         NEW rest \in Seq(Frames), NEW f \in Frames,
         stack' = <<f>> \o rest, Len(rest) < MaxDepth,
         \A k \in 1..Len(rest) : FrameOK(rest[k]), FrameOK(f)
  PROVE  Inv'
<1>1. /\ stack' \in Seq(Frames) /\ Len(stack') = Len(rest) + 1 /\ Len(rest) \in Nat
      /\ \A k \in 1..(Len(rest) + 1) : stack'[k] = IF k = 1 THEN f ELSE rest[k - 1]
  BY Push, LenProperties
<1>2. TypeOK'
  BY <1>1, DepthAssumption DEF Inv, TypeOK
<1>3. ASSUME NEW k \in 1..Len(stack')
      PROVE  FrameOK(stack[k])'
  <2>1. stack'[k] = f \/ (k - 1 \in 1..Len(rest) /\ stack'[k] = rest[k - 1])
    BY <1>1, <1>3
  <2>2. FrameOK(stack'[k])
    BY <2>1
  <2> QED BY <2>2 DEF FrameOK, Stale, Outgrown, InPlace
<1> QED BY <1>2, <1>3 DEF Inv

LEMMA EmitInv ==
  ASSUME Inv, NEW ev \in Events, Emit(ev)
  PROVE  Inv'
<1>1. /\ items[ev] \in Seq(1..MaxHandlers) /\ block[ev] \in Nat /\ capacity[ev] \in Nat
      /\ stack \in Seq(Frames) /\ Len(items[ev]) \in Nat
  BY LenProperties DEF Inv, TypeOK
<1>2. <<>> \in Seq(1..MaxHandlers) /\ Len(<<>>) = 0
  BY EmptySeq
<1>3. Started(ev) \in Frames
  BY <1>1, <1>2, HandlersAssumption DEF Started, Frames
<1>4. FrameOK(Started(ev))
  BY <1>1, <1>2 DEF Started, FrameOK, Stale, InPlace
<1> QED BY <1>1, <1>3, <1>4, StackInv DEF Emit, Inv

\* What the top frame of a pending emit looks like.
LEMMA TopFrame ==
  ASSUME Inv, stack # <<>>
  PROVE  /\ stack \in Seq(Frames) /\ Head(stack) \in Frames /\ FrameOK(Head(stack))
         /\ Tail(stack) \in Seq(Frames) /\ Len(Tail(stack)) < MaxDepth
         /\ \A k \in 1..Len(Tail(stack)) : FrameOK(Tail(stack)[k])
         /\ Head(stack).ev \in Events /\ Head(stack).i \in Nat \ {0}
         /\ Head(stack).running \in BOOLEAN
         /\ Head(stack).seen \in Seq(1..MaxHandlers)
         /\ items[Head(stack).ev] \in Seq(1..MaxHandlers)
         /\ Len(items[Head(stack).ev]) \in Nat
         /\ Len(items[Head(stack).ev]) <= MaxHandlers
<1>1. stack \in Seq(Frames) /\ Len(stack) <= MaxDepth
  BY DEF Inv, TypeOK
<1>2. /\ Head(stack) \in Frames /\ Tail(stack) \in Seq(Frames)
      /\ Head(stack) = stack[1] /\ Len(stack) \in Nat /\ Len(stack) > 0
      /\ Len(Tail(stack)) = Len(stack) - 1
      /\ \A k \in 1..(Len(stack) - 1) : Tail(stack)[k] = stack[k + 1]
  BY <1>1, Pop
<1>3. FrameOK(Head(stack)) /\ \A k \in 1..Len(Tail(stack)) : FrameOK(Tail(stack)[k])
  BY <1>2 DEF Inv
<1>4. /\ Head(stack).ev \in Events /\ Head(stack).i \in Nat \ {0}
      /\ Head(stack).running \in BOOLEAN
      /\ Head(stack).seen \in Seq(1..MaxHandlers)
  BY <1>2, HandlersAssumption DEF Frames
<1>5. /\ items[Head(stack).ev] \in Seq(1..MaxHandlers)
      /\ Len(items[Head(stack).ev]) \in Nat
      /\ Len(items[Head(stack).ev]) <= MaxHandlers
  BY <1>4, LenProperties DEF Inv, TypeOK
<1> QED BY <1>1, <1>2, <1>3, <1>4, <1>5, DepthAssumption

\* The next handler: its position is within the vector.
LEMMA CallInv ==
  ASSUME Inv, CallHandler
  PROVE  Inv'
<1> DEFINE f == Head(stack)
           h == items[f.ev][f.i]
           g == [f EXCEPT !.running = TRUE, !.seen = Append(@, h)]
<1>0. stack # <<>> /\ ~f.running
  BY DEF CallHandler, AtHandler
<1>1. /\ f \in Frames /\ FrameOK(f) /\ f.i \in Nat \ {0} /\ f.ev \in Events
      /\ f.seen \in Seq(1..MaxHandlers) /\ items[f.ev] \in Seq(1..MaxHandlers)
      /\ f.i <= Len(items[f.ev]) /\ Len(items[f.ev]) \in Nat /\ Len(f.seen) \in Nat
  BY <1>0, TopFrame, LenProperties DEF CallHandler, AtHandler
<1>2. h \in 1..MaxHandlers
  <2>1. f.i \in 1..Len(items[f.ev])
    BY <1>1
  <2> QED BY <1>1, <2>1, ElementOfSeq
<1>3. stack' = <<g>> \o Tail(stack) /\ UNCHANGED <<items, capacity, block>>
  BY DEF CallHandler
<1>4. /\ Append(f.seen, h) \in Seq(1..MaxHandlers)
      /\ Len(Append(f.seen, h)) = Len(f.seen) + 1
      /\ \A n \in 1..(Len(f.seen) + 1) :
           Append(f.seen, h)[n] = IF n = Len(f.seen) + 1 THEN h ELSE f.seen[n]
  BY <1>1, <1>2, AppendProperties
<1>5. /\ g.running = TRUE /\ g.seen = Append(f.seen, h) /\ g.room = f.room
      /\ g.ev = f.ev /\ g.i = f.i /\ g.block = f.block /\ g \in Frames
  BY <1>1, <1>4 DEF Frames
<1>6. FrameOK(g)
  <2>1. CASE Stale(f)
    <3>1. Outgrown(f)
      BY <1>1, <2>1 DEF FrameOK
    <3> HIDE DEF g
    <3> QED BY <1>5, <2>1, <3>1 DEF FrameOK, Stale, Outgrown
  <2>2. CASE ~Stale(f)
    <3>1. /\ f.room = capacity[f.ev] /\ Len(f.seen) = f.i - 1
          /\ \A n \in 1..Len(f.seen) : f.seen[n] = items[f.ev][n]
      BY <1>0, <1>1, <2>2 DEF FrameOK, InPlace
    <3>2. /\ Len(g.seen) = f.i
          /\ \A n \in 1..f.i : g.seen[n] = items[f.ev][n]
      BY <1>1, <1>4, <1>5, <3>1
    <3> HIDE DEF g, h
    <3> QED BY <1>1, <1>5, <2>2, <3>1, <3>2 DEF FrameOK, Stale, InPlace
  <2> QED BY <2>1, <2>2
<1> HIDE DEF g
<1> QED BY <1>0, <1>3, <1>5, <1>6, TopFrame, StackInv

LEMMA ReturnInv ==
  ASSUME Inv, HandlerReturn
  PROVE  Inv'
<1> DEFINE f == Head(stack)
           g == [f EXCEPT !.running = FALSE, !.i = NextPosition(@)]
<1>0. stack # <<>> /\ f.running /\ ~Stale(f)
  BY DEF HandlerReturn
<1>1. /\ f \in Frames /\ InPlace(f) /\ f.i \in Nat \ {0}
      /\ f.i <= Len(items[f.ev]) /\ Len(items[f.ev]) \in Nat
      /\ Len(items[f.ev]) <= MaxHandlers
  BY <1>0, TopFrame DEF FrameOK, InPlace
<1>2. /\ g.running = FALSE /\ g.i = f.i + 1 /\ g.seen = f.seen /\ g.room = f.room
      /\ g.ev = f.ev /\ g.block = f.block /\ g \in Frames
  <2>1. NextPosition(f.i) = f.i + 1 /\ f.i + 1 \in 1..(MaxHandlers + 1)
    BY <1>1, HandlersAssumption DEF NextPosition
  <2> QED BY <1>1, <2>1 DEF Frames
<1>3. stack' = <<g>> \o Tail(stack) /\ UNCHANGED <<items, capacity, block>>
  BY DEF HandlerReturn
<1> HIDE DEF g
<1>4. FrameOK(g)
  BY <1>0, <1>1, <1>2 DEF FrameOK, Stale, InPlace
<1> QED BY <1>0, <1>2, <1>3, <1>4, TopFrame, StackInv

LEMMA EmitReturnInv ==
  ASSUME Inv, EmitReturn
  PROVE  Inv'
<1>1. stack # <<>> /\ stack' = Tail(stack) /\ UNCHANGED <<items, capacity, block>>
  BY DEF EmitReturn, Resumed
<1>2. TypeOK'
  BY <1>1, TopFrame, DepthAssumption DEF Inv, TypeOK
<1>3. \A k \in 1..Len(stack') : FrameOK(stack[k])'
  BY <1>1, TopFrame DEF FrameOK, Stale, Outgrown, InPlace
<1> QED BY <1>1, <1>2, <1>3 DEF Inv

LEMMA InvCorrect == Spec => []Inv
<1>1. Inv /\ [Next]_vars => Inv'
  <2> SUFFICES ASSUME Inv, [Next]_vars PROVE Inv'
    OBVIOUS
  <2>1. CASE UNCHANGED vars
    BY <2>1 DEF vars, Inv, TypeOK, FrameOK, Stale, Outgrown, InPlace
  <2> QED BY <2>1, OnInv, EmitInv, CallInv, ReturnInv, EmitReturnInv DEF Next
<1> QED BY <1>1, InitInv, PTL DEF Spec

\* Every reachable state of the event map is well typed, and no vector holds
\* more handlers than its memory has room for (Socket::on).
THEOREM TypeCorrect == Spec => []TypeOK
<1>1. Inv => TypeOK
  BY DEF Inv
<1> QED BY <1>1, InvCorrect, PTL

\* An emit, however deeply it is nested, loses its iterator exactly when the
\* handlers of its event outgrow the memory it began in (Socket::emit, Socket::on).
THEOREM IteratorsStale == Spec => []StaleOnlyWhenOutgrown
<1>1. Inv => StaleOnlyWhenOutgrown
  <2> SUFFICES ASSUME Inv, NEW k \in 1..Len(stack)
               PROVE  Stale(stack[k]) <=> Len(items[stack[k].ev]) > stack[k].room
    BY DEF StaleOnlyWhenOutgrown
  <2> DEFINE f == stack[k]
  <2>1. FrameOK(f) /\ f \in Frames
    BY DEF Inv, TypeOK
  <2>2. f.ev \in Events /\ f.room \in Nat
    BY <2>1 DEF Frames
  <2>3. Len(items[f.ev]) <= capacity[f.ev] /\ capacity[f.ev] \in Nat
        /\ Len(items[f.ev]) \in Nat
    BY <2>2, LenProperties DEF Inv, TypeOK
  <2> HIDE DEF f
  <2>4. Stale(f) <=> Len(items[f.ev]) > f.room
    BY <2>1, <2>2, <2>3 DEF FrameOK, Outgrown, InPlace
  <2> QED BY <2>4 DEF f
<1> QED BY <1>1, InvCorrect, PTL

\* An emit that keeps its iterator calls every handler exactly once and in its
\* turn, those registered meanwhile included (Socket::emit).
THEOREM HandlersCalledOnce == Spec => []EachHandlerOnce
<1>1. Inv => EachHandlerOnce
  <2> SUFFICES ASSUME Inv, NEW k \in 1..Len(stack), ~Stale(stack[k])
               PROVE  LET f == stack[k] IN
                      /\ Len(f.seen) = IF f.running THEN f.i ELSE f.i - 1
                      /\ \A n \in DOMAIN f.seen :
                           n \in DOMAIN items[f.ev] /\ f.seen[n] = items[f.ev][n]
                      /\ ~f.running /\ f.i > Len(items[f.ev]) => f.seen = items[f.ev]
    BY DEF EachHandlerOnce
  <2> DEFINE f == stack[k]
             s == items[f.ev]
  <2>1. f \in Frames /\ InPlace(f)
    BY DEF Inv, TypeOK, FrameOK
  <2>2. /\ f.seen \in Seq(1..MaxHandlers) /\ s \in Seq(1..MaxHandlers)
        /\ f.i \in Nat \ {0} /\ f.running \in BOOLEAN
    <3>1. /\ f.seen \in Seq(1..MaxHandlers) /\ f.ev \in Events
          /\ f.i \in Nat \ {0} /\ f.running \in BOOLEAN
      BY <2>1, HandlersAssumption DEF Frames
    <3> QED BY <3>1 DEF Inv, TypeOK
  <2>3. /\ DOMAIN f.seen = 1..Len(f.seen) /\ DOMAIN s = 1..Len(s)
        /\ Len(f.seen) \in Nat /\ Len(s) \in Nat
    BY <2>2, LenProperties
  <2>4. /\ Len(f.seen) = (IF f.running THEN f.i ELSE f.i - 1)
        /\ f.i <= (IF f.running THEN Len(s) ELSE Len(s) + 1)
        /\ \A n \in 1..Len(f.seen) : f.seen[n] = s[n]
    BY <2>1 DEF InPlace
  <2> HIDE DEF f, s
  <2>5. Len(f.seen) <= Len(s)
    BY <2>2, <2>3, <2>4
  <2>6. ASSUME ~f.running, f.i > Len(s)
        PROVE  f.seen = s
    <3>1. Len(f.seen) = Len(s)
      BY <2>2, <2>3, <2>4, <2>6
    <3> QED BY <2>2, <2>4, <3>1, SeqEqual
  <2> QED BY <2>3, <2>4, <2>5, <2>6 DEF f, s
<1> QED BY <1>1, InvCorrect, PTL
=============================================================================
