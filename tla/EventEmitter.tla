---------------------------- MODULE EventEmitter ----------------------------
(***************************************************************************)
(* The event handlers of a Socket: `events` maps an event to a vector of   *)
(* handlers, on() appends to the vector and emit() walks it, while the     *)
(* handlers it calls may emit again (by calling the Socket) and register   *)
(* handlers of any event (Socket.cpp).                                     *)
(*                                                                         *)
(* A vector that is full moves its elements to new memory when one is      *)
(* added, and iterators into the old memory, as well as the handlers that  *)
(* run in it, are gone.  Nothing keeps a handler from registering another  *)
(* one for the event it is called for: if there was room, emit() calls the *)
(* new one as well, and if not, its iterator is stale and ++it undefined.  *)
(* The program is not followed any further in an emit that has to use such *)
(* an iterator: HandlerReturn is not enabled.  Names starting with Faulty  *)
(* or Late are wrong variants, for mutation testing of the properties.     *)
(***************************************************************************)
EXTENDS Integers, Sequences

CONSTANTS
  Events,        \* the keys of the map
  MaxHandlers,   \* bound: handlers per event
  MaxDepth       \* bound: emits inside emits

ASSUME HandlersAssumption == MaxHandlers \in Nat \ {0}
ASSUME DepthAssumption == MaxDepth \in Nat \ {0}

VARIABLES
  items,      \* the vector of each event: handlers, by order of registration
  capacity,   \* elements the vector's memory holds
  block,      \* generation of that memory, 0 for an event without a vector
  stack       \* the running emits, innermost first

vars == <<items, capacity, block, stack>>

\* An emit at position i of the vector, counted from 1; `running` while the
\* handler at i is.  `room` and `seen` are history: how many handlers the memory
\* that `block` names had room for, and the handlers called so far.
Frames == [ev : Events, i : 1..(MaxHandlers + 1), block : Nat, room : Nat,
           running : BOOLEAN, seen : Seq(1..MaxHandlers)]

Started(ev) == [ev |-> ev, i |-> 1, block |-> block[ev], room |-> capacity[ev],
                running |-> FALSE, seen |-> <<>>]

\* The iterator of emit f points into memory that its vector has left.
Stale(f) == f.block # block[f.ev]

\* The application acts from its main loop or from the innermost handler.
InApplication == stack # <<>> => Head(stack).running

\* std::vector::push_back: a full vector moves to more memory.  How much more is
\* the library's choice, at most twice as much.
LateFull(ev) == Len(items[ev]) > capacity[ev]    \* one too late
Full(ev) == Len(items[ev]) = capacity[ev]
Grown(n) == IF n = 0 THEN {1} ELSE (n + 1)..(2 * n)

FaultyMoved(ev) == [e \in Events |-> block[e] + 1]  \* a growing map moves them all
Moved(ev) == [block EXCEPT ![ev] = @ + 1]

\* Socket::on: the first handler of an event makes its vector.  It is called at
\* any time, also by a handler of the event.
On(ev) ==
  /\ InApplication
  /\ Len(items[ev]) < MaxHandlers
  /\ items' = [items EXCEPT ![ev] = Append(@, Len(@) + 1)]
  /\ \/ /\ Full(ev)
        /\ \E c \in Grown(capacity[ev]) : capacity' = [capacity EXCEPT ![ev] = c]
        /\ block' = Moved(ev)
     \/ /\ ~Full(ev)
        /\ UNCHANGED <<capacity, block>>
  /\ UNCHANGED stack

\* Socket::emit finds the vector and takes begin(); end() is asked for anew in
\* every round.  An event nobody listens to is not in the map.
Emit(ev) ==
  /\ InApplication /\ Len(stack) < MaxDepth
  /\ block[ev] # 0
  /\ stack' = <<Started(ev)>> \o stack
  /\ UNCHANGED <<items, capacity, block>>

AtHandler == /\ stack # <<>> /\ ~Head(stack).running
             /\ Head(stack).i <= Len(items[Head(stack).ev])

CallHandler ==
  /\ AtHandler
  /\ LET f == Head(stack)
     IN stack' = <<[f EXCEPT !.running = TRUE,
                             !.seen = Append(@, items[f.ev][f.i])]>> \o Tail(stack)
  /\ UNCHANGED <<items, capacity, block>>

NextPosition(i) == i + 1

\* ++it, which has a meaning only while the vector is where it was.
HandlerReturn ==
  /\ stack # <<>> /\ Head(stack).running /\ ~Stale(Head(stack))
  /\ stack' = <<[Head(stack) EXCEPT !.running = FALSE,
                                    !.i = NextPosition(@)]>> \o Tail(stack)
  /\ UNCHANGED <<items, capacity, block>>

FaultyResumed(f, rest) ==    \* one iterator, a member, for all emits
  IF rest = <<>> THEN rest ELSE <<[Head(rest) EXCEPT !.i = f.i]>> \o Tail(rest)
Resumed(f, rest) == rest

EmitReturn ==
  /\ stack # <<>> /\ ~Head(stack).running /\ ~AtHandler
  /\ stack' = Resumed(Head(stack), Tail(stack))
  /\ UNCHANGED <<items, capacity, block>>

Init ==
  /\ items = [e \in Events |-> <<>>]
  /\ capacity = [e \in Events |-> 0]
  /\ block = [e \in Events |-> 0]
  /\ stack = <<>>

Next ==
  \/ \E ev \in Events : On(ev) \/ Emit(ev)
  \/ CallHandler \/ HandlerReturn \/ EmitReturn

Spec == Init /\ [][Next]_vars

(***************************************************************************)
(* Properties.                                                             *)
(***************************************************************************)
\* The type invariant.
TypeOK ==
  /\ items \in [Events -> Seq(1..MaxHandlers)]
  /\ capacity \in [Events -> Nat]
  /\ \A e \in Events : Len(items[e]) <= capacity[e]
  /\ block \in [Events -> Nat]
  /\ stack \in Seq(Frames)
  /\ Len(stack) <= MaxDepth

\* An emit loses its iterator exactly when handlers outgrow the memory it began
\* in: whatever is registered in the meantime, by whichever of the nested
\* handlers and for whichever event, does no harm as long as the handlers of its
\* own event still fit (Socket.cpp:568).
StaleOnlyWhenOutgrown ==
  \A k \in 1..Len(stack) :
    Stale(stack[k]) <=> Len(items[stack[k].ev]) > stack[k].room

\* An emit that keeps its iterator calls the handlers of its event once each, in
\* the order of registration, whatever they emit and register in between, and
\* before it returns has called those as well that were registered meanwhile.
EachHandlerOnce ==
  \A k \in 1..Len(stack) :
    LET f == stack[k] IN
      ~Stale(f) =>
        /\ Len(f.seen) = IF f.running THEN f.i ELSE f.i - 1
        /\ \A n \in DOMAIN f.seen : n \in DOMAIN items[f.ev] /\ f.seen[n] = items[f.ev][n]
        /\ ~f.running /\ f.i > Len(items[f.ev]) => f.seen = items[f.ev]
=============================================================================
