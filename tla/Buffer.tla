------------------------------- MODULE Buffer -------------------------------
(***************************************************************************)
(* Buffer (Buffer.cpp): the byte array of every sData report, its bounded  *)
(* write, copy and slice, and its integers and floats of fixed width in    *)
(* either byte order, on a host of either endianness.                      *)
(*                                                                         *)
(* A value of w bytes is the function from significance to bytes: v[0] is  *)
(* the least significant byte.  Signed, unsigned and floating types of one *)
(* width go through the same code, so the type is left out.  Memory that   *)
(* was never written holds Junk.  A store outside the allocation makes the *)
(* domain of `cells` grow, so that an overrun shows.                       *)
(*                                                                         *)
(* Offsets and lengths are not negative, and no end lies before its start: *)
(* the code checks neither.  Names starting with Faulty are wrong          *)
(* variants, for mutation testing of the properties.                       *)
(***************************************************************************)
EXTENDS Integers

CONSTANTS
  Bufs,      \* the Buffer objects; bounds the model
  Byte,      \* the values of a byte
  Junk,      \* what uninitialised memory holds
  Widths,    \* the widths in bytes of the values in use, of 1, 2, 4 and 8
  MaxLen     \* bound: the longest buffer made

ASSUME ByteAssumption == 0 \in Byte /\ Junk \notin Byte
ASSUME WidthsAssumption == Widths \subseteq {1, 2, 4, 8}
ASSUME MaxLenAssumption == MaxLen \in Nat

VARIABLES
  heap,      \* the living buffers
  fields     \* history: the values each of them should hold, and where

vars == <<heap, fields>>

Orders == {"LE", "BE"}
Value(w) == [0..(w - 1) -> Byte]
Field == UNION {[off : 0..MaxLen, w : {w}, order : Orders, v : Value(w)] :
                w \in Widths}

With(f, b, x) == [c \in DOMAIN f \cup {b} |-> IF c = b THEN x ELSE f[c]]
Without(f, b) == [c \in DOMAIN f \ {b} |-> f[c]]

(***************************************************************************)
(* The constructors.  `big` is isBigEndian() of the host the buffer is on. *)
(***************************************************************************)
Allocated(len, big) ==
  [len |-> len, weakptr |-> FALSE, big |-> big,
   cells |-> [k \in 0..len |-> IF k = len THEN 0 ELSE Junk]]

\* Buffer(char*, int): the application's memory, without a terminator.
Wrapped(len, big, str) ==
  [len |-> len, weakptr |-> TRUE, big |-> big, cells |-> str]

(***************************************************************************)
(* write, copy and slice.                                                  *)
(***************************************************************************)
Stored(buf, off, n, str) ==
  [buf EXCEPT !.cells =
     [k \in DOMAIN @ \cup off..(off + n - 1) |->
        IF k \in off..(off + n - 1) THEN str[k - off] ELSE @[k]]]

\* The number of bytes write() stores.
FaultyClamp(buf, off, n) ==        \* room for one more, on the terminator
  IF off >= buf.len THEN 0 ELSE IF n > buf.len - off THEN buf.len - off + 1 ELSE n
FaultyNoClamp(buf, off, n) == n
Clamp(buf, off, n) ==
  IF off >= buf.len THEN 0 ELSE IF n > buf.len - off THEN buf.len - off ELSE n

Write(buf, str, off, n) == Stored(buf, off, Clamp(buf, off, n), str)

\* The bytes copy() hands to write(): `send` is cut to the length, and is the
\* first byte left out.
Extent(buf, soff, send) ==
  IF soff >= buf.len THEN 0
  ELSE (IF send > buf.len THEN buf.len ELSE send) - soff

FaultyCopyTo(pt, poff, buf, soff, send) ==       \* from the start, not from soff
  Write(pt, [k \in 0..MaxLen |-> IF k \in DOMAIN buf.cells THEN buf.cells[k]
                                                           ELSE Junk],
        poff, Extent(buf, soff, send))

CopyTo(pt, poff, buf, soff, send) ==
  Write(pt, [k \in 0..MaxLen |-> IF soff + k \in DOMAIN buf.cells
                                   THEN buf.cells[soff + k] ELSE Junk],
        poff, Extent(buf, soff, send))

Sliced(buf, offset, end) ==
  CopyTo(Allocated(end - offset, buf.big), 0, buf, offset, end)

(***************************************************************************)
(* The readers and writers of values.                                      *)
(***************************************************************************)
\* Byte k of a value in the host's memory, (char*)&value; and back.
HostImage(v, w, big) == [k \in 0..(w - 1) |-> IF big THEN v[w - 1 - k] ELSE v[k]]

\* The exchange the LE and the BE functions make on a host of each kind.
Swaps(big, order) == (order = "LE") = big

Fits(buf, off, w) == off <= buf.len - w

FaultyRead(buf, off, w, order) ==      \* the bytes in the order of the buffer
  IF ~Fits(buf, off, w) THEN [k \in 0..(w - 1) |-> 0]
  ELSE HostImage([k \in 0..(w - 1) |-> buf.cells[off + k]], w, buf.big)

Read(buf, off, w, order) ==
  IF ~Fits(buf, off, w) THEN [k \in 0..(w - 1) |-> 0]
  ELSE HostImage([k \in 0..(w - 1) |->
                    buf.cells[IF Swaps(buf.big, order) THEN off + w - 1 - k
                                                       ELSE off + k]], w, buf.big)

Put(buf, off, w, order, v) ==
  LET p == HostImage(v, w, buf.big)
  IN IF ~Fits(buf, off, w) THEN buf
     ELSE Stored(buf, off, w, [k \in 0..(w - 1) |->
            IF Swaps(buf.big, order) THEN p[w - 1 - k] ELSE p[k]])

(***************************************************************************)
(* The history: which values survive a store of n bytes at off, and which  *)
(* come along when n bytes are copied from soff to poff.                   *)
(***************************************************************************)
Surviving(fs, off, n) == {f \in fs : f.off + f.w <= off \/ off + n <= f.off}
Carried(fs, soff, poff, n) ==
  {[f EXCEPT !.off = @ - soff + poff] :
     f \in {g \in fs : soff <= g.off /\ g.off + g.w <= soff + n}}

(***************************************************************************)
(* The actions.                                                            *)
(***************************************************************************)
Alloc ==
  \E b \in Bufs \ DOMAIN heap, len \in 0..MaxLen, big \in BOOLEAN :
    /\ heap' = With(heap, b, Allocated(len, big))
    /\ fields' = With(fields, b, {})

Wrap ==
  \E b \in Bufs \ DOMAIN heap, len \in 1..MaxLen, big \in BOOLEAN :
    /\ heap' = With(heap, b, Wrapped(len, big, [k \in 0..(len - 1) |-> 0]))
    /\ fields' = With(fields, b, {})

CallWrite ==
  \E b \in DOMAIN heap, off \in 0..MaxLen, n \in 0..MaxLen, x \in Byte :
    /\ heap' = [heap EXCEPT ![b] = Write(@, [k \in 0..MaxLen |-> x], off, n)]
    /\ fields' = [fields EXCEPT ![b] = Surviving(@, off, Clamp(heap[b], off, n))]

CallPut ==
  \E b \in DOMAIN heap, w \in Widths, off \in 0..MaxLen, order \in Orders :
    \E v \in Value(w) :
      /\ heap' = [heap EXCEPT ![b] = Put(@, off, w, order, v)]
      /\ fields' = IF Fits(heap[b], off, w)
           THEN [fields EXCEPT ![b] = Surviving(@, off, w) \cup
                   {[off |-> off, w |-> w, order |-> order, v |-> v]}]
           ELSE fields

CallCopy ==
  \E b, c \in DOMAIN heap, soff, poff \in 0..MaxLen, send \in 0..MaxLen :
    LET n == Clamp(heap[c], poff, Extent(heap[b], soff, send))
    IN /\ heap[b].big = heap[c].big /\ soff <= send
       /\ heap' = [heap EXCEPT ![c] = CopyTo(@, poff, heap[b], soff, send)]
       /\ fields' = [fields EXCEPT ![c] = Surviving(@, poff, n) \cup
                                            Carried(fields[b], soff, poff, n)]

\* slice() returns no buffer for an offset past the last byte.
CallSlice ==
  \E b \in DOMAIN heap, c \in Bufs \ DOMAIN heap,
     offset \in 0..MaxLen, end \in 0..MaxLen :
    /\ offset < heap[b].len /\ offset <= end
    /\ heap' = With(heap, c, Sliced(heap[b], offset, end))
    /\ fields' = With(fields, c, Carried(fields[b], offset, 0,
                                         Extent(heap[b], offset, end)))

\* The bytes are sent, and recv() on a host of either kind makes a Buffer of
\* the ret bytes it got, of all that was sent or only a part.
Transfer ==
  \E b \in DOMAIN heap, c \in Bufs \ DOMAIN heap, big \in BOOLEAN :
    \E ret \in 1..heap[b].len :
      /\ heap' = With(heap, c, Write(Allocated(ret, big), heap[b].cells, 0, ret))
      /\ fields' = With(fields, c, Carried(fields[b], 0, 0, ret))

\* release() of the last reference.
Delete ==
  \E b \in DOMAIN heap :
    /\ heap' = Without(heap, b)
    /\ fields' = Without(fields, b)

Init == heap = [b \in {} |-> 0] /\ fields = [b \in {} |-> {}]

Next == \/ Alloc \/ Wrap \/ CallWrite \/ CallPut \/ CallCopy \/ CallSlice
        \/ Transfer \/ Delete

Spec == Init /\ [][Next]_vars

(***************************************************************************)
(* Properties.                                                             *)
(***************************************************************************)
\* The type invariant; only memory that the buffer owns, or wraps, is stored
\* to, and never with anything but bytes.
TypeOK ==
  /\ DOMAIN heap \subseteq Bufs /\ DOMAIN fields = DOMAIN heap
  /\ \A b \in DOMAIN heap :
       /\ heap[b].len \in 0..MaxLen
       /\ heap[b].weakptr \in BOOLEAN /\ heap[b].big \in BOOLEAN
       /\ fields[b] \subseteq Field
       /\ heap[b].cells \in
            [0..(IF heap[b].weakptr THEN heap[b].len - 1 ELSE heap[b].len)
               -> Byte \cup {Junk}]

\* Whatever was stored, the byte behind an owned buffer is '\0', so that
\* toString() of a received or sliced buffer ends (Buffer.cpp:17).
Terminated ==
  \A b \in DOMAIN heap : ~heap[b].weakptr => heap[b].cells[heap[b].len] = 0

\* A value written by a writer of one byte order is what the reader of that
\* order gives, wherever its bytes were copied, sliced or sent meanwhile, on
\* a host of either endianness.
FieldsReadBack ==
  \A b \in DOMAIN heap : \A f \in fields[b] :
    Read(heap[b], f.off, f.w, f.order) = f.v

\* The layout in memory is the one the name promises, on every host: least
\* significant byte first for LE, last for BE.
WireLayout ==
  \A b \in DOMAIN heap : \A f \in fields[b] : \A k \in 0..(f.w - 1) :
    heap[b].cells[f.off + k] = f.v[IF f.order = "LE" THEN k ELSE f.w - 1 - k]

\* "end mean the last element" (Buffer.cpp:115): the byte at `end` is the
\* last one of the slice.
EndIsLastElement ==
  \A b \in DOMAIN heap :
    \A offset \in 0..(heap[b].len - 1) : \A end \in offset..(heap[b].len - 1) :
      LET s == Sliced(heap[b], offset, end)
      IN s.len > 0 /\ s.cells[s.len - 1] = heap[b].cells[end]
=============================================================================
