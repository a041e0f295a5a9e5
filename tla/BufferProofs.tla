---------------------------- MODULE BufferProofs ----------------------------
(***************************************************************************)
(* Proofs about Buffer, for every set of buffers, every length, the widths *)
(* of all the readers and writers, and bytes of any number of values.      *)
(***************************************************************************)
EXTENDS Buffer, TLAPS

(***************************************************************************)
(* A buffer that is sound, and the values that lie in one as their writers *)
(* promise.  Both speak of one buffer, so that they are shown to survive   *)
(* each operation on buffers before the heap comes in.                     *)
(***************************************************************************)
Top(buf) == IF buf.weakptr THEN buf.len - 1 ELSE buf.len

Sound(buf) ==
  /\ buf = [len |-> buf.len, weakptr |-> buf.weakptr, big |-> buf.big,
            cells |-> buf.cells]
  /\ buf.len \in 0..MaxLen /\ buf.weakptr \in BOOLEAN /\ buf.big \in BOOLEAN
  /\ buf.cells \in [0..Top(buf) -> Byte \cup {Junk}]
  /\ ~buf.weakptr => buf.cells[buf.len] = 0

Place(f, k) == IF f.order = "LE" THEN k ELSE f.w - 1 - k

Lies(buf, f) ==
  /\ f \in Field
  /\ f.off + f.w <= buf.len
  /\ \A k \in 0..(f.w - 1) : buf.cells[f.off + k] = f.v[Place(f, k)]

Laid(buf, fs) == \A f \in fs : Lies(buf, f)

Inv ==
  /\ DOMAIN heap \subseteq Bufs /\ DOMAIN fields = DOMAIN heap
  /\ \A b \in DOMAIN heap : Sound(heap[b]) /\ Laid(heap[b], fields[b])

(***************************************************************************)
(* Values.                                                                 *)
(***************************************************************************)
LEMMA FieldParts ==
  ASSUME NEW f \in Field
  PROVE  /\ f.off \in 0..MaxLen /\ f.w \in Widths /\ f.w \in Nat /\ f.w >= 1
         /\ f.order \in Orders /\ f.v \in [0..(f.w - 1) -> Byte]
         /\ f = [off |-> f.off, w |-> f.w, order |-> f.order, v |-> f.v]
<1>1. PICK w \in Widths : f \in [off : 0..MaxLen, w : {w}, order : Orders, v : Value(w)]
  BY DEF Field
<1>2. w \in {1, 2, 4, 8} /\ f.w = w
  BY <1>1, WidthsAssumption
<1> QED BY <1>1, <1>2 DEF Value

LEMMA FieldOf ==
  ASSUME NEW off \in 0..MaxLen, NEW w \in Widths, NEW order \in Orders,
         NEW v \in Value(w)
  PROVE  [off |-> off, w |-> w, order |-> order, v |-> v] \in Field
<1>1. [off |-> off, w |-> w, order |-> order, v |-> v]
        \in [off : 0..MaxLen, w : {w}, order : Orders, v : Value(w)]
  OBVIOUS
<1> QED BY <1>1 DEF Field

(***************************************************************************)
(* Stores.                                                                 *)
(***************************************************************************)
\* A store within the length keeps a buffer sound and changes its bytes only.
LEMMA StoredSound ==
  ASSUME NEW buf, Sound(buf), NEW off \in Nat, NEW n \in Nat,
         n = 0 \/ off + n <= buf.len,
         NEW str, \A k \in 0..(n - 1) : str[k] \in Byte \cup {Junk}
  PROVE  LET new == Stored(buf, off, n, str) IN
         /\ Sound(new) /\ new.len = buf.len /\ new.big = buf.big
         /\ \A k \in 0..(buf.len - 1) :
              new.cells[k] = IF off <= k /\ k < off + n THEN str[k - off]
                             ELSE buf.cells[k]
<1> DEFINE new == Stored(buf, off, n, str)
           D == DOMAIN buf.cells \cup off..(off + n - 1)
           cs == [k \in D |-> IF k \in off..(off + n - 1) THEN str[k - off]
                              ELSE buf.cells[k]]
<1>1. /\ buf.len \in Nat /\ buf.weakptr \in BOOLEAN /\ buf.big \in BOOLEAN
      /\ buf.cells \in [0..Top(buf) -> Byte \cup {Junk}]
      /\ Top(buf) = (IF buf.weakptr THEN buf.len - 1 ELSE buf.len)
  BY MaxLenAssumption DEF Sound, Top
<1>2. new = [len |-> buf.len, weakptr |-> buf.weakptr, big |-> buf.big, cells |-> cs]
  <2>1. new = [buf EXCEPT !.cells = cs]
    BY DEF Stored
  <2> HIDE DEF cs, new
  <2>2. [buf EXCEPT !.cells = cs] =
          [len |-> buf.len, weakptr |-> buf.weakptr, big |-> buf.big, cells |-> cs]
    BY DEF Sound
  <2> QED BY <2>1, <2>2
<1>3. D = 0..Top(buf)
  <2>1. DOMAIN buf.cells = 0..Top(buf)
    BY <1>1
  <2>2. off..(off + n - 1) \subseteq 0..Top(buf)
    BY <1>1
  <2> QED BY <2>1, <2>2
<1>4. \A k \in 0..Top(buf) :
        cs[k] = IF off <= k /\ k < off + n THEN str[k - off] ELSE buf.cells[k]
  <2>1. \A k \in 0..Top(buf) : k \in off..(off + n - 1) <=> off <= k /\ k < off + n
    BY <1>1
  <2> QED BY <1>3, <2>1
<1>5. cs \in [0..Top(buf) -> Byte \cup {Junk}]
  <2>1. ASSUME NEW k \in 0..Top(buf) PROVE cs[k] \in Byte \cup {Junk}
    <3>1. CASE off <= k /\ k < off + n
      <4>1. k - off \in 0..(n - 1)
        BY <1>1, <3>1
      <4> QED BY <1>4, <3>1, <4>1
    <3>2. CASE ~(off <= k /\ k < off + n)
      BY <1>1, <1>4, <3>2
    <3> QED BY <3>1, <3>2
  <2> HIDE DEF cs
  <2>2. cs = [k \in 0..Top(buf) |-> cs[k]]
    BY <1>3 DEF cs
  <2> QED BY <2>1, <2>2
<1>6. ~buf.weakptr => cs[buf.len] = 0
  <2> SUFFICES ASSUME ~buf.weakptr PROVE cs[buf.len] = 0
    OBVIOUS
  <2>1. buf.len \in 0..Top(buf) /\ ~(off <= buf.len /\ buf.len < off + n)
    BY <1>1
  <2>2. cs[buf.len] = buf.cells[buf.len]
    BY <1>4, <2>1
  <2> QED BY <2>2 DEF Sound
<1> HIDE DEF cs
<1>7. Top(new) = Top(buf) /\ new.cells = cs /\ new.len = buf.len /\ new.big = buf.big
      /\ new.weakptr = buf.weakptr
  BY <1>2 DEF Top
<1> HIDE DEF new
<1>8. Sound(new)
  BY <1>2, <1>5, <1>6, <1>7 DEF Sound
<1>9. \A k \in 0..(buf.len - 1) : k \in 0..Top(buf)
  BY <1>1
<1> QED BY <1>4, <1>7, <1>8, <1>9 DEF new

\* Values no byte of which is overwritten survive a store.
LEMMA StoredSurvives ==
  ASSUME NEW buf, Sound(buf), NEW off \in Nat, NEW n \in Nat,
         n = 0 \/ off + n <= buf.len,
         NEW str, \A k \in 0..(n - 1) : str[k] \in Byte \cup {Junk},
         NEW fs, Laid(buf, fs)
  PROVE  Laid(Stored(buf, off, n, str), Surviving(fs, off, n))
<1> DEFINE new == Stored(buf, off, n, str)
<1>1. /\ new.len = buf.len
      /\ \A k \in 0..(buf.len - 1) :
           new.cells[k] = IF off <= k /\ k < off + n THEN str[k - off]
                          ELSE buf.cells[k]
  BY StoredSound
<1> HIDE DEF new
<1> SUFFICES ASSUME NEW f \in Surviving(fs, off, n) PROVE Lies(new, f)
  BY DEF Laid, new
<1>2. f \in fs /\ (f.off + f.w <= off \/ off + n <= f.off) /\ Lies(buf, f)
  BY DEF Surviving, Laid
<1>3. f.off \in Nat /\ f.w \in Nat /\ f.off + f.w <= buf.len /\ buf.len \in Nat
  BY <1>2, FieldParts, MaxLenAssumption DEF Lies, Sound
<1>4. ASSUME NEW k \in 0..(f.w - 1) PROVE new.cells[f.off + k] = buf.cells[f.off + k]
  <2>1. f.off + k \in 0..(buf.len - 1) /\ ~(off <= f.off + k /\ f.off + k < off + n)
    BY <1>2, <1>3
  <2> QED BY <1>1, <2>1
<1> QED BY <1>1, <1>2, <1>4 DEF Lies

\* Values all of whose bytes are copied come along.
LEMMA CarriedLies ==
  ASSUME NEW new, NEW buf, new.len \in 0..MaxLen, buf.len \in 0..MaxLen,
         NEW soff \in Nat, NEW poff \in Nat, NEW n \in Nat,
         n = 0 \/ poff + n <= new.len,
         \A k \in 0..(n - 1) : new.cells[poff + k] = buf.cells[soff + k],
         NEW gs, Laid(buf, gs)
  PROVE  Laid(new, Carried(gs, soff, poff, n))
<1> SUFFICES ASSUME NEW g \in gs, soff <= g.off, g.off + g.w <= soff + n
             PROVE  Lies(new, [g EXCEPT !.off = g.off - soff + poff])
  BY DEF Laid, Carried
<1> DEFINE f == [g EXCEPT !.off = g.off - soff + poff]
<1>1. g \in Field /\ Lies(buf, g)
  BY DEF Laid, Lies
<1>2. /\ g.off \in Nat /\ g.w \in Widths /\ g.w \in Nat /\ g.w >= 1
      /\ g.order \in Orders /\ g.v \in Value(g.w)
      /\ g = [off |-> g.off, w |-> g.w, order |-> g.order, v |-> g.v]
  BY <1>1, FieldParts, MaxLenAssumption DEF Value
<1>3. f = [off |-> g.off - soff + poff, w |-> g.w, order |-> g.order, v |-> g.v]
  BY <1>2
<1>4. /\ f.off = g.off - soff + poff /\ f.w = g.w /\ f.order = g.order /\ f.v = g.v
  BY <1>3
<1> HIDE DEF f
<1>5. n >= 1 /\ poff + n <= new.len /\ new.len \in Nat /\ new.len <= MaxLen
      /\ MaxLen \in Nat
  BY <1>2, MaxLenAssumption
<1>6. f.off \in 0..MaxLen /\ f.off + f.w <= new.len
  BY <1>2, <1>4, <1>5
<1>7. f \in Field
  BY <1>2, <1>3, <1>4, <1>6, FieldOf
<1>8. ASSUME NEW k \in 0..(f.w - 1)
      PROVE  new.cells[f.off + k] = f.v[Place(f, k)]
  <2> DEFINE j == g.off - soff + k
  <2>1. j \in 0..(n - 1) /\ f.off + k = poff + j /\ soff + j = g.off + k
        /\ k \in 0..(g.w - 1)
    BY <1>2, <1>4, <1>5
  <2>2. new.cells[poff + j] = buf.cells[soff + j]
    BY <2>1
  <2>3. buf.cells[g.off + k] = g.v[Place(g, k)] /\ Place(g, k) = Place(f, k)
    BY <1>1, <1>4, <2>1 DEF Lies, Place
  <2> HIDE DEF j
  <2> QED BY <1>4, <2>1, <2>2, <2>3
<1> QED BY <1>6, <1>7, <1>8 DEF Lies, f

(***************************************************************************)
(* The operations on buffers.                                              *)
(***************************************************************************)
LEMMA ClampBounds ==
  ASSUME NEW buf, Sound(buf), NEW off \in Nat, NEW n \in Nat
  PROVE  LET c == Clamp(buf, off, n) IN
         c \in Nat /\ c <= n /\ (c = 0 \/ off + c <= buf.len)
<1>1. buf.len \in Nat
  BY MaxLenAssumption DEF Sound
<1> QED BY <1>1 DEF Clamp

LEMMA ExtentBounds ==
  ASSUME NEW buf, Sound(buf), NEW soff \in Nat, NEW send \in Nat, soff <= send
  PROVE  LET e == Extent(buf, soff, send) IN
         e \in Nat /\ e <= send - soff /\ (e = 0 \/ soff + e <= buf.len)
<1>1. buf.len \in Nat
  BY MaxLenAssumption DEF Sound
<1> QED BY <1>1 DEF Extent

LEMMA AllocatedSound ==
  ASSUME NEW len \in 0..MaxLen, NEW big \in BOOLEAN
  PROVE  /\ Sound(Allocated(len, big)) /\ Laid(Allocated(len, big), {})
         /\ Allocated(len, big).len = len
<1> DEFINE new == Allocated(len, big)
           cs == [k \in 0..len |-> IF k = len THEN 0 ELSE Junk]
<1>1. new = [len |-> len, weakptr |-> FALSE, big |-> big, cells |-> cs]
  BY DEF Allocated
<1>2. cs \in [0..len -> Byte \cup {Junk}] /\ cs[len] = 0
  BY ByteAssumption, MaxLenAssumption
<1> HIDE DEF cs
<1>3. Top(new) = len
  BY <1>1 DEF Top
<1>4. new.len = len /\ new.weakptr = FALSE /\ new.big = big /\ new.cells = cs
  BY <1>1
<1> HIDE DEF new
<1>5. Sound(new)
  BY <1>1, <1>2, <1>3, <1>4 DEF Sound
<1>6. Laid(new, {})
  BY DEF Laid
<1> QED BY <1>4, <1>5, <1>6 DEF new

LEMMA WrappedSound ==
  ASSUME NEW len \in 1..MaxLen, NEW big \in BOOLEAN
  PROVE  LET new == Wrapped(len, big, [k \in 0..(len - 1) |-> 0]) IN
         Sound(new) /\ Laid(new, {})
<1> DEFINE cs == [k \in 0..(len - 1) |-> 0]
           new == Wrapped(len, big, cs)
<1>1. new = [len |-> len, weakptr |-> TRUE, big |-> big, cells |-> cs]
  BY DEF Wrapped
<1>2. cs \in [0..(len - 1) -> Byte \cup {Junk}]
  BY ByteAssumption
<1> HIDE DEF cs
<1>3. Top(new) = len - 1 /\ len \in 0..MaxLen
  BY <1>1, MaxLenAssumption DEF Top
<1>4. new.len = len /\ new.weakptr = TRUE /\ new.big = big /\ new.cells = cs
  BY <1>1
<1> HIDE DEF new
<1>5. Sound(new)
  BY <1>1, <1>2, <1>3, <1>4 DEF Sound
<1>6. Laid(new, {})
  BY DEF Laid
<1> QED BY <1>5, <1>6 DEF new, cs

\* write() of bytes the caller has, as many as it says.
LEMMA WriteSound ==
  ASSUME NEW buf, Sound(buf), NEW off \in Nat, NEW n \in Nat,
         NEW str, \A k \in 0..(n - 1) : str[k] \in Byte \cup {Junk},
         NEW fs, Laid(buf, fs)
  PROVE  LET new == Write(buf, str, off, n)
             c == Clamp(buf, off, n)
         IN /\ Sound(new) /\ new.len = buf.len
            /\ Laid(new, Surviving(fs, off, c))
            /\ \A k \in 0..(c - 1) : new.cells[off + k] = str[k]
<1> DEFINE c == Clamp(buf, off, n)
           new == Stored(buf, off, c, str)
<1>1. c \in Nat /\ c <= n /\ (c = 0 \/ off + c <= buf.len)
  BY ClampBounds
<1> HIDE DEF c
<1>2. \A k \in 0..(c - 1) : str[k] \in Byte \cup {Junk}
  BY <1>1
<1>3. /\ Sound(new) /\ new.len = buf.len
      /\ \A k \in 0..(buf.len - 1) :
           new.cells[k] = IF off <= k /\ k < off + c THEN str[k - off]
                          ELSE buf.cells[k]
  BY <1>1, <1>2, StoredSound
<1>4. Laid(new, Surviving(fs, off, c))
  BY <1>1, <1>2, StoredSurvives
<1> HIDE DEF new
<1>5. ASSUME NEW k \in 0..(c - 1) PROVE new.cells[off + k] = str[k]
  <2>1. buf.len \in Nat
    BY MaxLenAssumption DEF Sound
  <2>2. off + k \in 0..(buf.len - 1) /\ off <= off + k /\ off + k < off + c
        /\ off + k - off = k
    BY <1>1, <2>1
  <2> QED BY <1>3, <2>2
<1>6. new = Write(buf, str, off, n)
  BY DEF new, c, Write
<1> QED BY <1>3, <1>4, <1>5, <1>6 DEF c

LEMMA CopySound ==
  ASSUME NEW pt, Sound(pt), NEW buf, Sound(buf), NEW poff \in Nat,
         NEW soff \in Nat, NEW send \in Nat, soff <= send,
         NEW fs, Laid(pt, fs), NEW gs, Laid(buf, gs)
  PROVE  LET new == CopyTo(pt, poff, buf, soff, send)
             n == Clamp(pt, poff, Extent(buf, soff, send))
         IN /\ Sound(new)
            /\ Laid(new, Surviving(fs, poff, n) \cup Carried(gs, soff, poff, n))
<1> DEFINE e == Extent(buf, soff, send)
           n == Clamp(pt, poff, e)
           str == [k \in 0..MaxLen |-> IF soff + k \in DOMAIN buf.cells
                                         THEN buf.cells[soff + k] ELSE Junk]
           new == Write(pt, str, poff, e)
<1>1. e \in Nat /\ (e = 0 \/ soff + e <= buf.len)
  BY ExtentBounds
<1>2. /\ buf.len \in 0..MaxLen /\ pt.len \in 0..MaxLen /\ buf.len \in Nat
      /\ buf.len <= MaxLen /\ MaxLen \in Nat
      /\ buf.cells \in [0..Top(buf) -> Byte \cup {Junk}]
      /\ Top(buf) >= buf.len - 1 /\ Top(buf) \in Int
  BY MaxLenAssumption DEF Sound, Top
<1> HIDE DEF e
<1>3. n \in Nat /\ n <= e /\ (n = 0 \/ poff + n <= pt.len)
  BY <1>1, ClampBounds
<1>4. \A k \in 0..(e - 1) : /\ str[k] = buf.cells[soff + k]
                            /\ str[k] \in Byte \cup {Junk}
  <2> SUFFICES ASSUME NEW k \in 0..(e - 1)
               PROVE  /\ str[k] = buf.cells[soff + k]
                      /\ str[k] \in Byte \cup {Junk}
    OBVIOUS
  <2>1. k \in 0..MaxLen /\ soff + k \in 0..Top(buf)
    BY <1>1, <1>2
  <2> QED BY <1>2, <2>1
<1> HIDE DEF str, n
<1>5. /\ Sound(new) /\ new.len = pt.len
      /\ Laid(new, Surviving(fs, poff, n))
      /\ \A k \in 0..(n - 1) : new.cells[poff + k] = str[k]
  BY <1>1, <1>4, WriteSound DEF n
<1> HIDE DEF new
<1>6. \A k \in 0..(n - 1) : new.cells[poff + k] = buf.cells[soff + k]
  BY <1>1, <1>3, <1>4, <1>5
<1>7. Laid(new, Carried(gs, soff, poff, n))
  BY <1>2, <1>3, <1>5, <1>6, CarriedLies
<1>8. Laid(new, Surviving(fs, poff, n) \cup Carried(gs, soff, poff, n))
  BY <1>5, <1>7 DEF Laid
<1>9. new = CopyTo(pt, poff, buf, soff, send)
  BY DEF new, str, e, CopyTo
<1> QED BY <1>5, <1>8, <1>9 DEF n, e

LEMMA SlicedSound ==
  ASSUME NEW buf, Sound(buf), NEW offset \in Nat, NEW send \in 0..MaxLen,
         offset <= send, NEW gs, Laid(buf, gs)
  PROVE  LET new == Sliced(buf, offset, send) IN
         /\ Sound(new)
         /\ Laid(new, Carried(gs, offset, 0, Extent(buf, offset, send)))
<1> DEFINE pt == Allocated(send - offset, buf.big)
           e == Extent(buf, offset, send)
           n == Clamp(pt, 0, e)
<1>1. send - offset \in 0..MaxLen /\ buf.big \in BOOLEAN /\ send \in Nat
  BY MaxLenAssumption DEF Sound
<1>2. Sound(pt) /\ Laid(pt, {}) /\ pt.len = send - offset
  BY <1>1, AllocatedSound
<1>3. e \in Nat /\ e <= send - offset
  BY <1>1, ExtentBounds
<1> HIDE DEF pt, e
<1>4. n = e
  BY <1>1, <1>2, <1>3 DEF Clamp
<1>5. /\ Sound(CopyTo(pt, 0, buf, offset, send))
      /\ Laid(CopyTo(pt, 0, buf, offset, send),
              Surviving({}, 0, n) \cup Carried(gs, offset, 0, n))
  BY <1>1, <1>2, CopySound DEF e
<1>6. Sliced(buf, offset, send) = CopyTo(pt, 0, buf, offset, send)
  BY DEF Sliced, pt
<1> QED BY <1>4, <1>5, <1>6 DEF Laid, e

\* recv(): a new buffer of the ret bytes that arrived.
LEMMA TransferSound ==
  ASSUME NEW buf, Sound(buf), NEW ret \in 1..buf.len, NEW big \in BOOLEAN,
         NEW gs, Laid(buf, gs)
  PROVE  LET new == Write(Allocated(ret, big), buf.cells, 0, ret) IN
         Sound(new) /\ Laid(new, Carried(gs, 0, 0, ret))
<1> DEFINE pt == Allocated(ret, big)
           new == Write(pt, buf.cells, 0, ret)
<1>1. /\ buf.len \in 0..MaxLen /\ ret \in 0..MaxLen /\ ret \in Nat
      /\ ret <= buf.len /\ buf.len \in Nat
      /\ buf.cells \in [0..Top(buf) -> Byte \cup {Junk}]
      /\ Top(buf) >= buf.len - 1 /\ Top(buf) \in Int
  BY MaxLenAssumption DEF Sound, Top
<1>2. Sound(pt) /\ Laid(pt, {}) /\ pt.len = ret
  BY <1>1, AllocatedSound
<1>3. \A k \in 0..(ret - 1) : buf.cells[k] \in Byte \cup {Junk}
  BY <1>1
<1> HIDE DEF pt
<1>4. Clamp(pt, 0, ret) = ret
  BY <1>1, <1>2 DEF Clamp
<1>5. /\ Sound(new) /\ new.len = ret
      /\ \A k \in 0..(ret - 1) : new.cells[0 + k] = buf.cells[k]
  BY <1>1, <1>2, <1>3, <1>4, WriteSound
<1> HIDE DEF new
<1>6. /\ \A k \in 0..(ret - 1) : new.cells[0 + k] = buf.cells[0 + k]
      /\ 0 \in Nat /\ 0 + ret <= new.len /\ new.len \in 0..MaxLen
  BY <1>1, <1>5
<1>7. Laid(new, Carried(gs, 0, 0, ret))
  BY <1>1, <1>6, CarriedLies
<1> QED BY <1>5, <1>7 DEF new, pt

\* A store of the bytes of a value, in the order of their places.
LEMMA ValueStored ==
  ASSUME NEW buf, Sound(buf), NEW fs, Laid(buf, fs),
         NEW f \in Field, f.off + f.w <= buf.len,
         NEW str, \A k \in 0..(f.w - 1) : str[k] = f.v[Place(f, k)]
  PROVE  LET new == Stored(buf, f.off, f.w, str) IN
         Sound(new) /\ Laid(new, Surviving(fs, f.off, f.w) \cup {f})
<1> DEFINE off == f.off
           w == f.w
           new == Stored(buf, off, w, str)
<1>1. /\ off \in Nat /\ w \in Nat /\ f.v \in [0..(w - 1) -> Byte]
      /\ buf.len \in Nat /\ (w = 0 \/ off + w <= buf.len)
  BY FieldParts, MaxLenAssumption DEF Sound
<1>2. \A k \in 0..(w - 1) : str[k] \in Byte \cup {Junk}
  <2> SUFFICES ASSUME NEW k \in 0..(w - 1) PROVE str[k] \in Byte \cup {Junk}
    OBVIOUS
  <2>1. str[k] = f.v[Place(f, k)]
    OBVIOUS
  <2>2. Place(f, k) \in 0..(w - 1)
    BY <1>1 DEF Place
  <2> HIDE DEF w
  <2> QED BY <1>1, <2>1, <2>2
<1> HIDE DEF off, w
<1>3. /\ Sound(new) /\ new.len = buf.len
      /\ \A k \in 0..(buf.len - 1) :
           new.cells[k] = IF off <= k /\ k < off + w THEN str[k - off]
                          ELSE buf.cells[k]
  BY <1>1, <1>2, StoredSound
<1>4. Laid(new, Surviving(fs, off, w))
  BY <1>1, <1>2, StoredSurvives
<1> HIDE DEF new
<1>5. ASSUME NEW k \in 0..(w - 1) PROVE new.cells[off + k] = f.v[Place(f, k)]
  <2> DEFINE j == off + k
  <2>1. j \in 0..(buf.len - 1) /\ off <= j /\ j < off + w /\ j - off = k
    BY <1>1
  <2> HIDE DEF j
  <2>2. new.cells[j] = str[k]
    BY <1>3, <2>1
  <2>3. str[k] = f.v[Place(f, k)]
    BY DEF w
  <2> QED BY <2>2, <2>3 DEF j
<1>6. Lies(new, f)
  BY <1>3, <1>5 DEF Lies, off, w
<1>7. Laid(new, Surviving(fs, off, w) \cup {f})
  BY <1>4, <1>6 DEF Laid
<1> QED BY <1>3, <1>7 DEF new, off, w

\* A writer of values: the value lies where it was put, in its byte order.
LEMMA PutSound ==
  ASSUME NEW buf, Sound(buf), NEW w \in Widths, NEW off \in 0..MaxLen,
         NEW order \in Orders, NEW v \in Value(w), NEW fs, Laid(buf, fs),
         Fits(buf, off, w)
  PROVE  LET new == Put(buf, off, w, order, v) IN
         /\ Sound(new)
         /\ Laid(new, Surviving(fs, off, w) \cup
                        {[off |-> off, w |-> w, order |-> order, v |-> v]})
<1> DEFINE p == HostImage(v, w, buf.big)
           str == [k \in 0..(w - 1) |->
                     IF Swaps(buf.big, order) THEN p[w - 1 - k] ELSE p[k]]
           f == [off |-> off, w |-> w, order |-> order, v |-> v]
<1>1. /\ w \in Nat /\ w >= 1 /\ off \in Nat /\ buf.len \in Nat
      /\ off + w <= buf.len /\ buf.big \in BOOLEAN
      /\ v \in [0..(w - 1) -> Byte] /\ f \in Field
  <2>1. w \in {1, 2, 4, 8}
    BY WidthsAssumption
  <2>2. off \in Nat /\ buf.len \in Nat /\ buf.big \in BOOLEAN
    BY MaxLenAssumption DEF Sound
  <2>3. f \in Field
    BY FieldOf
  <2> QED BY <2>1, <2>2, <2>3 DEF Fits, Value
<1>2. \A k \in 0..(w - 1) : str[k] = v[Place(f, k)] /\ str[k] \in Byte
  <2> SUFFICES ASSUME NEW k \in 0..(w - 1)
               PROVE  str[k] = v[Place(f, k)] /\ str[k] \in Byte
    OBVIOUS
  <2>1. w - 1 - k \in 0..(w - 1) /\ w - 1 - (w - 1 - k) = k
    BY <1>1
  <2>2. p[k] = IF buf.big THEN v[w - 1 - k] ELSE v[k]
    BY DEF HostImage
  <2>3. p[w - 1 - k] = IF buf.big THEN v[k] ELSE v[w - 1 - k]
    BY <2>1 DEF HostImage
  <2> HIDE DEF p
  <2>4. str[k] = IF (order = "LE") = buf.big THEN p[w - 1 - k] ELSE p[k]
    BY DEF Swaps
  <2> HIDE DEF str
  <2>5. Place(f, k) = IF order = "LE" THEN k ELSE w - 1 - k
    BY DEF Place
  <2>6. v[k] \in Byte /\ v[w - 1 - k] \in Byte
    BY <1>1, <2>1
  <2>7. CASE buf.big = TRUE
    BY <2>2, <2>3, <2>4, <2>5, <2>6, <2>7
  <2>8. CASE buf.big = FALSE
    BY <2>2, <2>3, <2>4, <2>5, <2>6, <2>8
  <2> QED BY <1>1, <2>7, <2>8
<1>3. /\ f.off = off /\ f.w = w /\ f.v = v
  OBVIOUS
<1>4. Put(buf, off, w, order, v) = Stored(buf, f.off, f.w, str)
  BY <1>3 DEF Put
<1> HIDE DEF str, f
<1>5. \A k \in 0..(f.w - 1) : str[k] = f.v[Place(f, k)]
  BY <1>2, <1>3
<1>6. f.off + f.w <= buf.len
  BY <1>1, <1>3
<1>7. /\ Sound(Stored(buf, f.off, f.w, str))
      /\ Laid(Stored(buf, f.off, f.w, str), Surviving(fs, f.off, f.w) \cup {f})
  BY <1>1, <1>5, <1>6, ValueStored
<1> QED BY <1>3, <1>4, <1>7 DEF f

(***************************************************************************)
(* The heap.                                                               *)
(***************************************************************************)
\* A buffer that is made, or takes the place of what it was.
LEMMA HeapStep ==
  ASSUME Inv, NEW b \in Bufs, NEW x, NEW fs, Sound(x), Laid(x, fs)
  PROVE  /\ heap' = With(heap, b, x) /\ fields' = With(fields, b, fs) => Inv'
         /\ /\ b \in DOMAIN heap
            /\ heap' = [heap EXCEPT ![b] = x]
            /\ fields' = [fields EXCEPT ![b] = fs]
            => Inv'
<1>1. ASSUME heap' = With(heap, b, x), fields' = With(fields, b, fs) PROVE Inv'
  <2>1. /\ DOMAIN heap' = DOMAIN heap \cup {b}
        /\ DOMAIN fields' = DOMAIN fields \cup {b}
        /\ \A c \in DOMAIN heap' :
             /\ heap'[c] = IF c = b THEN x ELSE heap[c]
             /\ fields'[c] = IF c = b THEN fs ELSE fields[c]
    BY <1>1 DEF With, Inv
  <2> QED BY <2>1 DEF Inv
<1>2. ASSUME b \in DOMAIN heap, heap' = [heap EXCEPT ![b] = x],
             fields' = [fields EXCEPT ![b] = fs]
      PROVE  Inv'
  <2>1. /\ DOMAIN heap' = DOMAIN heap /\ DOMAIN fields' = DOMAIN fields
        /\ \A c \in DOMAIN heap' :
             /\ heap'[c] = IF c = b THEN x ELSE heap[c]
             /\ fields'[c] = IF c = b THEN fs ELSE fields[c]
    BY <1>2 DEF Inv
  <2> QED BY <2>1, <1>2 DEF Inv
<1> QED BY <1>1, <1>2

LEMMA InvStep == ASSUME Inv, [Next]_vars PROVE Inv'
<1> USE DEF Inv
<1>1. CASE Alloc
  <2>1. PICK b \in Bufs \ DOMAIN heap, len \in 0..MaxLen, big \in BOOLEAN :
          /\ heap' = With(heap, b, Allocated(len, big))
          /\ fields' = With(fields, b, {})
    BY <1>1 DEF Alloc
  <2> QED BY <2>1, AllocatedSound, HeapStep
<1>2. CASE Wrap
  <2>1. PICK b \in Bufs \ DOMAIN heap, len \in 1..MaxLen, big \in BOOLEAN :
          /\ heap' = With(heap, b, Wrapped(len, big, [k \in 0..(len - 1) |-> 0]))
          /\ fields' = With(fields, b, {})
    BY <1>2 DEF Wrap
  <2> DEFINE x == Wrapped(len, big, [k \in 0..(len - 1) |-> 0])
  <2>2. Sound(x) /\ Laid(x, {})
    BY WrappedSound
  <2> HIDE DEF x
  <2>3. heap' = With(heap, b, x) /\ fields' = With(fields, b, {})
    BY <2>1 DEF x
  <2> QED BY <2>2, <2>3, HeapStep
<1>3. CASE CallWrite
  <2>1. PICK b \in DOMAIN heap, off \in 0..MaxLen, n \in 0..MaxLen, y \in Byte :
          /\ heap' = [heap EXCEPT ![b] =
                        Write(heap[b], [k \in 0..MaxLen |-> y], off, n)]
          /\ fields' = [fields EXCEPT ![b] =
                          Surviving(fields[b], off, Clamp(heap[b], off, n))]
    BY <1>3 DEF CallWrite
  <2> DEFINE str == [k \in 0..MaxLen |-> y]
             x == Write(heap[b], str, off, n)
             fs == Surviving(fields[b], off, Clamp(heap[b], off, n))
  <2>2. \A k \in 0..(n - 1) : str[k] \in Byte \cup {Junk}
    BY MaxLenAssumption
  <2>3. Sound(heap[b]) /\ Laid(heap[b], fields[b]) /\ off \in Nat /\ n \in Nat
    BY MaxLenAssumption
  <2> HIDE DEF str
  <2>4. Sound(x) /\ Laid(x, fs)
    BY <2>2, <2>3, WriteSound
  <2>5. /\ b \in Bufs /\ heap' = [heap EXCEPT ![b] = x]
        /\ fields' = [fields EXCEPT ![b] = fs]
    BY <2>1 DEF str
  <2> HIDE DEF x, fs
  <2> QED BY <2>4, <2>5, HeapStep
<1>4. CASE CallPut
  <2>1. PICK b \in DOMAIN heap, w \in Widths, off \in 0..MaxLen,
             order \in Orders : \E v \in Value(w) :
          /\ heap' = [heap EXCEPT ![b] = Put(heap[b], off, w, order, v)]
          /\ fields' = IF Fits(heap[b], off, w)
               THEN [fields EXCEPT ![b] = Surviving(fields[b], off, w) \cup
                       {[off |-> off, w |-> w, order |-> order, v |-> v]}]
               ELSE fields
    BY <1>4 DEF CallPut
  <2>2. PICK v \in Value(w) :
          /\ heap' = [heap EXCEPT ![b] = Put(heap[b], off, w, order, v)]
          /\ fields' = IF Fits(heap[b], off, w)
               THEN [fields EXCEPT ![b] = Surviving(fields[b], off, w) \cup
                       {[off |-> off, w |-> w, order |-> order, v |-> v]}]
               ELSE fields
    BY <2>1
  <2>3. Sound(heap[b]) /\ Laid(heap[b], fields[b]) /\ b \in Bufs
    OBVIOUS
  <2>4. CASE Fits(heap[b], off, w)
    <3> DEFINE x == Put(heap[b], off, w, order, v)
               fs == Surviving(fields[b], off, w) \cup
                       {[off |-> off, w |-> w, order |-> order, v |-> v]}
    <3>1. Sound(x) /\ Laid(x, fs)
      BY <2>3, <2>4, PutSound
    <3>2. heap' = [heap EXCEPT ![b] = x] /\ fields' = [fields EXCEPT ![b] = fs]
      BY <2>2, <2>4
    <3> HIDE DEF x, fs
    <3> QED BY <2>3, <3>1, <3>2, HeapStep
  <2>5. CASE ~Fits(heap[b], off, w)
    <3>1. Put(heap[b], off, w, order, v) = heap[b]
      BY <2>5 DEF Put
    <3>2. /\ heap' = [heap EXCEPT ![b] = heap[b]] /\ fields' = fields
      BY <2>2, <2>5, <3>1
    <3>3. /\ DOMAIN heap' = DOMAIN heap
          /\ \A c \in DOMAIN heap : heap'[c] = heap[c]
      BY <3>2
    <3> QED BY <3>2, <3>3
  <2> QED BY <2>4, <2>5
<1>5. CASE CallCopy
  <2>1. PICK b \in DOMAIN heap, c \in DOMAIN heap, soff \in 0..MaxLen,
             poff \in 0..MaxLen, send \in 0..MaxLen :
          LET n == Clamp(heap[c], poff, Extent(heap[b], soff, send))
          IN /\ heap[b].big = heap[c].big /\ soff <= send
             /\ heap' = [heap EXCEPT ![c] =
                           CopyTo(heap[c], poff, heap[b], soff, send)]
             /\ fields' = [fields EXCEPT ![c] =
                             Surviving(fields[c], poff, n) \cup
                             Carried(fields[b], soff, poff, n)]
    BY <1>5 DEF CallCopy
  <2> DEFINE n == Clamp(heap[c], poff, Extent(heap[b], soff, send))
             x == CopyTo(heap[c], poff, heap[b], soff, send)
             fs == Surviving(fields[c], poff, n) \cup
                   Carried(fields[b], soff, poff, n)
  <2>2. /\ Sound(heap[b]) /\ Laid(heap[b], fields[b])
        /\ Sound(heap[c]) /\ Laid(heap[c], fields[c])
        /\ soff \in Nat /\ poff \in Nat /\ send \in Nat /\ soff <= send
    BY <2>1, MaxLenAssumption
  <2>3. Sound(x) /\ Laid(x, fs)
    BY <2>2, CopySound
  <2>4. /\ c \in Bufs /\ heap' = [heap EXCEPT ![c] = x]
        /\ fields' = [fields EXCEPT ![c] = fs]
    BY <2>1
  <2> HIDE DEF x, fs
  <2> QED BY <2>3, <2>4, HeapStep
<1>6. CASE CallSlice
  <2>1. PICK b \in DOMAIN heap, c \in Bufs \ DOMAIN heap,
             offset \in 0..MaxLen, send \in 0..MaxLen :
          /\ offset < heap[b].len /\ offset <= send
          /\ heap' = With(heap, c, Sliced(heap[b], offset, send))
          /\ fields' = With(fields, c, Carried(fields[b], offset, 0,
                                               Extent(heap[b], offset, send)))
    BY <1>6 DEF CallSlice
  <2> DEFINE x == Sliced(heap[b], offset, send)
             fs == Carried(fields[b], offset, 0, Extent(heap[b], offset, send))
  <2>2. Sound(heap[b]) /\ Laid(heap[b], fields[b]) /\ offset \in Nat
    BY MaxLenAssumption
  <2>3. Sound(x) /\ Laid(x, fs)
    BY <2>1, <2>2, SlicedSound
  <2>4. /\ c \in Bufs /\ heap' = With(heap, c, x)
        /\ fields' = With(fields, c, fs)
    BY <2>1
  <2> HIDE DEF x, fs
  <2> QED BY <2>3, <2>4, HeapStep
<1>7. CASE Transfer
  <2>1. PICK b \in DOMAIN heap, c \in Bufs \ DOMAIN heap, big \in BOOLEAN :
          \E ret \in 1..heap[b].len :
            /\ heap' = With(heap, c,
                            Write(Allocated(ret, big), heap[b].cells, 0, ret))
            /\ fields' = With(fields, c, Carried(fields[b], 0, 0, ret))
    BY <1>7 DEF Transfer
  <2>2. PICK ret \in 1..heap[b].len :
          /\ heap' = With(heap, c,
                          Write(Allocated(ret, big), heap[b].cells, 0, ret))
          /\ fields' = With(fields, c, Carried(fields[b], 0, 0, ret))
    BY <2>1
  <2> DEFINE x == Write(Allocated(ret, big), heap[b].cells, 0, ret)
             fs == Carried(fields[b], 0, 0, ret)
  <2>3. Sound(x) /\ Laid(x, fs)
    BY TransferSound
  <2>4. /\ c \in Bufs /\ heap' = With(heap, c, x)
        /\ fields' = With(fields, c, fs)
    BY <2>2
  <2> HIDE DEF x, fs
  <2> QED BY <2>3, <2>4, HeapStep
<1>8. CASE Delete
  <2>1. PICK b \in DOMAIN heap :
          heap' = Without(heap, b) /\ fields' = Without(fields, b)
    BY <1>8 DEF Delete
  <2>2. /\ DOMAIN heap' = DOMAIN heap \ {b}
        /\ DOMAIN fields' = DOMAIN fields \ {b}
        /\ \A c \in DOMAIN heap' : heap'[c] = heap[c] /\ fields'[c] = fields[c]
    BY <2>1 DEF Without
  <2> QED BY <2>2
<1>9. CASE UNCHANGED vars
  BY <1>9 DEF vars
<1> QED BY <1>1, <1>2, <1>3, <1>4, <1>5, <1>6, <1>7, <1>8, <1>9 DEF Next

LEMMA InvInit == Init => Inv
  BY DEF Init, Inv

LEMMA InvAlways == Spec => []Inv
  BY InvInit, InvStep, PTL DEF Spec

(***************************************************************************)
(* The theorems.                                                           *)
(***************************************************************************)
LEMMA InvTypeOK == Inv => TypeOK
<1> SUFFICES ASSUME Inv PROVE TypeOK
  OBVIOUS
<1>1. ASSUME NEW b \in DOMAIN heap
      PROVE  /\ heap[b].len \in 0..MaxLen
             /\ heap[b].weakptr \in BOOLEAN /\ heap[b].big \in BOOLEAN
             /\ fields[b] \subseteq Field
             /\ heap[b].cells \in
                  [0..(IF heap[b].weakptr THEN heap[b].len - 1 ELSE heap[b].len)
                     -> Byte \cup {Junk}]
  BY DEF Inv, Sound, Top, Laid, Lies
<1> QED BY <1>1 DEF TypeOK, Inv

LEMMA InvReadBack == Inv => FieldsReadBack
<1> SUFFICES ASSUME Inv, NEW b \in DOMAIN heap, NEW f \in fields[b]
             PROVE  Read(heap[b], f.off, f.w, f.order) = f.v
  BY DEF FieldsReadBack
<1> DEFINE buf == heap[b]
           w == f.w
           q == [k \in 0..(w - 1) |->
                   buf.cells[IF Swaps(buf.big, f.order) THEN f.off + w - 1 - k
                                                        ELSE f.off + k]]
<1>1. Sound(buf) /\ Lies(buf, f) /\ f \in Field
  BY DEF Inv, Laid, Lies
<1>2. /\ f.off \in Nat /\ w \in Nat /\ w >= 1 /\ f.order \in Orders
      /\ f.v \in [0..(w - 1) -> Byte]
      /\ buf.len \in Nat /\ buf.big \in BOOLEAN /\ f.off + w <= buf.len
  BY <1>1, FieldParts, MaxLenAssumption DEF Sound, Lies
<1> HIDE DEF buf, w
<1>3. Fits(buf, f.off, w)
  BY <1>2 DEF Fits
<1>4. ASSUME NEW k \in 0..(w - 1) PROVE HostImage(q, w, buf.big)[k] = f.v[k]
  <2>1. w - 1 - k \in 0..(w - 1) /\ w - 1 - (w - 1 - k) = k
        /\ f.off + w - 1 - k = f.off + (w - 1 - k)
        /\ f.off + w - 1 - (w - 1 - k) = f.off + k
    BY <1>2
  <2>2. /\ buf.cells[f.off + k] = f.v[Place(f, k)]
        /\ buf.cells[f.off + (w - 1 - k)] = f.v[Place(f, w - 1 - k)]
    BY <1>1, <2>1 DEF Lies, w
  <2>3. /\ Place(f, k) = (IF f.order = "LE" THEN k ELSE w - 1 - k)
        /\ Place(f, w - 1 - k) = (IF f.order = "LE" THEN w - 1 - k ELSE k)
    BY <2>1 DEF Place, w
  <2>4. /\ q[k] = IF (f.order = "LE") = buf.big
                    THEN buf.cells[f.off + (w - 1 - k)] ELSE buf.cells[f.off + k]
        /\ q[w - 1 - k] = IF (f.order = "LE") = buf.big
                    THEN buf.cells[f.off + k]
                    ELSE buf.cells[f.off + (w - 1 - k)]
    BY <2>1 DEF Swaps
  <2> HIDE DEF q
  <2>5. HostImage(q, w, buf.big)[k] = IF buf.big THEN q[w - 1 - k] ELSE q[k]
    BY DEF HostImage
  <2>6. CASE buf.big = TRUE
    BY <2>2, <2>3, <2>4, <2>5, <2>6
  <2>7. CASE buf.big = FALSE
    BY <2>2, <2>3, <2>4, <2>5, <2>7
  <2> QED BY <1>2, <2>6, <2>7
<1>5. HostImage(q, w, buf.big) = [k \in 0..(w - 1) |-> HostImage(q, w, buf.big)[k]]
  <2> HIDE DEF q
  <2> QED BY DEF HostImage
<1> DEFINE h == HostImage(q, w, buf.big)
<1>6. h = f.v
  <2> HIDE DEF h
  <2> SUFFICES /\ h = [k \in 0..(w - 1) |-> h[k]]
               /\ \A k \in 0..(w - 1) : h[k] = f.v[k]
    BY <1>2
  <2> QED BY <1>4, <1>5 DEF h
<1>7. Read(buf, f.off, w, f.order) = h
  BY <1>3 DEF Read
<1> QED BY <1>6, <1>7 DEF buf, w

\* Buffers stay of the type of the model: nothing outside the memory a buffer
\* owns or wraps is ever stored to, by whatever sequence of write, copy, slice
\* and value writers, and each value recorded fits one of the readers.
THEOREM TypeCorrect == Spec => []TypeOK
  BY InvAlways, InvTypeOK, PTL

\* toString() of a buffer the library allocated finds its terminator.
THEOREM TerminatorKept == Spec => []Terminated
<1>1. Inv => Terminated
  BY DEF Inv, Terminated, Sound
<1> QED BY <1>1, InvAlways, PTL

\* A value lies in memory in the byte order of its writer, on hosts of both
\* kinds, after any copies, slices and transfers of its bytes.
THEOREM LayoutPromised == Spec => []WireLayout
<1>1. Inv => WireLayout
  BY DEF Inv, WireLayout, Laid, Lies, Place
<1> QED BY <1>1, InvAlways, PTL

\* The reader of the same byte order gives back the value written.
THEOREM ReadBack == Spec => []FieldsReadBack
  BY InvAlways, InvReadBack, PTL
=============================================================================
