------------------------ MODULE StreamTransferProofs ------------------------
(***************************************************************************)
(* Proofs about StreamTransfer, for kernels of any capacity and messages   *)
(* of any length: each direction implements the safety part of             *)
(* ByteChannel, and send() returns true only for whole messages.           *)
(***************************************************************************)
EXTENDS StreamTransfer, SequenceTheorems, TLAPS

(***************************************************************************)
(* The inductive invariant.  What e has received, followed by what is on   *)
(* its way to e, is the beginning of what the peer's kernel accepted, and  *)
(* all of it while e is open and its connection was not reset.             *)
(***************************************************************************)
Behind(r, w, s) ==
  /\ Len(r) + Len(w) <= Len(s)
  /\ \A i \in 1..Len(r) : r[i] = s[i]
  /\ \A i \in 1..Len(w) : w[i] = s[Len(r) + i]

Whole(r, w, s) == Len(r) + Len(w) = Len(s)

Flow(e) ==
  /\ Behind(received[e], net[e], sent[Peer(e)])
  /\ open[e] /\ ~reset[e] => Whole(received[e], net[e], sent[Peer(e)])

Wires ==
  /\ open \in [Ends -> BOOLEAN] /\ reset \in [Ends -> BOOLEAN]
  /\ net \in [Ends -> Seq(Bytes)] /\ sent \in [Ends -> Seq(Bytes)]
  /\ received \in [Ends -> Seq(Bytes)]
  /\ \A e \in Ends : /\ Len(net[e]) <= Capacity
                     /\ reset[e] => ~open[Peer(e)]
                     /\ Flow(e)

\* The bytes a..b are in s, in one piece, after its first i elements.
Placed(s, a, b, i) ==
  /\ i \in Nat /\ i + (b - a + 1) <= Len(s)
  /\ \A x \in a..b : s[i + x - a + 1] = x

\* The bytes of a send() that blocks which were accepted are the last ones.
Blocked(e) ==
  LET m == sending[e] IN
    /\ m \in Messages /\ m.first <= m.next /\ m.next <= m.last /\ open[e]
    /\ Placed(sent[e], m.first, m.next - 1, Len(sent[e]) - (m.next - m.first))

Ledger ==
  /\ sending \in [Ends -> Messages \cup {Idle}]
  /\ offered \in [Ends -> 0..MaxBytes]
  /\ confirmed \in [Ends -> SUBSET Messages]
  /\ \A e \in Ends :
       /\ sending[e] # Idle => Blocked(e)
       /\ \A m \in confirmed[e] : \E i \in Nat : Placed(sent[e], m.first, m.last, i)

Ending ==
  /\ ended \in [Ends -> {"no", "complete", "broken"}]
  /\ \A e \in Ends : ended[e] = "no" <=> open[e]

Inv == Wires /\ Ledger /\ Ending

(***************************************************************************)
(* Ends and sequences.                                                     *)
(***************************************************************************)
LEMMA PeerFacts ==
  ASSUME NEW e \in Ends
  PROVE  /\ Peer(e) \in Ends /\ Peer(e) # e /\ Peer(Peer(e)) = e
         /\ \A d \in Ends : d = e \/ d = Peer(e)
BY DEF Ends, Peer

LEMMA NumbersFacts ==
  ASSUME NEW a \in Bytes, NEW b \in Bytes, a <= b
  PROVE  /\ Numbers(a, b) \in Seq(Bytes) /\ Len(Numbers(a, b)) = b - a + 1
         /\ \A i \in 1..(b - a + 1) : Numbers(a, b)[i] = a + i - 1
<1> DEFINE n == b - a + 1
           s == Numbers(a, b)
<1>1. MaxBytes \in Nat /\ a \in Int /\ b \in Int /\ n \in Nat
  BY BytesAssumption DEF Bytes
<1>2. \A i \in 1..n : a + i - 1 \in Bytes
  BY <1>1 DEF Bytes
<1>3. s = [i \in 1..n |-> a + i - 1]
  BY DEF Numbers
<1> HIDE DEF n, s
<1>4. s \in [1..n -> Bytes]
  BY <1>2, <1>3
<1>5. s \in Seq(Bytes) /\ Len(s) = n
  BY <1>1, <1>4, SeqDef, LenProperties
<1> QED BY <1>3, <1>5 DEF n, s

LEMMA PrefixFacts ==
  ASSUME NEW s \in Seq(Bytes), NEW p \in Prefixes(s)
  PROVE  /\ p \in Seq(Bytes) /\ Len(p) <= Len(s)
         /\ \A i \in 1..Len(p) : p[i] = s[i]
<1>1. PICK k \in 0..Len(s) : p = SubSeq(s, 1, k)
  BY DEF Prefixes
<1>2. Len(s) \in Nat /\ k \in Int /\ k >= 0 /\ k <= Len(s)
  BY LenProperties
<1>3. \A i \in 1..k : s[i] \in Bytes
  BY <1>2, ElementOfSeq
<1>4. /\ p \in Seq(Bytes) /\ Len(p) = (IF 1 <= k THEN k - 1 + 1 ELSE 0)
      /\ \A i \in 1..(k - 1 + 1) : p[i] = s[1 + i - 1]
  BY <1>1, <1>2, <1>3, SubSeqProperties
<1>5. Len(p) = k
  BY <1>2, <1>4
<1>6. ASSUME NEW i \in 1..k PROVE p[i] = s[i]
  <2>1. i \in 1..(k - 1 + 1) /\ 1 + i - 1 = i
    BY <1>2
  <2> QED BY <1>4, <2>1
<1> QED BY <1>2, <1>4, <1>5, <1>6

\* A sequence that another one begins with.
Grown(s, t) ==
  /\ t \in Seq(Bytes) /\ Len(s) <= Len(t)
  /\ \A i \in 1..Len(s) : t[i] = s[i]

LEMMA Lengths ==
  ASSUME NEW s \in Seq(Bytes)
  PROVE  \E l \in Nat : Len(s) = l
BY LenProperties

LEMMA PlacedStays ==
  ASSUME NEW s \in Seq(Bytes), NEW t, Grown(s, t), NEW a \in Int, NEW b \in Int,
         NEW i, Placed(s, a, b, i)
  PROVE  Placed(t, a, b, i)
<1>1. PICK l \in Nat : Len(s) = l
  BY Lengths
<1>2. PICK m \in Nat : Len(t) = m
  BY Lengths DEF Grown
<1>3. i \in Nat /\ i + (b - a + 1) <= l /\ l <= m
  BY <1>1, <1>2 DEF Placed, Grown
<1>4. ASSUME NEW x \in a..b PROVE t[i + x - a + 1] = x
  <2> DEFINE j == i + x - a + 1
  <2>1. j \in 1..l
    BY <1>3
  <2>2. s[j] = x
    BY DEF Placed
  <2> HIDE DEF j
  <2>3. t[j] = s[j]
    BY <1>1, <2>1 DEF Grown
  <2> QED BY <2>2, <2>3 DEF j
<1>5. i + (b - a + 1) <= m
  BY <1>3
<1> QED BY <1>2, <1>3, <1>4, <1>5 DEF Placed

LEMMA Appended ==
  ASSUME NEW s \in Seq(Bytes), NEW t \in Seq(Bytes)
  PROVE  /\ s \o t \in Seq(Bytes) /\ Len(s \o t) = Len(s) + Len(t)
         /\ Grown(s, s \o t)
         /\ \A j \in 1..Len(t) : (s \o t)[Len(s) + j] = t[j]
<1>1. PICK l \in Nat : Len(s) = l
  BY Lengths
<1>2. PICK n \in Nat : Len(t) = n
  BY Lengths
<1> DEFINE u == s \o t
<1>3. /\ u \in Seq(Bytes) /\ Len(u) = l + n
      /\ \A i \in 1..(l + n) : u[i] = IF i <= l THEN s[i] ELSE t[i - l]
  BY <1>1, <1>2, ConcatProperties
<1> HIDE DEF u
<1>4. ASSUME NEW i \in 1..l PROVE u[i] = s[i]
  <2>1. i \in 1..(l + n) /\ i <= l
    OBVIOUS
  <2> QED BY <1>3, <2>1
<1>5. ASSUME NEW j \in 1..n PROVE u[l + j] = t[j]
  <2> DEFINE i == l + j
  <2>1. i \in 1..(l + n) /\ ~(i <= l) /\ i - l = j
    OBVIOUS
  <2> HIDE DEF i
  <2>2. u[i] = t[j]
    BY <1>3, <2>1
  <2> QED BY <2>2 DEF i
<1>6. l <= l + n
  OBVIOUS
<1>7. Grown(s, u)
  BY <1>3, <1>4, <1>6, <1>1 DEF Grown
<1> QED BY <1>3, <1>5, <1>7, <1>1, <1>2 DEF u

(***************************************************************************)
(* What keeps received bytes r and bytes w on their way behind s.          *)
(***************************************************************************)
\* The sender's kernel accepts more.
LEMMA BehindGrown ==
  ASSUME NEW r \in Seq(Bytes), NEW w \in Seq(Bytes), NEW s \in Seq(Bytes), NEW t,
         Behind(r, w, s), Grown(s, t)
  PROVE  Behind(r, w, t)
<1>1. PICK lr \in Nat : Len(r) = lr
  BY Lengths
<1>2. PICK lw \in Nat : Len(w) = lw
  BY Lengths
<1>3. PICK ls \in Nat : Len(s) = ls
  BY Lengths
<1>4. PICK lt \in Nat : Len(t) = lt
  BY Lengths DEF Grown
<1>5. /\ lr + lw <= ls /\ ls <= lt
      /\ \A i \in 1..lr : r[i] = s[i]
      /\ \A i \in 1..lw : w[i] = s[lr + i]
      /\ \A i \in 1..ls : t[i] = s[i]
  BY <1>1, <1>2, <1>3, <1>4 DEF Behind, Grown
<1>6. lr + lw <= lt /\ \A i \in 1..lr : i \in 1..ls
  BY <1>5
<1>7. \A i \in 1..lw : lr + i \in 1..ls
  BY <1>5
<1>8. \A i \in 1..lw : w[i] = t[lr + i]
  BY <1>5, <1>7
<1>9. \A i \in 1..lr : r[i] = t[i]
  BY <1>5, <1>6
<1> QED BY <1>1, <1>2, <1>4, <1>6, <1>8, <1>9 DEF Behind

\* The accepted bytes v are all put on their way.
LEMMA BehindSent ==
  ASSUME NEW r \in Seq(Bytes), NEW w \in Seq(Bytes), NEW s \in Seq(Bytes),
         NEW v \in Seq(Bytes), Behind(r, w, s), Whole(r, w, s)
  PROVE  Behind(r, w \o v, s \o v) /\ Whole(r, w \o v, s \o v)
<1>1. PICK lr \in Nat : Len(r) = lr
  BY Lengths
<1>2. PICK lw \in Nat : Len(w) = lw
  BY Lengths
<1>3. PICK ls \in Nat : Len(s) = ls
  BY Lengths
<1>4. PICK n \in Nat : Len(v) = n
  BY Lengths
<1> DEFINE wv == w \o v
           sv == s \o v
<1>5. /\ wv \in Seq(Bytes) /\ Len(wv) = lw + n /\ Grown(w, wv)
      /\ \A j \in 1..n : wv[lw + j] = v[j]
  BY <1>2, <1>4, Appended
<1>6. /\ sv \in Seq(Bytes) /\ Len(sv) = ls + n /\ Grown(s, sv)
      /\ \A j \in 1..n : sv[ls + j] = v[j]
  BY <1>3, <1>4, Appended
<1> HIDE DEF wv, sv
<1>7. /\ lr + lw = ls
      /\ \A i \in 1..lr : r[i] = s[i]
      /\ \A i \in 1..lw : w[i] = s[lr + i]
      /\ \A i \in 1..ls : sv[i] = s[i]
      /\ \A i \in 1..lw : wv[i] = w[i]
  BY <1>1, <1>2, <1>3, <1>5, <1>6 DEF Behind, Whole, Grown
<1>8. \A i \in 1..lr : i \in 1..ls
  BY <1>7
<1>9. \A i \in 1..lr : r[i] = sv[i]
  BY <1>7, <1>8
<1>10. ASSUME NEW i \in 1..(lw + n) PROVE wv[i] = sv[lr + i]
  <2>1. CASE i <= lw
    <3> DEFINE k == lr + i
    <3>1. i \in 1..lw /\ k \in 1..ls
      BY <1>7, <2>1
    <3>2. w[i] = s[k]
      BY <1>7, <3>1
    <3> HIDE DEF k
    <3>3. wv[i] = sv[k]
      BY <1>7, <3>1, <3>2
    <3> QED BY <3>3 DEF k
  <2>2. CASE ~(i <= lw)
    <3> DEFINE j == i - lw
    <3>1. j \in 1..n /\ lw + j = i /\ ls + j = lr + i
      BY <1>7, <2>2
    <3> HIDE DEF j
    <3>2. wv[lw + j] = v[j] /\ sv[ls + j] = v[j]
      BY <1>5, <1>6, <3>1
    <3> QED BY <3>1, <3>2
  <2> QED BY <2>1, <2>2
<1>11. lr + (lw + n) = ls + n /\ lr + (lw + n) <= ls + n
  BY <1>7
<1>12. Behind(r, wv, sv)
  BY <1>1, <1>5, <1>6, <1>9, <1>10, <1>11 DEF Behind
<1>13. Whole(r, wv, sv)
  BY <1>1, <1>5, <1>6, <1>11 DEF Whole
<1> QED BY <1>12, <1>13 DEF wv, sv

\* A reset costs bytes that were on their way.
LEMMA BehindCut ==
  ASSUME NEW r \in Seq(Bytes), NEW w \in Seq(Bytes), NEW s \in Seq(Bytes),
         Behind(r, w, s), NEW q \in Prefixes(w)
  PROVE  Behind(r, q, s)
<1>1. PICK lr \in Nat : Len(r) = lr
  BY Lengths
<1>2. PICK lw \in Nat : Len(w) = lw
  BY Lengths
<1>3. PICK ls \in Nat : Len(s) = ls
  BY Lengths
<1>4. PICK lq \in Nat : Len(q) = lq
  BY PrefixFacts, Lengths
<1>5. /\ lr + lw <= ls /\ lq <= lw
      /\ \A i \in 1..lr : r[i] = s[i]
      /\ \A i \in 1..lw : w[i] = s[lr + i]
      /\ \A i \in 1..lq : q[i] = w[i]
  BY <1>1, <1>2, <1>3, <1>4, PrefixFacts DEF Behind
<1>6. lr + lq <= ls /\ \A i \in 1..lq : i \in 1..lw
  BY <1>5
<1>7. \A i \in 1..lq : q[i] = s[lr + i]
  BY <1>5, <1>6
<1> QED BY <1>1, <1>3, <1>4, <1>5, <1>6, <1>7 DEF Behind

\* Bytes on their way are reported.
LEMMA BehindReported ==
  ASSUME NEW r \in Seq(Bytes), NEW w \in Seq(Bytes), NEW s \in Seq(Bytes),
         Behind(r, w, s), NEW k \in 1..Len(w)
  PROVE  LET r2 == r \o SubSeq(w, 1, k)
             w2 == SubSeq(w, k + 1, Len(w))
         IN /\ r2 \in Seq(Bytes) /\ w2 \in Seq(Bytes)
            /\ Len(w2) <= Len(w) /\ Len(r2) > Len(r)
            /\ Behind(r2, w2, s) /\ Grown(r, r2)
            /\ Whole(r, w, s) => Whole(r2, w2, s)
<1>1. PICK lr \in Nat : Len(r) = lr
  BY Lengths
<1>2. PICK lw \in Nat : Len(w) = lw
  BY Lengths
<1>3. PICK ls \in Nat : Len(s) = ls
  BY Lengths
<1>4. k \in Nat /\ k >= 1 /\ k <= lw
  BY <1>2
<1> DEFINE v == SubSeq(w, 1, k)
           w2 == SubSeq(w, k + 1, lw)
           r2 == r \o v
<1>5. \A i \in 1..lw : w[i] \in Bytes
  BY <1>2, ElementOfSeq
<1>6. /\ v \in Seq(Bytes) /\ Len(v) = k
      /\ \A i \in 1..k : v[i] = w[i]
  <2>1. v \in Prefixes(w)
    BY <1>2, <1>4 DEF Prefixes
  <2>2. v \in Seq(Bytes) /\ \A i \in 1..Len(v) : v[i] = w[i]
    BY <2>1, PrefixFacts
  <2>3. \A i \in 1..k : w[i] \in Bytes
    BY <1>4, <1>5
  <2>4. Len(v) = IF 1 <= k THEN k - 1 + 1 ELSE 0
    BY <1>4, <2>3, SubSeqProperties
  <2> QED BY <1>4, <2>2, <2>4
<1>7. /\ w2 \in Seq(Bytes) /\ Len(w2) = lw - k
      /\ \A i \in 1..(lw - k) : w2[i] = w[k + i]
  <2> DEFINE m == k + 1
  <2>1. m \in Int /\ lw \in Int /\ \A i \in m..lw : w[i] \in Bytes
    BY <1>4, <1>5
  <2> HIDE DEF m
  <2>2. /\ SubSeq(w, m, lw) \in Seq(Bytes)
        /\ Len(SubSeq(w, m, lw)) = IF m <= lw THEN lw - m + 1 ELSE 0
        /\ \A i \in 1..(lw - m + 1) : SubSeq(w, m, lw)[i] = w[m + i - 1]
    BY <2>1, SubSeqProperties
  <2>3. lw - m + 1 = lw - k /\ (IF m <= lw THEN lw - m + 1 ELSE 0) = lw - k
        /\ \A i \in 1..(lw - k) : m + i - 1 = k + i
    BY <1>4 DEF m
  <2>4. w2 = SubSeq(w, m, lw)
    BY DEF m
  <2> HIDE DEF w2
  <2> QED BY <2>2, <2>3, <2>4
<1>8. /\ r2 \in Seq(Bytes) /\ Len(r2) = lr + k /\ Grown(r, r2)
      /\ \A j \in 1..k : r2[lr + j] = v[j]
  <2> HIDE DEF v
  <2>1. /\ r2 \in Seq(Bytes) /\ Len(r2) = Len(r) + Len(v) /\ Grown(r, r2)
        /\ \A j \in 1..Len(v) : r2[Len(r) + j] = v[j]
    BY <1>6, Appended
  <2> HIDE DEF r2
  <2> QED BY <1>1, <1>6, <2>1
<1> HIDE DEF v, w2, r2
<1>9. /\ lr + lw <= ls
      /\ \A i \in 1..lr : r[i] = s[i]
      /\ \A i \in 1..lw : w[i] = s[lr + i]
      /\ \A i \in 1..lr : r2[i] = r[i]
  BY <1>1, <1>2, <1>3, <1>8 DEF Behind, Grown
<1>10. ASSUME NEW i \in 1..(lr + k) PROVE r2[i] = s[i]
  <2>1. CASE i <= lr
    <3>1. i \in 1..lr
      BY <2>1
    <3> QED BY <1>9, <3>1
  <2>2. CASE ~(i <= lr)
    <3> DEFINE j == i - lr
    <3>1. j \in 1..k /\ j \in 1..lw /\ lr + j = i
      BY <1>4, <2>2
    <3> HIDE DEF j
    <3>2. r2[lr + j] = v[j] /\ v[j] = w[j] /\ w[j] = s[lr + j]
      BY <1>6, <1>8, <1>9, <3>1
    <3> QED BY <3>1, <3>2
  <2> QED BY <2>1, <2>2
<1>11. ASSUME NEW i \in 1..(lw - k) PROVE w2[i] = s[(lr + k) + i]
  <2> DEFINE j == k + i
  <2>1. j \in 1..lw /\ lr + j = (lr + k) + i
    BY <1>4
  <2>2. w2[i] = w[j]
    BY <1>7
  <2> HIDE DEF j
  <2>3. w[j] = s[lr + j]
    BY <1>9, <2>1
  <2> QED BY <2>1, <2>2, <2>3
<1>12. /\ (lr + k) + (lw - k) = lr + lw /\ (lr + k) + (lw - k) <= ls
       /\ lw - k <= lw /\ lr + k > lr
  BY <1>4, <1>9
<1>13. Behind(r2, w2, s)
  BY <1>3, <1>7, <1>8, <1>10, <1>11, <1>12 DEF Behind
<1>14. Whole(r, w, s) => Whole(r2, w2, s)
  BY <1>1, <1>2, <1>3, <1>7, <1>8, <1>12 DEF Whole
<1>15. Len(w2) <= Len(w) /\ Len(r2) > Len(r)
  BY <1>1, <1>2, <1>7, <1>8, <1>12
<1>16. r2 = r \o SubSeq(w, 1, k) /\ w2 = SubSeq(w, k + 1, Len(w))
  BY <1>2 DEF r2, v, w2
<1> QED BY <1>7, <1>8, <1>13, <1>14, <1>15, <1>16

(***************************************************************************)
(* The kernel.                                                             *)
(***************************************************************************)
\* Ends e and p of a connection.
LEMMA TwoEnds ==
  ASSUME Wires, NEW e \in Ends, NEW p, p = Peer(e)
  PROVE  /\ p \in Ends /\ p # e /\ Peer(p) = e /\ Ends = {e, p}
         /\ open[e] \in BOOLEAN /\ open[p] \in BOOLEAN
         /\ reset[e] \in BOOLEAN /\ reset[p] \in BOOLEAN
         /\ net[e] \in Seq(Bytes) /\ net[p] \in Seq(Bytes)
         /\ sent[e] \in Seq(Bytes) /\ sent[p] \in Seq(Bytes)
         /\ received[e] \in Seq(Bytes) /\ received[p] \in Seq(Bytes)
<1>1. p \in Ends /\ p # e /\ Peer(p) = e /\ Ends = {e, p}
  BY DEF Ends, Peer
<1> QED BY <1>1 DEF Wires

\* Wires, shown for the two ends of the connection.
LEMMA WiresFromEnds ==
  ASSUME NEW e \in Ends, NEW p, p = Peer(e),
         open' \in [Ends -> BOOLEAN], reset' \in [Ends -> BOOLEAN],
         net' \in [Ends -> Seq(Bytes)], sent' \in [Ends -> Seq(Bytes)],
         received' \in [Ends -> Seq(Bytes)],
         Len(net'[e]) <= Capacity, Len(net'[p]) <= Capacity,
         reset'[e] => ~open'[p], reset'[p] => ~open'[e],
         Behind(received'[e], net'[e], sent'[p]),
         Behind(received'[p], net'[p], sent'[e]),
         open'[e] /\ ~reset'[e] => Whole(received'[e], net'[e], sent'[p]),
         open'[p] /\ ~reset'[p] => Whole(received'[p], net'[p], sent'[e])
  PROVE  Wires'
<1>1. p \in Ends /\ p # e /\ Peer(p) = e /\ Peer(e) = p /\ Ends = {e, p}
  BY DEF Ends, Peer
<1>2. ASSUME NEW d \in Ends
      PROVE  Len(net'[d]) <= Capacity /\ (reset'[d] => ~open'[Peer(d)]) /\ Flow(d)'
  BY <1>1 DEF Flow
<1> QED BY <1>2 DEF Wires

LEMMA AcceptStep ==
  ASSUME Wires, NEW e \in Ends, open[e], NEW a \in Bytes, NEW b \in Bytes, a <= b,
         b - a + 1 <= Room(e), Accept(e, a, b), UNCHANGED <<open, received>>
  PROVE  /\ Wires'
         /\ sent'[e] = sent[e] \o Numbers(a, b)
         /\ sent'[Peer(e)] = sent[Peer(e)]
<1> DEFINE p == Peer(e)
           v == Numbers(a, b)
           n == b - a + 1
<1> HIDE DEF p
<1>1. /\ p \in Ends /\ p # e /\ Peer(p) = e /\ Peer(e) = p
      /\ open[e] \in BOOLEAN /\ open[p] \in BOOLEAN
      /\ reset[e] \in BOOLEAN /\ reset[p] \in BOOLEAN
      /\ net[e] \in Seq(Bytes) /\ net[p] \in Seq(Bytes)
      /\ sent[e] \in Seq(Bytes) /\ sent[p] \in Seq(Bytes)
      /\ received[e] \in Seq(Bytes) /\ received[p] \in Seq(Bytes)
  BY TwoEnds DEF p
<1>2. v \in Seq(Bytes) /\ Len(v) = n
  BY NumbersFacts
<1> HIDE DEF v, n
<1>3. sent' = [sent EXCEPT ![e] = sent[e] \o v]
  BY DEF Accept, v
<1>4. sent[e] \o v \in Seq(Bytes) /\ Grown(sent[e], sent[e] \o v)
  BY <1>1, <1>2, Appended
<1>5. /\ sent'[e] = sent[e] \o v /\ sent'[p] = sent[p]
      /\ sent' \in [Ends -> Seq(Bytes)]
  BY <1>1, <1>3, <1>4 DEF Wires
<1>6. /\ open' \in [Ends -> BOOLEAN] /\ received' \in [Ends -> Seq(Bytes)]
      /\ open' = open /\ received' = received
  BY DEF Wires
<1>7. /\ Behind(received[e], net[e], sent[p])
      /\ Behind(received[p], net[p], sent[e])
      /\ open[e] /\ ~reset[e] => Whole(received[e], net[e], sent[p])
      /\ open[p] /\ ~reset[p] => Whole(received[p], net[p], sent[e])
      /\ Len(net[e]) <= Capacity /\ Len(net[p]) <= Capacity
      /\ reset[e] => ~open[p]
      /\ reset[p] => ~open[e]
  BY <1>1 DEF Wires, Flow
<1>8. CASE open[p]
  <2>1. net' = [net EXCEPT ![p] = net[p] \o v] /\ reset' = reset
    BY <1>1, <1>8 DEF Accept, v
  <2>2. net[p] \o v \in Seq(Bytes) /\ Len(net[p] \o v) = Len(net[p]) + n
    BY <1>1, <1>2, Appended
  <2>3. Len(net[p] \o v) <= Capacity
    <3>1. PICK l \in Nat : Len(net[p]) = l
      BY <1>1, Lengths
    <3>2. n <= Capacity - l
      BY <1>1, <3>1 DEF Room, n
    <3>3. n \in Int /\ Capacity \in Int
      BY BytesAssumption, CapacityAssumption DEF n, Bytes
    <3>4. l + n <= Capacity
      BY <3>2, <3>3
    <3> QED BY <2>2, <3>1, <3>4
  <2>4. /\ net'[p] = net[p] \o v /\ net'[e] = net[e]
        /\ net' \in [Ends -> Seq(Bytes)]
    BY <1>1, <2>1, <2>2 DEF Wires
  <2>5. Whole(received[p], net[p], sent[e])
    BY <1>7, <1>8
  <2>6. /\ Behind(received[p], net[p] \o v, sent[e] \o v)
        /\ Whole(received[p], net[p] \o v, sent[e] \o v)
    BY <1>1, <1>2, <1>7, <2>5, BehindSent
  <2>7. reset' \in [Ends -> BOOLEAN]
    BY <2>1 DEF Wires
  <2>8. Wires'
    BY <1>1, <1>5, <1>6, <1>7, <2>1, <2>3, <2>4, <2>6, <2>7, WiresFromEnds
  <2> QED BY <1>1, <1>5, <2>8 DEF v
<1>9. CASE ~open[p]
  <2>1. reset' = [reset EXCEPT ![e] = TRUE]
    BY <1>1, <1>9 DEF Accept
  <2>2. PICK q \in Prefixes(net[e]) : net' = [net EXCEPT ![e] = q]
    BY <1>1, <1>9 DEF Accept
  <2>3. q \in Seq(Bytes) /\ Len(q) <= Capacity
    <3>1. q \in Seq(Bytes) /\ Len(q) <= Len(net[e])
      BY <1>1, PrefixFacts
    <3>2. PICK l \in Nat : Len(net[e]) = l
      BY <1>1, Lengths
    <3>3. PICK m \in Nat : Len(q) = m
      BY <3>1, Lengths
    <3>4. m <= l /\ l <= Capacity /\ Capacity \in Nat
      BY <1>7, <3>1, <3>2, <3>3, CapacityAssumption
    <3>5. m <= Capacity
      BY <3>4
    <3> QED BY <3>1, <3>3, <3>5
  <2>4. net'[e] = q /\ net'[p] = net[p] /\ net' \in [Ends -> Seq(Bytes)]
    BY <1>1, <2>2, <2>3 DEF Wires
  <2>5. /\ reset' \in [Ends -> BOOLEAN] /\ reset'[e] = TRUE
        /\ reset'[p] = reset[p]
    BY <1>1, <2>1 DEF Wires
  <2>6. Behind(received[e], q, sent[p])
    BY <1>1, <1>7, BehindCut
  <2>7. Behind(received[p], net[p], sent[e] \o v)
    BY <1>1, <1>4, <1>7, BehindGrown
  <2>8. Wires'
    BY <1>1, <1>5, <1>6, <1>7, <1>9, <2>3, <2>4, <2>5, <2>6, <2>7, WiresFromEnds
  <2> QED BY <1>1, <1>5, <2>8 DEF v
<1> QED BY <1>1, <1>8, <1>9

LEMMA CloseStep ==
  ASSUME Wires, NEW e \in Ends, open[e], KernelClose(e),
         open' = [open EXCEPT ![e] = FALSE], UNCHANGED <<sent, received>>
  PROVE  Wires'
<1> DEFINE p == Peer(e)
<1> HIDE DEF p
<1>1. /\ p \in Ends /\ p # e /\ Peer(p) = e /\ Peer(e) = p
      /\ open[e] \in BOOLEAN /\ open[p] \in BOOLEAN
      /\ reset[e] \in BOOLEAN /\ reset[p] \in BOOLEAN
      /\ net[e] \in Seq(Bytes) /\ net[p] \in Seq(Bytes)
      /\ sent[e] \in Seq(Bytes) /\ sent[p] \in Seq(Bytes)
      /\ received[e] \in Seq(Bytes) /\ received[p] \in Seq(Bytes)
  BY TwoEnds DEF p
<1>2. /\ Behind(received[e], net[e], sent[p])
      /\ Behind(received[p], net[p], sent[e])
      /\ open[e] /\ ~reset[e] => Whole(received[e], net[e], sent[p])
      /\ open[p] /\ ~reset[p] => Whole(received[p], net[p], sent[e])
      /\ Len(net[e]) <= Capacity /\ Len(net[p]) <= Capacity
      /\ reset[e] => ~open[p]
      /\ reset[p] => ~open[e]
  BY <1>1 DEF Wires, Flow
<1>3. PICK q \in Prefixes(net[p]) : /\ net[e] = <<>> => q = net[p]
                                    /\ net' = [net EXCEPT ![e] = <<>>, ![p] = q]
  BY <1>1 DEF KernelClose
<1>4. <<>> \in Prefixes(net[e]) /\ Len(<<>>) = 0 /\ <<>> \in Seq(Bytes)
  <2>1. SubSeq(net[e], 1, 0) = <<>>
    BY <1>1, SubSeqEmpty
  <2>2. 0 \in 0..Len(net[e])
    BY <1>1, LenProperties
  <2> QED BY <2>1, <2>2, EmptySeq DEF Prefixes
<1>5. q \in Seq(Bytes) /\ Len(q) <= Capacity
  <2>1. q \in Seq(Bytes) /\ Len(q) <= Len(net[p])
    BY <1>1, PrefixFacts
  <2>2. PICK l \in Nat : Len(net[p]) = l
    BY <1>1, Lengths
  <2>3. PICK m \in Nat : Len(q) = m
    BY <2>1, Lengths
  <2>4. m <= l /\ l <= Capacity /\ Capacity \in Nat
    BY <1>2, <2>1, <2>2, <2>3, CapacityAssumption
  <2>5. m <= Capacity
    BY <2>4
  <2> QED BY <2>1, <2>3, <2>5
<1>6. /\ net'[e] = <<>> /\ net'[p] = q /\ net' \in [Ends -> Seq(Bytes)]
      /\ Len(net'[e]) <= Capacity
  <2>1. net'[e] = <<>> /\ net'[p] = q /\ net' \in [Ends -> Seq(Bytes)]
    BY <1>1, <1>3, <1>4, <1>5 DEF Wires
  <2>2. 0 <= Capacity
    BY CapacityAssumption
  <2> QED BY <1>4, <2>1, <2>2
<1>7. reset' = [reset EXCEPT ![p] = reset[p] \/ (open[p] /\ net[e] # <<>>)]
  BY <1>1 DEF KernelClose
<1>8. /\ reset' \in [Ends -> BOOLEAN] /\ reset'[e] = reset[e]
      /\ reset'[p] = (reset[p] \/ (open[p] /\ net[e] # <<>>))
  BY <1>1, <1>7 DEF Wires
<1>9. /\ open' \in [Ends -> BOOLEAN] /\ open'[e] = FALSE /\ open'[p] = open[p]
      /\ received' \in [Ends -> Seq(Bytes)] /\ sent' \in [Ends -> Seq(Bytes)]
      /\ received' = received /\ sent' = sent
  BY <1>1 DEF Wires
<1>10. Behind(received[e], <<>>, sent[p]) /\ Behind(received[p], q, sent[e])
  BY <1>1, <1>2, <1>4, BehindCut
<1>11. open[p] /\ ~reset'[p] => Whole(received[p], q, sent[e])
  BY <1>1, <1>2, <1>3, <1>8
<1> QED BY <1>1, <1>2, <1>5, <1>6, <1>8, <1>9, <1>10, <1>11, WiresFromEnds

LEMMA RecvStep ==
  ASSUME Wires, NEW e \in Ends, RecvData(e)
  PROVE  /\ Wires' /\ Grown(received[e], received'[e])
         /\ Len(received'[e]) > Len(received[e])
         /\ received'[Peer(e)] = received[Peer(e)]
<1> DEFINE p == Peer(e)
<1> HIDE DEF p
<1>1. /\ p \in Ends /\ p # e /\ Peer(p) = e /\ Peer(e) = p
      /\ open[e] \in BOOLEAN /\ open[p] \in BOOLEAN
      /\ reset[e] \in BOOLEAN /\ reset[p] \in BOOLEAN
      /\ net[e] \in Seq(Bytes) /\ net[p] \in Seq(Bytes)
      /\ sent[e] \in Seq(Bytes) /\ sent[p] \in Seq(Bytes)
      /\ received[e] \in Seq(Bytes) /\ received[p] \in Seq(Bytes)
  BY TwoEnds DEF p
<1>2. /\ Behind(received[e], net[e], sent[p])
      /\ Behind(received[p], net[p], sent[e])
      /\ open[e] /\ ~reset[e] => Whole(received[e], net[e], sent[p])
      /\ open[p] /\ ~reset[p] => Whole(received[p], net[p], sent[e])
      /\ Len(net[e]) <= Capacity /\ Len(net[p]) <= Capacity
      /\ reset[e] => ~open[p]
      /\ reset[p] => ~open[e]
  BY <1>1 DEF Wires, Flow
<1>3. PICK k \in 1..Len(net[e]) :
        /\ received' = [received EXCEPT ![e] = received[e] \o SubSeq(net[e], 1, k)]
        /\ net' = [net EXCEPT ![e] = SubSeq(net[e], k + 1, Len(net[e]))]
  BY DEF RecvData
<1> DEFINE r2 == received[e] \o SubSeq(net[e], 1, k)
           w2 == SubSeq(net[e], k + 1, Len(net[e]))
<1>4. /\ r2 \in Seq(Bytes) /\ w2 \in Seq(Bytes)
      /\ Len(w2) <= Len(net[e]) /\ Len(r2) > Len(received[e])
      /\ Behind(r2, w2, sent[p]) /\ Grown(received[e], r2)
      /\ Whole(received[e], net[e], sent[p]) => Whole(r2, w2, sent[p])
  BY <1>1, <1>2, BehindReported
<1>5. received' = [received EXCEPT ![e] = r2] /\ net' = [net EXCEPT ![e] = w2]
  BY <1>3
<1> HIDE DEF r2, w2
<1>6. /\ received'[e] = r2 /\ received'[p] = received[p]
      /\ received' \in [Ends -> Seq(Bytes)]
      /\ net'[e] = w2 /\ net'[p] = net[p] /\ net' \in [Ends -> Seq(Bytes)]
  BY <1>1, <1>4, <1>5 DEF Wires
<1>7. Len(w2) <= Capacity
  <2>1. PICK l \in Nat : Len(net[e]) = l
    BY <1>1, Lengths
  <2>2. PICK m \in Nat : Len(w2) = m
    BY <1>4, Lengths
  <2>3. m <= l /\ l <= Capacity /\ Capacity \in Nat
    BY <1>2, <1>4, <2>1, <2>2, CapacityAssumption
  <2>4. m <= Capacity
    BY <2>3
  <2> QED BY <2>2, <2>4
<1>8. /\ open' = open /\ reset' = reset /\ sent' = sent
      /\ open' \in [Ends -> BOOLEAN] /\ reset' \in [Ends -> BOOLEAN]
      /\ sent' \in [Ends -> Seq(Bytes)]
  BY DEF RecvData, Wires
<1>9. Wires'
  BY <1>1, <1>2, <1>4, <1>6, <1>7, <1>8, WiresFromEnds
<1> QED BY <1>1, <1>4, <1>6, <1>9

(***************************************************************************)
(* Messages and the bytes of theirs that were accepted.                    *)
(***************************************************************************)
LEMMA NumbersPlaced ==
  ASSUME NEW s \in Seq(Bytes), NEW a \in Bytes, NEW b \in Bytes, a <= b
  PROVE  LET t == s \o Numbers(a, b) IN
         /\ t \in Seq(Bytes) /\ Grown(s, t) /\ Len(t) = Len(s) + (b - a + 1)
         /\ Placed(t, a, b, Len(s))
<1> DEFINE v == Numbers(a, b)
           t == s \o v
<1>1. PICK l \in Nat : Len(s) = l
  BY Lengths
<1>2. PICK n \in Nat : n = b - a + 1
  BY BytesAssumption DEF Bytes
<1>3. a \in Nat /\ b \in Nat
  BY BytesAssumption DEF Bytes
<1>4. v \in Seq(Bytes) /\ Len(v) = n /\ \A j \in 1..n : v[j] = a + j - 1
  BY <1>2, NumbersFacts
<1> HIDE DEF v
<1>5. /\ t \in Seq(Bytes) /\ Len(t) = Len(s) + Len(v) /\ Grown(s, t)
      /\ \A j \in 1..Len(v) : t[Len(s) + j] = v[j]
  BY <1>4, Appended
<1> HIDE DEF t
<1>6. Len(t) = l + n /\ \A j \in 1..n : t[l + j] = a + j - 1
  BY <1>1, <1>4, <1>5
<1>7. ASSUME NEW x \in a..b PROVE t[l + x - a + 1] = x
  <2> DEFINE j == x - a + 1
  <2>1. j \in 1..n /\ l + j = l + x - a + 1 /\ a + j - 1 = x
    BY <1>2, <1>3
  <2> HIDE DEF j
  <2>2. t[l + j] = a + j - 1
    BY <1>6, <2>1
  <2> QED BY <2>1, <2>2
<1>8. Placed(t, a, b, l)
  BY <1>2, <1>6, <1>7 DEF Placed
<1> QED BY <1>1, <1>2, <1>5, <1>6, <1>8 DEF t, v

\* One more byte of a message, behind the ones before it.
LEMMA PlacedMore ==
  ASSUME NEW s \in Seq(Bytes), NEW a \in Bytes, NEW b \in Bytes, a <= b,
         Placed(s, a, b - 1, Len(s) - (b - a))
  PROVE  LET t == s \o Numbers(b, b) IN
         /\ Len(t) = Len(s) + 1
         /\ Placed(t, a, b, Len(s) - (b - a))
<1> DEFINE t == s \o Numbers(b, b)
<1>1. PICK l \in Nat : Len(s) = l
  BY Lengths
<1>2. a \in Nat /\ b \in Nat /\ b <= b /\ b - b + 1 = 1
  BY BytesAssumption DEF Bytes
<1>3. /\ t \in Seq(Bytes) /\ Grown(s, t) /\ Len(t) = Len(s) + (b - b + 1)
      /\ Placed(t, b, b, Len(s))
  BY <1>2, NumbersPlaced
<1> HIDE DEF t
<1>4. Len(t) = l + 1 /\ \A x \in b..b : t[l + x - b + 1] = x
  BY <1>1, <1>2, <1>3 DEF Placed
<1>5. t[l + b - b + 1] = b
  <2>1. b \in b..b
    BY <1>2
  <2> QED BY <1>4, <2>1
<1> DEFINE i == l - (b - a)
<1>6. i \in Nat /\ Placed(s, a, b - 1, i)
  BY <1>1 DEF Placed
<1>7. ASSUME NEW x \in a..(b - 1) PROVE t[i + x - a + 1] = x
  <2>1. b - 1 \in Int /\ a \in Int
    BY <1>2
  <2>2. Placed(t, a, b - 1, i)
    BY <1>3, <1>6, <2>1, PlacedStays
  <2> QED BY <2>2 DEF Placed
<1>8. ASSUME NEW x \in a..b PROVE t[i + x - a + 1] = x
  <2>1. CASE x = b
    <3>1. i + b - a + 1 = l + b - b + 1
      BY <1>2
    <3> HIDE DEF i
    <3> QED BY <1>5, <2>1, <3>1
  <2>2. CASE x # b
    <3>1. x \in a..(b - 1)
      BY <1>2, <2>2
    <3> QED BY <1>7, <3>1
  <2> QED BY <2>1, <2>2
<1>9. i + (b - a + 1) <= l + 1
  BY <1>2
<1>10. Placed(t, a, b, i)
  BY <1>4, <1>6, <1>8, <1>9 DEF Placed
<1> QED BY <1>1, <1>4, <1>10 DEF t

LEMMA MessageFacts ==
  ASSUME Ledger, NEW e \in Ends, NEW n \in 1..MaxMessage, offered[e] + n <= MaxBytes
  PROVE  LET m == Message(e, n) IN
         /\ m \in Messages /\ m # Idle /\ n \in Nat /\ n >= 1
         /\ m.next = m.first /\ m.first <= m.last /\ m.last - m.first + 1 = n
         /\ offered[e] + n \in 0..MaxBytes
<1> DEFINE m == Message(e, n)
<1>1. /\ offered[e] \in Nat /\ n \in Nat /\ n >= 1 /\ MaxBytes \in Nat
  BY BytesAssumption, MessageAssumption DEF Ledger
<1>2. m = [first |-> offered[e] + 1, next |-> offered[e] + 1,
           last |-> offered[e] + 1 + n - 1]
  BY DEF Message, LastByte
<1>3. /\ m.first = offered[e] + 1 /\ m.next = offered[e] + 1
      /\ m.last = offered[e] + 1 + n - 1
  BY <1>2
<1>4. /\ offered[e] + 1 \in Bytes /\ offered[e] + 1 + n - 1 \in Bytes
      /\ offered[e] + 1 <= offered[e] + 1 + n - 1
      /\ (offered[e] + 1 + n - 1) - (offered[e] + 1) + 1 = n
      /\ offered[e] + n \in 0..MaxBytes
      /\ offered[e] + 1 + n - 1 # 0
  BY <1>1 DEF Bytes
<1>5. m \in Messages
  BY <1>2, <1>4 DEF Messages
<1>6. m # Idle
  BY <1>3, <1>4 DEF Idle
<1> HIDE DEF m
<1> QED BY <1>1, <1>3, <1>4, <1>5, <1>6 DEF m

\* Ledger, shown for a step of e in which its peer does not take part.
LEMMA LedgerFromEnd ==
  ASSUME Wires, Ledger, NEW e \in Ends,
         sent'[Peer(e)] = sent[Peer(e)], Grown(sent[e], sent'[e]), open' = open,
         sending' \in [Ends -> Messages \cup {Idle}],
         sending'[Peer(e)] = sending[Peer(e)], sending'[e] # Idle => Blocked(e)',
         offered' \in [Ends -> 0..MaxBytes],
         confirmed' \in [Ends -> SUBSET Messages],
         confirmed'[Peer(e)] = confirmed[Peer(e)],
         \A m \in confirmed'[e] :
           m \in confirmed[e] \/ \E i \in Nat : Placed(sent'[e], m.first, m.last, i)
  PROVE  Ledger'
<1> DEFINE p == Peer(e)
<1> HIDE DEF p
<1>1. /\ p \in Ends /\ p # e /\ Ends = {e, p} /\ sent[e] \in Seq(Bytes)
  BY TwoEnds DEF p
<1>2. sending'[p] # Idle => Blocked(p)'
  BY <1>1 DEF Ledger, Blocked, p
<1>3. \A m \in confirmed'[p] : \E i \in Nat : Placed(sent'[p], m.first, m.last, i)
  BY <1>1 DEF Ledger, p
<1>4. ASSUME NEW m \in confirmed'[e]
      PROVE  \E i \in Nat : Placed(sent'[e], m.first, m.last, i)
  <2>1. CASE m \in confirmed[e]
    <3>1. PICK i \in Nat : Placed(sent[e], m.first, m.last, i)
      BY <2>1 DEF Ledger
    <3>2. m.first \in Int /\ m.last \in Int
      <4>1. m \in Messages
        BY <2>1 DEF Ledger
      <4> QED BY <4>1 DEF Messages, Bytes
    <3>3. Placed(sent'[e], m.first, m.last, i)
      BY <1>1, <3>1, <3>2, PlacedStays
    <3> QED BY <3>3
  <2>2. CASE m \notin confirmed[e]
    BY <2>2
  <2> QED BY <2>1, <2>2
<1>5. ASSUME NEW d \in Ends
      PROVE  /\ sending'[d] # Idle => Blocked(d)'
             /\ \A m \in confirmed'[d] :
                  \E i \in Nat : Placed(sent'[d], m.first, m.last, i)
  BY <1>1, <1>2, <1>3, <1>4
<1> QED BY <1>5 DEF Ledger

(***************************************************************************)
(* The steps.  ChannelStep(e) is a step of the ByteChannel in which e is   *)
(* the sender, or leaves it alone.                                         *)
(***************************************************************************)
ChannelStep(e) ==
  LET p == Peer(e) IN
  \/ UNCHANGED <<sent[e], received[p], open[e], ended[p]>>
  \/ /\ open[e] /\ Grown(sent[e], sent'[e]) /\ Len(sent'[e]) > Len(sent[e])
     /\ UNCHANGED <<received[p], open[e], ended[p]>>
  \/ /\ open[e] /\ open'[e] = FALSE
     /\ UNCHANGED <<sent[e], received[p], ended[p]>>
  \/ /\ ended[p] = "no" /\ Len(received'[p]) > Len(received[p])
     /\ Grown(received[p], received'[p]) /\ Grown(received'[p], sent[e])
     /\ UNCHANGED <<sent[e], open[e], ended[p]>>
  \/ /\ ended[p] = "no" /\ ~open[e] /\ received[p] = sent[e]
     /\ ended'[p] = "complete" /\ UNCHANGED <<sent[e], received[p], open[e]>>
  \/ /\ ended[p] = "no" /\ ended'[p] = "broken"
     /\ UNCHANGED <<sent[e], received[p], open[e]>>

Step == Inv' /\ \A e \in Ends : ChannelStep(e)

LEMMA Unchanged == ASSUME Inv, UNCHANGED vars PROVE Step
<1>1. Inv'
  BY DEF vars, Inv, Wires, Ledger, Ending, Flow, Blocked
<1>2. ASSUME NEW e \in Ends PROVE ChannelStep(e)
  BY DEF vars, ChannelStep
<1> QED BY <1>1, <1>2 DEF Step

\* The kernel accepts bytes a..b of e, and nothing else is seen of it.
LEMMA AcceptedStep ==
  ASSUME Inv, NEW e \in Ends, open[e], NEW a \in Bytes, NEW b \in Bytes, a <= b,
         b - a + 1 <= Room(e), Accept(e, a, b), UNCHANGED <<open, received, ended>>
  PROVE  /\ Wires' /\ Ending' /\ \A d \in Ends : ChannelStep(d)
         /\ sent'[e] = sent[e] \o Numbers(a, b)
         /\ sent'[Peer(e)] = sent[Peer(e)] /\ Grown(sent[e], sent'[e])
<1> DEFINE p == Peer(e)
<1>1. /\ p \in Ends /\ p # e /\ Peer(p) = e /\ Ends = {e, p}
      /\ sent[e] \in Seq(Bytes)
  BY TwoEnds DEF Inv
<1>2. /\ Wires' /\ sent'[e] = sent[e] \o Numbers(a, b) /\ sent'[p] = sent[p]
  BY AcceptStep DEF Inv
<1> HIDE DEF p
<1>3. Grown(sent[e], sent'[e]) /\ Len(sent'[e]) > Len(sent[e])
  <2>1. PICK l \in Nat : Len(sent[e]) = l
    BY <1>1, Lengths
  <2>2. b - a + 1 >= 1 /\ b - a + 1 \in Nat
    BY BytesAssumption DEF Bytes
  <2>3. Grown(sent[e], sent'[e]) /\ Len(sent'[e]) = Len(sent[e]) + (b - a + 1)
    BY <1>1, <1>2, NumbersPlaced
  <2>4. l + (b - a + 1) > l
    BY <2>2
  <2> QED BY <2>1, <2>3, <2>4
<1>4. ChannelStep(e) /\ ChannelStep(p)
  BY <1>1, <1>2, <1>3 DEF ChannelStep, p
<1>5. Ending'
  BY DEF Inv, Ending
<1> QED BY <1>1, <1>2, <1>3, <1>4, <1>5 DEF p

LEMMA SendNowStep ==
  ASSUME Inv, NEW e \in Ends, NEW n \in 1..MaxMessage, SendNow(e, n)
  PROVE  Step
<1> DEFINE p == Peer(e)
           m == Message(e, n)
<1>1. /\ open[e] /\ sending[e] = Idle /\ offered[e] + n <= MaxBytes
      /\ offered' = [offered EXCEPT ![e] = offered[e] + n]
      /\ UNCHANGED <<open, sending, received, ended>>
  BY DEF SendNow, Free
<1>2. PICK k \in 0..(m.last - m.first + 1) :
        /\ Confirm(e, m, k)
        /\ \/ /\ k > 0 /\ k <= Room(e) /\ ~reset[e]
              /\ Accept(e, m.first, m.first + k - 1)
           \/ k = 0 /\ UNCHANGED <<sent, net, reset>>
  BY DEF SendNow
<1>3. /\ m \in Messages /\ m.first <= m.last /\ m.last - m.first + 1 = n
      /\ n \in Nat /\ n >= 1 /\ offered[e] + n \in 0..MaxBytes
  BY <1>1, MessageFacts DEF Inv
<1> HIDE DEF m, p
<1>4. /\ p \in Ends /\ p # e /\ Ends = {e, p} /\ Peer(e) = p
      /\ sent[e] \in Seq(Bytes)
  BY TwoEnds DEF Inv, p
<1>5. m.first \in Bytes /\ m.last \in Bytes /\ m.first \in Nat /\ m.last \in Nat
  BY <1>3, BytesAssumption DEF Messages, Bytes
<1>6. /\ offered' \in [Ends -> 0..MaxBytes]
      /\ sending' \in [Ends -> Messages \cup {Idle}] /\ sending'[e] = Idle
      /\ sending'[p] = sending[p]
  BY <1>1, <1>3 DEF Inv, Ledger
<1>7. /\ confirmed' = IF k = n THEN [confirmed EXCEPT ![e] = confirmed[e] \cup {m}]
                      ELSE confirmed
  BY <1>2, <1>3 DEF Confirm, IsWhole
<1>8. /\ confirmed' \in [Ends -> SUBSET Messages] /\ confirmed'[p] = confirmed[p]
      /\ \A c \in confirmed'[e] : c \in confirmed[e] \/ (k = n /\ c = m)
  BY <1>3, <1>4, <1>7 DEF Inv, Ledger
<1>9. CASE k > 0
  <2> DEFINE b == m.first + k - 1
  <2>1. k <= Room(e) /\ Accept(e, m.first, b)
    BY <1>2, <1>9
  <2>2. /\ b \in Bytes /\ m.first <= b /\ b - m.first + 1 = k
        /\ (k = n => b = m.last)
    <3>1. PICK f \in Nat : m.first = f
      BY <1>5
    <3>2. PICK l \in Nat : m.last = l
      BY <1>5
    <3>3. f >= 1 /\ l <= MaxBytes /\ MaxBytes \in Nat /\ l - f + 1 = n
      BY <1>3, <1>5, <3>1, <3>2, BytesAssumption DEF Bytes
    <3>4. k \in 1..n
      BY <1>3, <1>9
    <3>5. /\ f + k - 1 \in 1..MaxBytes /\ f <= f + k - 1
          /\ (f + k - 1) - f + 1 = k /\ (k = n => f + k - 1 = l)
      BY <3>3, <3>4
    <3> QED BY <3>1, <3>2, <3>5 DEF Bytes
  <2> HIDE DEF b
  <2>3. /\ Wires' /\ Ending' /\ \A d \in Ends : ChannelStep(d)
        /\ sent'[e] = sent[e] \o Numbers(m.first, b)
        /\ sent'[p] = sent[p] /\ Grown(sent[e], sent'[e])
    BY <1>1, <1>4, <1>5, <2>1, <2>2, AcceptedStep
  <2>4. k = n => Placed(sent'[e], m.first, m.last, Len(sent[e]))
                 /\ Len(sent[e]) \in Nat
    BY <1>4, <1>5, <2>2, <2>3, NumbersPlaced, LenProperties
  <2>5. \A c \in confirmed'[e] :
          c \in confirmed[e] \/ \E i \in Nat : Placed(sent'[e], c.first, c.last, i)
    BY <1>8, <2>4
  <2>6. Ledger'
    BY <1>1, <1>4, <1>6, <1>8, <2>3, <2>5, LedgerFromEnd DEF Inv
  <2> QED BY <2>3, <2>6 DEF Step, Inv
<1>10. CASE ~(k > 0)
  <2>1. k = 0 /\ UNCHANGED <<sent, net, reset>> /\ confirmed' = confirmed
    BY <1>2, <1>3, <1>7, <1>10
  <2>2. Wires' /\ Ending' /\ Grown(sent[e], sent'[e])
    <3>1. Wires' /\ Ending'
      BY <1>1, <2>1 DEF Inv, Wires, Flow, Ending
    <3>2. PICK l \in Nat : Len(sent[e]) = l
      BY <1>4, Lengths
    <3> QED BY <1>4, <2>1, <3>1, <3>2 DEF Grown
  <2>3. \A d \in Ends : ChannelStep(d)
    BY <1>1, <2>1 DEF ChannelStep
  <2>4. Ledger'
    BY <1>1, <1>4, <1>6, <1>8, <2>1, <2>2, LedgerFromEnd DEF Inv
  <2> QED BY <2>2, <2>3, <2>4 DEF Step, Inv
<1> QED BY <1>9, <1>10

LEMMA SendBlockingStep ==
  ASSUME Inv, NEW e \in Ends, NEW n \in 1..MaxMessage, SendBlocking(e, n)
  PROVE  Step
<1> DEFINE p == Peer(e)
           m == Message(e, n)
<1>1. /\ open[e] /\ offered[e] + n <= MaxBytes
      /\ offered' = [offered EXCEPT ![e] = offered[e] + n]
      /\ sending' = [sending EXCEPT ![e] = m]
      /\ UNCHANGED <<open, net, reset, sent, received, confirmed, ended>>
  BY DEF SendBlocking, Free
<1>2. /\ m \in Messages /\ m.next = m.first /\ m.first <= m.last
      /\ offered[e] + n \in 0..MaxBytes
  BY <1>1, MessageFacts DEF Inv
<1> HIDE DEF m, p
<1>3. /\ p \in Ends /\ p # e /\ Ends = {e, p} /\ Peer(e) = p
      /\ sent[e] \in Seq(Bytes)
  BY TwoEnds DEF Inv, p
<1>4. /\ offered' \in [Ends -> 0..MaxBytes]
      /\ sending' \in [Ends -> Messages \cup {Idle}] /\ sending'[e] = m
      /\ sending'[p] = sending[p]
  BY <1>1, <1>2, <1>3 DEF Inv, Ledger
<1>5. PICK l \in Nat : Len(sent[e]) = l
  BY <1>3, Lengths
<1>6. Placed(sent[e], m.first, m.first - 1, Len(sent[e]) - (m.first - m.first))
  <2>1. PICK f \in Nat : m.first = f
    BY <1>2, BytesAssumption DEF Messages, Bytes
  <2>2. /\ l - (f - f) \in Nat /\ l - (f - f) + ((f - 1) - f + 1) <= l
        /\ \A x \in f..(f - 1) : sent[e][(l - (f - f)) + x - f + 1] = x
    BY <2>1
  <2> QED BY <1>5, <2>1, <2>2 DEF Placed
<1>7. Blocked(e)'
  <2>1. Placed(sent[e], m.first, m.next - 1, Len(sent[e]) - (m.next - m.first))
    BY <1>2, <1>6
  <2>2. m.next <= m.last /\ m.first <= m.next
    BY <1>2, BytesAssumption DEF Messages, Bytes
  <2>3. sending'[e] = m /\ sent'[e] = sent[e] /\ open'[e]
    BY <1>1, <1>4
  <2> QED BY <1>2, <2>1, <2>2, <2>3 DEF Blocked
<1>8. Wires' /\ Ending' /\ Grown(sent[e], sent'[e])
  <2>1. Wires' /\ Ending'
    BY <1>1 DEF Inv, Wires, Flow, Ending
  <2> QED BY <1>1, <1>3, <1>5, <2>1 DEF Grown
<1>9. \A d \in Ends : ChannelStep(d)
  BY <1>1 DEF ChannelStep
<1>10. confirmed' \in [Ends -> SUBSET Messages]
  BY <1>1 DEF Inv, Ledger
<1>11. Ledger'
  BY <1>1, <1>3, <1>4, <1>7, <1>8, <1>10, LedgerFromEnd DEF Inv
<1> QED BY <1>8, <1>9, <1>11 DEF Step, Inv

LEMMA QueueStep ==
  ASSUME Inv, NEW e \in Ends, Queue(e)
  PROVE  Step
<1> DEFINE p == Peer(e)
           m == sending[e]
           i == Len(sent[e]) - (m.next - m.first)
           whole == [m EXCEPT !.next = m.first]
<1>1. /\ m # Idle /\ Room(e) > 0 /\ Accept(e, m.next, m.next)
      /\ IF m.next = m.last
           THEN /\ sending' = [sending EXCEPT ![e] = Idle]
                /\ Confirm(e, whole, m.last - m.first + 1)
           ELSE /\ sending' = [sending EXCEPT ![e] = [m EXCEPT !.next = m.next + 1]]
                /\ UNCHANGED confirmed
      /\ UNCHANGED <<open, offered, received, ended>>
  BY DEF Queue
<1>2. /\ m \in Messages /\ m.first <= m.next /\ m.next <= m.last /\ open[e]
      /\ Placed(sent[e], m.first, m.next - 1, i)
  BY <1>1 DEF Inv, Ledger, Blocked
<1>3. /\ m.first \in Bytes /\ m.next \in Bytes /\ m.last \in Bytes
      /\ m.first \in Nat /\ m.next \in Nat /\ m.last \in Nat
      /\ m = [first |-> m.first, next |-> m.next, last |-> m.last]
  BY <1>2, BytesAssumption DEF Messages, Bytes
<1>4. /\ p \in Ends /\ p # e /\ Ends = {e, p} /\ Peer(e) = p
      /\ sent[e] \in Seq(Bytes) /\ net[p] \in Seq(Bytes)
  BY TwoEnds DEF Inv
<1>5. /\ Wires' /\ Ending' /\ \A d \in Ends : ChannelStep(d)
      /\ sent'[e] = sent[e] \o Numbers(m.next, m.next)
      /\ sent'[p] = sent[p] /\ Grown(sent[e], sent'[e])
  <2> HIDE DEF m
  <2>1. m.next <= m.next /\ m.next - m.next + 1 <= Room(e)
    <3>1. Room(e) \in Int
      <4>1. PICK l \in Nat : Len(net[p]) = l
        BY <1>4, Lengths
      <4> QED BY <1>4, <4>1, CapacityAssumption DEF Room
    <3>2. Room(e) > 0
      BY <1>1
    <3> QED BY <1>3, <3>1, <3>2
  <2> QED BY <1>1, <1>2, <1>3, <2>1, AcceptedStep
<1>6. Placed(sent'[e], m.first, m.next, i) /\ Len(sent'[e]) = Len(sent[e]) + 1
  <2> HIDE DEF m
  <2> QED BY <1>2, <1>3, <1>4, <1>5, PlacedMore
<1>7. offered' \in [Ends -> 0..MaxBytes]
  BY <1>1 DEF Inv, Ledger
<1>8. i \in Nat
  BY <1>2 DEF Placed
<1>9. CASE m.next = m.last
  <2>1. /\ sending' = [sending EXCEPT ![e] = Idle]
        /\ Confirm(e, whole, m.last - m.first + 1)
    BY <1>1, <1>9
  <2>2. whole = [first |-> m.first, next |-> m.first, last |-> m.last]
    BY <1>3
  <2>3. /\ whole \in Messages /\ whole.first = m.first /\ whole.last = m.last
    BY <1>3, <2>2 DEF Messages
  <2> HIDE DEF m, whole, i
  <2>4. confirmed' = [confirmed EXCEPT ![e] = confirmed[e] \cup {whole}]
    BY <2>1, <2>3 DEF Confirm, IsWhole
  <2>5. /\ confirmed' \in [Ends -> SUBSET Messages] /\ confirmed'[p] = confirmed[p]
        /\ \A c \in confirmed'[e] : c \in confirmed[e] \/ c = whole
    BY <1>4, <2>3, <2>4 DEF Inv, Ledger
  <2>6. Placed(sent'[e], whole.first, whole.last, i)
    BY <1>6, <1>9, <2>3
  <2>7. \A c \in confirmed'[e] :
          c \in confirmed[e] \/ \E j \in Nat : Placed(sent'[e], c.first, c.last, j)
    BY <1>8, <2>5, <2>6
  <2>8. /\ sending' \in [Ends -> Messages \cup {Idle}] /\ sending'[e] = Idle
        /\ sending'[p] = sending[p]
    BY <1>4, <2>1 DEF Inv, Ledger
  <2>9. Ledger'
    BY <1>1, <1>4, <1>5, <1>7, <2>5, <2>7, <2>8, LedgerFromEnd DEF Inv
  <2> QED BY <1>5, <2>9 DEF Step, Inv
<1>10. CASE m.next # m.last
  <2> DEFINE next == [m EXCEPT !.next = m.next + 1]
  <2>1. /\ sending' = [sending EXCEPT ![e] = next] /\ confirmed' = confirmed
    BY <1>1, <1>10
  <2>2. next = [first |-> m.first, next |-> m.next + 1, last |-> m.last]
    BY <1>3
  <2> HIDE DEF m, next
  <2>3. /\ m.next + 1 \in Bytes /\ m.next + 1 <= m.last /\ m.first <= m.next + 1
    BY <1>2, <1>3, <1>10, BytesAssumption DEF Bytes
  <2>4. /\ next.first = m.first /\ next.next = m.next + 1 /\ next.last = m.last
        /\ next \in Messages
    BY <1>3, <2>2, <2>3 DEF Messages
  <2>5. /\ sending' \in [Ends -> Messages \cup {Idle}] /\ sending'[e] = next
        /\ sending'[p] = sending[p]
    BY <1>4, <2>1, <2>4 DEF Inv, Ledger
  <2>6. /\ Len(sent'[e]) - ((m.next + 1) - m.first) = i
        /\ (m.next + 1) - 1 = m.next
    <3>1. PICK l \in Nat : Len(sent[e]) = l
      BY <1>4, Lengths
    <3>2. (l + 1) - ((m.next + 1) - m.first) = l - (m.next - m.first)
      BY <1>3
    <3> QED BY <1>3, <1>6, <3>1, <3>2
  <2> HIDE DEF i
  <2>7. Placed(sent'[e], next.first, next.next - 1,
               Len(sent'[e]) - (next.next - next.first))
    BY <1>6, <2>4, <2>6
  <2>8. Blocked(e)'
    BY <1>1, <1>2, <2>3, <2>4, <2>5, <2>7 DEF Blocked
  <2>9. confirmed' \in [Ends -> SUBSET Messages]
    BY <2>1 DEF Inv, Ledger
  <2>10. Ledger'
    BY <1>1, <1>4, <1>5, <1>7, <2>1, <2>5, <2>8, <2>9, LedgerFromEnd DEF Inv
  <2> QED BY <1>5, <2>10 DEF Step, Inv
<1> QED BY <1>9, <1>10

LEMMA QueueFailsStep ==
  ASSUME Inv, NEW e \in Ends, QueueFails(e)
  PROVE  Step
<1> DEFINE p == Peer(e)
           m == sending[e]
           whole == [m EXCEPT !.next = m.first]
<1>1. /\ m # Idle /\ sending' = [sending EXCEPT ![e] = Idle]
      /\ Confirm(e, whole, m.next - m.first)
      /\ UNCHANGED <<open, net, reset, offered, sent, received, ended>>
  BY DEF QueueFails
<1>2. m \in Messages /\ m.first <= m.next /\ m.next <= m.last
  BY <1>1 DEF Inv, Ledger, Blocked
<1>3. /\ m.first \in Nat /\ m.next \in Nat /\ m.last \in Nat
      /\ m = [first |-> m.first, next |-> m.next, last |-> m.last]
  BY <1>2, BytesAssumption DEF Messages, Bytes
<1>4. whole = [first |-> m.first, next |-> m.first, last |-> m.last]
  BY <1>3
<1>5. whole.first = m.first /\ whole.last = m.last
  BY <1>4
<1>6. /\ p \in Ends /\ p # e /\ Ends = {e, p} /\ Peer(e) = p
      /\ sent[e] \in Seq(Bytes)
  BY TwoEnds DEF Inv
<1> HIDE DEF m, whole
<1>7. confirmed' = confirmed
  <2>1. m.next - m.first # m.last - m.first + 1
    BY <1>2, <1>3
  <2> QED BY <1>1, <1>5, <2>1 DEF Confirm, IsWhole
<1>8. /\ sending' \in [Ends -> Messages \cup {Idle}] /\ sending'[e] = Idle
      /\ sending'[p] = sending[p]
  BY <1>1, <1>6 DEF Inv, Ledger
<1>9. Wires' /\ Ending' /\ Grown(sent[e], sent'[e])
  <2>1. Wires' /\ Ending'
    BY <1>1 DEF Inv, Wires, Flow, Ending
  <2>2. PICK l \in Nat : Len(sent[e]) = l
    BY <1>6, Lengths
  <2> QED BY <1>1, <1>6, <2>1, <2>2 DEF Grown
<1>10. \A d \in Ends : ChannelStep(d)
  BY <1>1 DEF ChannelStep
<1>11. /\ confirmed' \in [Ends -> SUBSET Messages]
       /\ offered' \in [Ends -> 0..MaxBytes]
  BY <1>1, <1>7 DEF Inv, Ledger
<1>12. Ledger'
  BY <1>1, <1>6, <1>7, <1>8, <1>9, <1>11, LedgerFromEnd DEF Inv
<1> QED BY <1>9, <1>10, <1>12 DEF Step, Inv

\* A close of e; it is the end of the stream only if all has been received.
LEMMA CloseAsStep ==
  ASSUME Inv, NEW e \in Ends, Free(e), NEW how \in {"complete", "broken"},
         CloseAs(e, how),
         how = "complete" => ~open[Peer(e)] /\ received[e] = sent[Peer(e)]
  PROVE  Step
<1> DEFINE p == Peer(e)
<1>1. /\ open[e] /\ sending[e] = Idle /\ KernelClose(e)
      /\ open' = [open EXCEPT ![e] = FALSE]
      /\ ended' = [ended EXCEPT ![e] = how]
      /\ UNCHANGED <<sending, offered, sent, received, confirmed>>
  BY DEF CloseAs, Free
<1>2. /\ p \in Ends /\ p # e /\ Ends = {e, p} /\ Peer(p) = e
      /\ open[e] \in BOOLEAN
  BY TwoEnds DEF Inv
<1>3. Wires'
  BY <1>1, CloseStep DEF Inv
<1>4. open'[e] = FALSE /\ open'[p] = open[p]
  BY <1>1, <1>2 DEF Inv, Wires
<1>5. /\ ended'[e] = how /\ ended'[p] = ended[p] /\ ended[e] = "no"
      /\ ended' \in [Ends -> {"no", "complete", "broken"}]
  BY <1>1, <1>2 DEF Inv, Ending
<1> HIDE DEF p
<1>6. Ending'
  <2>1. (ended'[p] = "no" <=> open'[p]) /\ (ended'[e] = "no" <=> open'[e])
    BY <1>2, <1>4, <1>5 DEF Inv, Ending
  <2> QED BY <1>2, <1>5, <2>1 DEF Ending
<1>7. Ledger'
  <2>1. ASSUME NEW d \in Ends, sending[d] # Idle PROVE Blocked(d)'
    <3>1. d = p /\ Blocked(d)
      BY <1>1, <1>2, <2>1 DEF Inv, Ledger
    <3> QED BY <1>1, <1>4, <3>1 DEF Blocked
  <2> QED BY <1>1, <2>1 DEF Inv, Ledger
<1>8. ChannelStep(e)
  BY <1>1, <1>2, <1>4, <1>5 DEF ChannelStep, p
<1>9. ChannelStep(p)
  BY <1>1, <1>2, <1>4, <1>5 DEF ChannelStep, p
<1> QED BY <1>2, <1>3, <1>6, <1>7, <1>8, <1>9 DEF Step, Inv

LEMMA UpdateStep ==
  ASSUME Inv, NEW e \in Ends, Update(e)
  PROVE  Step
<1> DEFINE p == Peer(e)
<1>1. /\ p \in Ends /\ p # e /\ Ends = {e, p} /\ Peer(p) = e /\ Free(e)
      /\ received[e] \in Seq(Bytes) /\ sent[p] \in Seq(Bytes)
  BY TwoEnds DEF Inv, Update
<1> HIDE DEF p
<1>2. CASE RecvData(e)
  <2>1. /\ Wires' /\ Grown(received[e], received'[e])
        /\ Len(received'[e]) > Len(received[e]) /\ received'[p] = received[p]
    BY <1>2, RecvStep DEF Inv, p
  <2>2. UNCHANGED <<open, reset, sending, offered, sent, confirmed, ended>>
    BY <1>2 DEF RecvData
  <2>3. Ledger' /\ Ending'
    BY <2>2 DEF Inv, Ledger, Blocked, Ending
  <2>4. Grown(received'[e], sent[p])
    <3>1. Behind(received'[e], net'[e], sent[p])
      BY <1>1, <2>1, <2>2 DEF Wires, Flow, p
    <3>2. received'[e] \in Seq(Bytes) /\ net'[e] \in Seq(Bytes)
      BY <2>1 DEF Wires
    <3>3. PICK lr \in Nat : Len(received'[e]) = lr
      BY <3>2, Lengths
    <3>4. PICK lw \in Nat : Len(net'[e]) = lw
      BY <3>2, Lengths
    <3>5. PICK ls \in Nat : Len(sent[p]) = ls
      BY <1>1, Lengths
    <3>6. lr + lw <= ls
      BY <3>1, <3>3, <3>4, <3>5 DEF Behind
    <3>7. lr <= ls
      BY <3>6
    <3> QED BY <1>1, <3>1, <3>3, <3>5, <3>7 DEF Behind, Grown
  <2>5. ended[e] = "no"
    BY <1>1 DEF Free, Inv, Ending
  <2>6. ChannelStep(p)
    BY <1>1, <2>1, <2>2, <2>4, <2>5 DEF ChannelStep
  <2>7. ChannelStep(e)
    BY <1>1, <2>1, <2>2 DEF ChannelStep, p
  <2> QED BY <1>1, <2>1, <2>3, <2>6, <2>7 DEF Step, Inv
<1>3. CASE AtEnd(e) /\ OnEnd(e)
  <2>1. net[e] = <<>> /\ ~reset[e] /\ ~open[p] /\ open[e]
    BY <1>1, <1>3 DEF AtEnd, p, Free
  <2>2. /\ Behind(received[e], <<>>, sent[p]) /\ Whole(received[e], <<>>, sent[p])
    BY <1>1, <2>1 DEF Inv, Wires, Flow, p
  <2>3. received[e] = sent[p]
    <3>1. PICK lr \in Nat : Len(received[e]) = lr
      BY <1>1, Lengths
    <3>2. Len(<<>>) = 0
      BY EmptySeq
    <3>3. lr + 0 = Len(sent[p]) /\ \A i \in 1..lr : received[e][i] = sent[p][i]
      BY <2>2, <3>1, <3>2 DEF Behind, Whole
    <3>4. lr = Len(sent[p])
      BY <3>3
    <3> QED BY <1>1, <3>1, <3>3, <3>4, SeqEqual
  <2> QED BY <1>1, <1>3, <2>1, <2>3, CloseAsStep DEF OnEnd, p
<1>4. CASE RecvError(e)
  BY <1>1, <1>4, CloseAsStep DEF RecvError
<1> QED BY <1>2, <1>3, <1>4 DEF Update

LEMMA NextStep == ASSUME Inv, [Next]_vars PROVE Step
<1>1. CASE UNCHANGED vars
  BY <1>1, Unchanged
<1>2. CASE Next
  <2>1. PICK e \in Ends :
          \/ \E n \in 1..MaxMessage : SendNow(e, n) \/ SendBlocking(e, n)
          \/ Queue(e) \/ QueueFails(e) \/ CallClose(e) \/ Update(e)
    BY <1>2 DEF Next
  <2>2. CASE \E n \in 1..MaxMessage : SendNow(e, n) \/ SendBlocking(e, n)
    BY <2>2, SendNowStep, SendBlockingStep
  <2>3. CASE Queue(e)
    BY <2>3, QueueStep
  <2>4. CASE QueueFails(e)
    BY <2>4, QueueFailsStep
  <2>5. CASE CallClose(e)
    BY <2>5, CloseAsStep DEF CallClose
  <2>6. CASE Update(e)
    BY <2>6, UpdateStep
  <2> QED BY <2>1, <2>2, <2>3, <2>4, <2>5, <2>6
<1> QED BY <1>1, <1>2

LEMMA InitInv == Init => Inv
<1> SUFFICES ASSUME Init PROVE Inv
  OBVIOUS
<1>1. <<>> \in Seq(Bytes) /\ Len(<<>>) = 0
  BY EmptySeq
<1>2. 0 <= Capacity /\ 0 \in 0..MaxBytes
  BY CapacityAssumption, BytesAssumption
<1>3. Behind(<<>>, <<>>, <<>>) /\ Whole(<<>>, <<>>, <<>>)
  BY <1>1 DEF Behind, Whole
<1>4. \A e \in Ends : Peer(e) \in Ends
  BY PeerFacts
<1>5. Wires
  <2>1. ASSUME NEW e \in Ends
        PROVE  /\ Len(net[e]) <= Capacity /\ reset[e] = FALSE /\ Flow(e)
    BY <1>1, <1>2, <1>3, <1>4 DEF Init, Flow
  <2> QED BY <1>1, <2>1 DEF Init, Wires
<1>6. Ledger
  BY <1>2 DEF Init, Ledger
<1>7. Ending
  BY DEF Init, Ending
<1> QED BY <1>5, <1>6, <1>7 DEF Inv

LEMMA InvAlways == Spec => []Inv
<1>1. Inv /\ [Next]_vars => Inv'
  BY NextStep DEF Step
<1> QED BY InitInv, <1>1, PTL DEF Spec

(***************************************************************************)
(* The theorems.                                                           *)
(***************************************************************************)
\* Every state is well typed, and no direction ever holds more bytes than
\* the kernels do: send() is cut short or waits.
THEOREM TypeCorrect == Spec => []TypeOK
<1>1. Inv => TypeOK
  BY DEF Inv, Wires, Ledger, Ending, TypeOK
<1> QED BY <1>1, InvAlways, PTL

\* A message for which send() returned true was accepted whole and in one
\* piece, on blocking and on non-blocking descriptors.
THEOREM TrueIsWhole == Spec => []SendTrueIsWhole
<1>1. ASSUME Inv PROVE SendTrueIsWhole
  <2> SUFFICES ASSUME NEW e \in Ends, NEW m \in confirmed[e]
               PROVE  \E i \in 0..Len(sent[e]) : \A b \in FromTo(m) :
                        /\ i + b - m.first + 1 \in DOMAIN sent[e]
                        /\ sent[e][i + b - m.first + 1] = b
    BY DEF SendTrueIsWhole
  <2>1. PICK i \in Nat : Placed(sent[e], m.first, m.last, i)
    BY <1>1 DEF Inv, Ledger
  <2>2. m.first \in Nat /\ m.last \in Nat
    <3>1. m \in Messages
      BY <1>1 DEF Inv, Ledger
    <3> QED BY <3>1, BytesAssumption DEF Messages, Bytes
  <2>3. sent[e] \in Seq(Bytes)
    BY <1>1 DEF Inv, Wires
  <2>4. PICK l \in Nat : Len(sent[e]) = l /\ DOMAIN sent[e] = 1..l
    BY <2>3, LenProperties
  <2>5. i + (m.last - m.first + 1) <= l
        /\ \A x \in m.first..m.last : sent[e][i + x - m.first + 1] = x
    BY <2>1, <2>4 DEF Placed
  <2>6. CASE m.first <= m.last
    <3>1. i \in 0..l
      BY <2>2, <2>5, <2>6
    <3>2. \A b \in m.first..m.last : i + b - m.first + 1 \in 1..l
      BY <2>2, <2>5
    <3> QED BY <2>4, <2>5, <3>1, <3>2 DEF FromTo
  <2>7. CASE ~(m.first <= m.last)
    <3>1. FromTo(m) = {} /\ 0 \in 0..l
      BY <2>2, <2>7 DEF FromTo
    <3> QED BY <2>4, <3>1
  <2> QED BY <2>6, <2>7
<1> QED BY <1>1, InvAlways, PTL

(***************************************************************************)
(* The refinement.                                                         *)
(***************************************************************************)
LEMMA GrownIsPrefix ==
  ASSUME NEW s \in Seq(Bytes), NEW t, Grown(s, t)
  PROVE  Len(s) <= Len(t) /\ s = SubSeq(t, 1, Len(s))
<1>1. PICK l \in Nat : Len(s) = l
  BY Lengths
<1>2. PICK m \in Nat : Len(t) = m
  BY Lengths DEF Grown
<1>3. l <= m /\ t \in Seq(Bytes) /\ \A i \in 1..l : t[i] = s[i]
  BY <1>1, <1>2 DEF Grown
<1>4. SubSeq(t, 1, l) \in Prefixes(t)
  <2>1. l \in 0..m
    BY <1>3
  <2> QED BY <1>2, <2>1 DEF Prefixes
<1> DEFINE u == SubSeq(t, 1, l)
<1>5. u \in Seq(Bytes) /\ \A i \in 1..Len(u) : u[i] = t[i]
  BY <1>3, <1>4, PrefixFacts
<1>6. Len(u) = l
  <2>1. \A i \in 1..l : t[i] \in Bytes
    BY <1>1, <1>3, ElementOfSeq
  <2>2. Len(u) = IF 1 <= l THEN l - 1 + 1 ELSE 0
    BY <2>1, SubSeqProperties
  <2> QED BY <2>2
<1> HIDE DEF u
<1>7. s = u
  BY <1>1, <1>3, <1>5, <1>6, SeqEqual
<1> QED BY <1>1, <1>2, <1>3, <1>7 DEF u

\* From the client to the server, StreamTransfer implements a ByteChannel:
\* the bytes the kernel accepts arrive in order, without gap or repetition,
\* and the end of the stream is reported only when none is missing.
THEOREM ImplementsToServer == Spec => ToServer!Safety
<1>1. Init => ToServer!Init
  BY DEF Init, ToServer!Init, Ends
<1>2. ASSUME Inv, [Next]_vars PROVE [ToServer!Next]_(ToServer!channelVars)
  <2>1. ChannelStep("client") /\ Inv'
    BY <1>2, NextStep DEF Step, Ends
  <2>2. /\ Peer("client") = "server" /\ sent["client"] \in Seq(Bytes)
        /\ received["server"] \in Seq(Bytes) /\ received'["server"] \in Seq(Bytes)
    BY <1>2, <2>1 DEF Peer, Ends, Inv, Wires
  <2> USE DEF ToServer!Next, ToServer!channelVars
  <2>3. CASE UNCHANGED <<sent["client"], received["server"], open["client"],
                         ended["server"]>>
    BY <2>3
  <2>4. CASE /\ open["client"] /\ Grown(sent["client"], sent'["client"])
             /\ Len(sent'["client"]) > Len(sent["client"])
             /\ UNCHANGED <<received["server"], open["client"], ended["server"]>>
    BY <2>2, <2>4, GrownIsPrefix DEF ToServer!Put, ToServer!IsPrefixOf
  <2>5. CASE /\ open["client"] /\ open'["client"] = FALSE
             /\ UNCHANGED <<sent["client"], received["server"], ended["server"]>>
    BY <2>5 DEF ToServer!StopWriting
  <2>6. CASE /\ ended["server"] = "no"
             /\ Len(received'["server"]) > Len(received["server"])
             /\ Grown(received["server"], received'["server"])
             /\ Grown(received'["server"], sent["client"])
             /\ UNCHANGED <<sent["client"], open["client"], ended["server"]>>
    BY <2>2, <2>6, GrownIsPrefix DEF ToServer!Get, ToServer!IsPrefixOf
  <2>7. CASE /\ ended["server"] = "no" /\ ~open["client"]
             /\ received["server"] = sent["client"]
             /\ ended'["server"] = "complete"
             /\ UNCHANGED <<sent["client"], received["server"], open["client"]>>
    BY <2>7 DEF ToServer!Complete
  <2>8. CASE /\ ended["server"] = "no" /\ ended'["server"] = "broken"
             /\ UNCHANGED <<sent["client"], received["server"], open["client"]>>
    BY <2>8 DEF ToServer!Break
  <2> QED BY <2>1, <2>2, <2>3, <2>4, <2>5, <2>6, <2>7, <2>8 DEF ChannelStep
<1> QED BY <1>1, <1>2, InvAlways, PTL DEF Spec, ToServer!Safety

\* The same from the server to the client.
THEOREM ImplementsToClient == Spec => ToClient!Safety
<1>1. Init => ToClient!Init
  BY DEF Init, ToClient!Init, Ends
<1>2. ASSUME Inv, [Next]_vars PROVE [ToClient!Next]_(ToClient!channelVars)
  <2>1. ChannelStep("server") /\ Inv'
    BY <1>2, NextStep DEF Step, Ends
  <2>2. /\ Peer("server") = "client" /\ sent["server"] \in Seq(Bytes)
        /\ received["client"] \in Seq(Bytes) /\ received'["client"] \in Seq(Bytes)
    BY <1>2, <2>1 DEF Peer, Ends, Inv, Wires
  <2> USE DEF ToClient!Next, ToClient!channelVars
  <2>3. CASE UNCHANGED <<sent["server"], received["client"], open["server"],
                         ended["client"]>>
    BY <2>3
  <2>4. CASE /\ open["server"] /\ Grown(sent["server"], sent'["server"])
             /\ Len(sent'["server"]) > Len(sent["server"])
             /\ UNCHANGED <<received["client"], open["server"], ended["client"]>>
    BY <2>2, <2>4, GrownIsPrefix DEF ToClient!Put, ToClient!IsPrefixOf
  <2>5. CASE /\ open["server"] /\ open'["server"] = FALSE
             /\ UNCHANGED <<sent["server"], received["client"], ended["client"]>>
    BY <2>5 DEF ToClient!StopWriting
  <2>6. CASE /\ ended["client"] = "no"
             /\ Len(received'["client"]) > Len(received["client"])
             /\ Grown(received["client"], received'["client"])
             /\ Grown(received'["client"], sent["server"])
             /\ UNCHANGED <<sent["server"], open["server"], ended["client"]>>
    BY <2>2, <2>6, GrownIsPrefix DEF ToClient!Get, ToClient!IsPrefixOf
  <2>7. CASE /\ ended["client"] = "no" /\ ~open["server"]
             /\ received["client"] = sent["server"]
             /\ ended'["client"] = "complete"
             /\ UNCHANGED <<sent["server"], received["client"], open["server"]>>
    BY <2>7 DEF ToClient!Complete
  <2>8. CASE /\ ended["client"] = "no" /\ ended'["client"] = "broken"
             /\ UNCHANGED <<sent["server"], received["client"], open["server"]>>
    BY <2>8 DEF ToClient!Break
  <2> QED BY <2>1, <2>2, <2>3, <2>4, <2>5, <2>6, <2>7, <2>8 DEF ChannelStep
<1> QED BY <1>1, <1>2, InvAlways, PTL DEF Spec, ToClient!Safety

(***************************************************************************)
(* What the invariant and the refinement give together.  A stream that was *)
(* reported complete stays what its sender's kernel accepted.              *)
(***************************************************************************)
Completed ==
  \A e \in Ends : ended[Peer(e)] = "complete" => ~open[e] /\ received[Peer(e)] = sent[e]

LEMMA CompletedStep ==
  ASSUME Inv, Completed, [Next]_vars
  PROVE  Completed'
<1> SUFFICES ASSUME NEW e \in Ends, ended'[Peer(e)] = "complete"
             PROVE  ~open'[e] /\ received'[Peer(e)] = sent'[e]
  BY DEF Completed
<1>1. ChannelStep(e)
  BY NextStep DEF Step
<1>2. ended[Peer(e)] = "complete" => ~open[e] /\ received[Peer(e)] = sent[e]
  BY DEF Completed
<1> DEFINE p == Peer(e)
<1>3. ChannelStep(e) =>
        \/ UNCHANGED <<sent[e], received[p], open[e], ended[p]>>
        \/ open[e] /\ ended'[p] = ended[p]
        \/ ended[p] = "no" /\ ended'[p] = ended[p]
        \/ /\ ~open[e] /\ received[p] = sent[e]
           /\ UNCHANGED <<sent[e], received[p], open[e]>>
        \/ ended'[p] = "broken"
  BY DEF ChannelStep
<1> HIDE DEF p
<1> QED BY <1>1, <1>2, <1>3 DEF p

\* A message for which send() returned true has been reported in one piece
\* when the other end is told that the stream is complete.
THEOREM ConfirmedIsReceived == Spec => []ConfirmedArrives
<1>1. Init => Completed
  <2>1. \A e \in Ends : Peer(e) \in Ends
    BY PeerFacts
  <2> QED BY <2>1 DEF Init, Completed
<1>2. ASSUME SendTrueIsWhole, Completed PROVE ConfirmedArrives
  <2> SUFFICES ASSUME NEW e \in Ends, ended[Peer(e)] = "complete",
                      NEW m \in confirmed[e]
               PROVE  \E i \in 0..Len(received[Peer(e)]) : \A b \in FromTo(m) :
                        /\ i + b - m.first + 1 \in DOMAIN received[Peer(e)]
                        /\ received[Peer(e)][i + b - m.first + 1] = b
    BY DEF ConfirmedArrives
  <2>1. received[Peer(e)] = sent[e]
    BY <1>2 DEF Completed
  <2>2. \E i \in 0..Len(sent[e]) : \A b \in FromTo(m) :
          /\ i + b - m.first + 1 \in DOMAIN sent[e]
          /\ sent[e][i + b - m.first + 1] = b
    BY <1>2 DEF SendTrueIsWhole
  <2> QED BY <2>1, <2>2, Zenon
<1> QED BY <1>1, <1>2, CompletedStep, InvAlways, TrueIsWhole, PTL DEF Spec

(***************************************************************************)
(* Only an end that blocks is ever found inside a send, and nothing is on  *)
(* its way to an end that is closed.                                       *)
(***************************************************************************)
Waits ==
  \A e \in Ends : /\ sending[e] # Idle => e \in Blocking
                  /\ ~open[e] => net[e] = <<>>

LEMMA PrefixOfNothing ==
  ASSUME NEW p \in Prefixes(<<>>) PROVE p = <<>>
<1>1. <<>> \in Seq(Bytes) /\ Len(<<>>) = 0
  BY EmptySeq
<1>2. p \in Seq(Bytes) /\ Len(p) <= 0
  BY <1>1, PrefixFacts
<1>3. PICK l \in Nat : Len(p) = l
  BY <1>2, Lengths
<1>4. Len(p) = 0
  BY <1>2, <1>3
<1> QED BY <1>2, <1>4, EmptySeq

LEMMA AcceptKeepsEmpty ==
  ASSUME Inv, Waits, NEW e \in Ends, open[e], NEW a, NEW b, Accept(e, a, b),
         NEW d \in Ends, ~open[d]
  PROVE  net'[d] = <<>>
<1>1. d = Peer(e) /\ net[d] = <<>> /\ d # e
  BY PeerFacts DEF Waits
<1>2. net \in [Ends -> Seq(Bytes)]
  BY DEF Inv, Wires
<1>3. \E p \in Prefixes(net[e]) : net' = [net EXCEPT ![e] = p]
  BY <1>1 DEF Accept
<1> QED BY <1>1, <1>2, <1>3

LEMMA CloseKeepsEmpty ==
  ASSUME Inv, Waits, NEW e \in Ends, KernelClose(e),
         open' = [open EXCEPT ![e] = FALSE], NEW d \in Ends, ~open'[d]
  PROVE  net'[d] = <<>>
<1>1. /\ net \in [Ends -> Seq(Bytes)] /\ open \in [Ends -> BOOLEAN]
      /\ Peer(e) \in Ends /\ Peer(e) # e /\ (d = e \/ d = Peer(e))
  BY PeerFacts DEF Inv, Wires
<1>2. PICK p \in Prefixes(net[Peer(e)]) : net' = [net EXCEPT ![e] = <<>>, ![Peer(e)] = p]
  BY DEF KernelClose
<1>3. CASE d = e
  BY <1>1, <1>2, <1>3
<1>4. CASE d = Peer(e)
  <2>1. net[Peer(e)] = <<>>
    BY <1>1, <1>4 DEF Waits
  <2>2. p = <<>>
    BY <2>1, PrefixOfNothing
  <2> QED BY <1>1, <1>2, <1>4, <2>2
<1> QED BY <1>1, <1>3, <1>4

LEMMA WaitsStep ==
  ASSUME Inv, Waits, [Next]_vars
  PROVE  Waits'
<1> SUFFICES ASSUME NEW d \in Ends
             PROVE  /\ sending'[d] # Idle => d \in Blocking
                    /\ ~open'[d] => net'[d] = <<>>
  BY DEF Waits
<1>1. /\ sending[d] # Idle => d \in Blocking
      /\ ~open[d] => net[d] = <<>>
      /\ net \in [Ends -> Seq(Bytes)] /\ open \in [Ends -> BOOLEAN]
      /\ sending \in [Ends -> Messages \cup {Idle}]
  BY DEF Waits, Inv, Wires, Ledger
<1>2. CASE UNCHANGED vars
  BY <1>1, <1>2 DEF vars
<1>3. CASE Next
  <2>1. PICK e \in Ends :
          \/ \E n \in 1..MaxMessage : SendNow(e, n) \/ SendBlocking(e, n)
          \/ Queue(e) \/ QueueFails(e) \/ CallClose(e) \/ Update(e)
    BY <1>3 DEF Next
  <2>2. CASE \E n \in 1..MaxMessage : SendNow(e, n)
    <3>1. PICK n \in 1..MaxMessage : SendNow(e, n)
      BY <2>2
    <3>2. /\ open[e] /\ UNCHANGED <<open, sending>>
          /\ \/ UNCHANGED net
             \/ \E k \in 0..(Message(e, n).last - Message(e, n).first + 1) :
                  Accept(e, Message(e, n).first, Message(e, n).first + k - 1)
      BY <3>1 DEF SendNow, Free
    <3> QED BY <1>1, <3>2, AcceptKeepsEmpty
  <2>3. CASE \E n \in 1..MaxMessage : SendBlocking(e, n)
    <3>1. /\ e \in Blocking /\ UNCHANGED <<open, net>>
          /\ \E m : sending' = [sending EXCEPT ![e] = m]
      BY <2>3 DEF SendBlocking
    <3> QED BY <1>1, <3>1
  <2>4. CASE Queue(e)
    <3>1. /\ sending[e] # Idle /\ open' = open
          /\ Accept(e, sending[e].next, sending[e].next)
          /\ \E m : sending' = [sending EXCEPT ![e] = m]
      BY <2>4 DEF Queue
    <3>2. open[e] /\ e \in Blocking
      BY <3>1 DEF Inv, Ledger, Blocked, Waits
    <3> QED BY <1>1, <3>1, <3>2, AcceptKeepsEmpty
  <2>5. CASE QueueFails(e)
    BY <1>1, <2>5 DEF QueueFails
  <2>6. CASE \E how : CloseAs(e, how)
    <3>1. /\ KernelClose(e) /\ open' = [open EXCEPT ![e] = FALSE]
          /\ sending' = sending
      BY <2>6 DEF CloseAs
    <3> QED BY <1>1, <3>1, CloseKeepsEmpty
  <2>7. CASE Free(e) /\ RecvData(e)
    <3>1. /\ open[e] /\ UNCHANGED <<open, sending>>
          /\ \E w : net' = [net EXCEPT ![e] = w]
      BY <2>7 DEF Free, RecvData
    <3> QED BY <1>1, <3>1
  <2> QED BY <2>1, <2>2, <2>3, <2>4, <2>5, <2>6, <2>7
          DEF CallClose, Update, OnEnd, RecvError
<1> QED BY <1>2, <1>3

\* The two programs never wait for each other inside send(): one of the two
\* descriptors of a connection does not block.
THEOREM NeverBothWait == Spec => []NoMutualWait
<1>1. Init => Waits
  BY DEF Init, Waits
<1>2. ASSUME Inv, Waits PROVE NoMutualWait
  <2> SUFFICES ASSUME NEW e \in Ends, sending[e] # Idle, Room(e) = 0, ~reset[e]
               PROVE  Free(Peer(e)) /\ net[Peer(e)] # <<>>
    BY DEF NoMutualWait
  <2>1. net[Peer(e)] # <<>>
    BY EmptySeq, CapacityAssumption DEF Room
  <2>2. open[Peer(e)]
    BY <1>2, <2>1, PeerFacts DEF Waits
  <2>3. e \in Blocking /\ Peer(e) \notin Blocking /\ Peer(e) \in Ends
    BY <1>2 DEF Waits, Blocking, Peer, Ends
  <2>4. sending[Peer(e)] = Idle
    BY <1>2, <2>3 DEF Waits
  <2> QED BY <2>1, <2>2, <2>4 DEF Free
<1> QED BY <1>1, <1>2, WaitsStep, InvAlways, PTL DEF Spec
=============================================================================
