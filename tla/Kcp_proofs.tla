----------------------------- MODULE Kcp_proofs -----------------------------
(***************************************************************************)
(* What is proved of KCP, for any window, any datagram size and any number *)
(* of messages and faults: that the windows of the two ends agree and that *)
(* each direction is a channel of messages, whole, once and in order.      *)
(***************************************************************************)
EXTENDS Kcp, WellFoundedInduction, TLAPS

\* Sequence numbers as positions in the stream of fragments, which never come
\* round again, for half the numbers are enough for all of it.
Half == Modulus \div 2
Pos(sn) == (sn - FirstSn) % Modulus
Limit == Half - RcvWnd

\* The stream of fragments an end has accepted, from position 0 on.
Fragm(messages, first, a) ==
    LET m == CHOOSE m \in DOMAIN messages :
                first[m] <= a /\ a < first[m] + Len(messages[m])
    IN  messages[m][a - first[m] + 1]
Stream(e) == [a \in Nat |-> Fragm(sent[e], starts[e], a)]

\* The receiver k has, or had, the number sn.
Got(k, sn) == Pos(sn) < Pos(k.rcv_nxt) \/ Has(k.rcv_buf, sn)

\* The sending half of a control block whose stream is F, the receiving half
\* of one whose peer has sent the stream G up to position top, and its
\* acknowledgements.
InOrder(buf) == \A i, j \in DOMAIN buf : i < j => Pos(buf[i].sn) < Pos(buf[j].sn)
Carries(buf, F) == \A i \in DOMAIN buf : buf[i].data = F[Pos(buf[i].sn)]
Between(buf, a, b) ==
    \A i \in DOMAIN buf : a <= Pos(buf[i].sn) /\ Pos(buf[i].sn) < b
Follows(queue, a, F) == \A i \in DOMAIN queue : queue[i] = F[a + i - 1]
\* Two streams that are the same up to a position.
Agree(F, G, a) == \A b \in Nat : b < a => F[b] = G[b]

SndOK(k, F) ==
    /\ Pos(k.snd_una) <= Pos(k.snd_nxt)
    /\ Pos(k.snd_nxt) <= Pos(k.snd_una) + SndWnd
    /\ Pos(k.snd_nxt) + Len(k.snd_queue) <= Limit
    /\ Between(k.snd_buf, Pos(k.snd_una), Pos(k.snd_nxt))
    /\ InOrder(k.snd_buf)
    /\ Carries(k.snd_buf, F)
    /\ Follows(k.snd_queue, Pos(k.snd_nxt), F)

RcvOK(k, G, top) ==
    /\ Pos(k.rcv_nxt) <= top
    /\ Len(k.rcv_queue) <= RcvWnd
    /\ Len(k.rcv_queue) <= Pos(k.rcv_nxt)
    /\ Between(k.rcv_buf, Pos(k.rcv_nxt), top)
    /\ InOrder(k.rcv_buf)
    /\ Carries(k.rcv_buf, G)
    /\ Follows(k.rcv_queue, Pos(k.rcv_nxt) - Len(k.rcv_queue), G)

AcksOK(k) == \A i \in DOMAIN k.acklist : Got(k, k.acklist[i])

\* No fragment is lost: what s has numbered s still has, or r has got it.
NoneLost(s, r) ==
    \A sn \in SeqNumber : Pos(sn) < Pos(s.snd_nxt) => Has(s.snd_buf, sn) \/ Got(r, sn)

\* A control block k and its peer p, which send the streams F and G.
Pair(k, p, F, G) ==
    /\ k \in ControlBlocks /\ SndOK(k, F) /\ RcvOK(k, G, Pos(p.snd_nxt)) /\ AcksOK(k)
    /\ p \in ControlBlocks /\ SndOK(p, G) /\ RcvOK(p, F, Pos(k.snd_nxt)) /\ AcksOK(p)
    /\ NoneLost(k, p) /\ NoneLost(p, k)

\* What a datagram from p, whose stream is G, may say at any later time.
Segments ==
    [cmd : {"ACK", "PUSH", "WASK", "WINS"}, sn : SeqNumber, data : Fragment,
     wnd : 0..RcvWnd, una : SeqNumber]
Valid(p, G) ==
    {seg \in Segments :
       /\ Pos(seg.una) <= Pos(p.rcv_nxt)
       /\ seg.cmd = "ACK" => Got(p, seg.sn)
       /\ seg.cmd = "PUSH" => Pos(seg.sn) < Pos(p.snd_nxt) /\ seg.data = G[Pos(seg.sn)]}

PairAt(e) ==
    /\ Pair(kcp[e], kcp[Peer(e)], Stream(e), Stream(Peer(e)))
    /\ net[e] \in Seq(Seq(Valid(kcp[Peer(e)], Stream(Peer(e)))))

\* The messages of an end and where each starts.
Laid(messages, first) ==
    /\ Len(first) = Len(messages) + 1 /\ first[1] = 0
    /\ \A m \in DOMAIN messages :
         /\ Len(messages[m]) \in Fragments
         /\ messages[m] = Message(m, Len(messages[m]))
         /\ first[m + 1] = first[m] + Len(messages[m])
    /\ \A i, j \in DOMAIN first : i < j => first[i] < first[j]

\* The histories: all that was accepted is on its way or arrived, and what
\* arrived is a part of it that ends where rcv_queue starts.
SentAt(e) ==
    /\ sent[e] \in Seq(Seq(Fragment)) /\ starts[e] \in Seq(Nat)
    /\ Laid(sent[e], starts[e])
    /\ Len(sent[e]) <= MaxSent[e]
    /\ Last(starts[e]) <= (RcvWnd - 1) * Len(sent[e])
    /\ Last(starts[e]) = Pos(kcp[e].snd_nxt) + Len(kcp[e].snd_queue)
ReceivedAt(e) ==
    /\ received[e] \in Seq(Seq(Fragment))
    /\ Len(received[e]) <= Len(sent[Peer(e)])
    /\ received[e] = SubSeq(sent[Peer(e)], 1, Len(received[e]))
    /\ starts[Peer(e)][Len(received[e]) + 1] = Pos(kcp[e].rcv_nxt) - Len(kcp[e].rcv_queue)

OnEnds(f) == f = [e \in Ends |-> f[e]]

Inv ==
    /\ kcp \in [Ends -> ControlBlocks]
    /\ OnEnds(pc) /\ OnEnds(net) /\ OnEnds(sent) /\ OnEnds(starts) /\ OnEnds(received)
    /\ \A e \in Ends : PairAt(e) /\ SentAt(e) /\ ReceivedAt(e)

\* What stays of a block: the sending half, the receiving half, the rest.
SndSame(k, q) ==
    /\ q.snd_una = k.snd_una /\ q.snd_nxt = k.snd_nxt
    /\ q.snd_queue = k.snd_queue /\ q.snd_buf = k.snd_buf
RcvSame(k, q) ==
    /\ q.rcv_nxt = k.rcv_nxt /\ q.rcv_buf = k.rcv_buf
    /\ q.rcv_queue = k.rcv_queue /\ q.acklist = k.acklist

\* What is acknowledged goes from snd_buf, and nothing else does.
Acked(k, q, p, F) ==
    /\ q \in ControlBlocks /\ SndOK(q, F) /\ RcvSame(k, q)
    /\ q.snd_nxt = k.snd_nxt /\ q.snd_queue = k.snd_queue
    /\ \A sn \in SeqNumber : Has(k.snd_buf, sn) => Has(q.snd_buf, sn) \/ Got(p, sn)
\* What arrives goes in order to rcv_buf and from there to rcv_queue.
Advanced(k, q, G, top) ==
    /\ q \in ControlBlocks /\ SndSame(k, q) /\ RcvOK(q, G, top)
    /\ Pos(k.rcv_nxt) <= Pos(q.rcv_nxt)
    /\ Pos(q.rcv_nxt) - Len(q.rcv_queue) = Pos(k.rcv_nxt) - Len(k.rcv_queue)
    /\ \A sn \in SeqNumber : Got(k, sn) => Got(q, sn)
\* What a datagram changes in a block, and what it leaves.
Kept(k, q) ==
    /\ q.snd_nxt = k.snd_nxt /\ q.snd_queue = k.snd_queue
    /\ Pos(k.rcv_nxt) <= Pos(q.rcv_nxt)
    /\ Pos(q.rcv_nxt) - Len(q.rcv_queue) = Pos(k.rcv_nxt) - Len(k.rcv_queue)
    /\ \A sn \in SeqNumber : Got(k, sn) => Got(q, sn)
\* A segment of snd_buf in the middle of a flush, perhaps not yet transmitted.
SegmentsNew == [sn : SeqNumber, data : Fragment, fastack : BOOLEAN, xmit : 0..FastLimit + 1]

\* What a flush does to a block: its numbers move from snd_queue to snd_buf.
Flushed(k, q, F) ==
    /\ q \in ControlBlocks /\ SndOK(q, F)
    /\ q.rcv_nxt = k.rcv_nxt /\ q.rcv_buf = k.rcv_buf /\ q.rcv_queue = k.rcv_queue
    /\ AcksOK(k) => AcksOK(q)
    /\ Pos(k.snd_nxt) <= Pos(q.snd_nxt)
    /\ Pos(q.snd_nxt) + Len(q.snd_queue) = Pos(k.snd_nxt) + Len(k.snd_queue)
    /\ \A sn \in SeqNumber :
         Pos(sn) < Pos(q.snd_nxt) =>
            Has(q.snd_buf, sn) \/ (Pos(sn) < Pos(k.snd_nxt) /\ ~Has(k.snd_buf, sn))
-----------------------------------------------------------------------------
(***************************************************************************)
(* Natural numbers: least and greatest elements, and induction.            *)
(***************************************************************************)
LEMMA Smallest ==
  ASSUME NEW T \in SUBSET Nat, T # {}
  PROVE  \E x \in T : \A y \in T : x <= y
<1> DEFINE R == OpToRel(<, Nat)
<1>1. IsWellFoundedOn(R, Nat)
  BY NatLessThanWellFounded
<1>2. \A x, y \in Nat : <<y, x>> \in R <=> y < x
  BY DEF OpToRel
<1> HIDE DEF R
<1>3. PICK x \in T : \A y \in T : ~(<<y, x>> \in R)
  BY <1>1, WFMin
<1>4. ASSUME NEW y \in T PROVE x <= y
  <2>1. x \in Nat /\ y \in Nat /\ ~(y < x)
    BY <1>2, <1>3
  <2>2. QED
    BY <2>1
<1>5. QED
  BY <1>4

LEMMA SetInduction ==
  ASSUME NEW S, 0 \in S, \A n \in Nat : n \in S => n + 1 \in S
  PROVE  \A n \in Nat : n \in S
<1> SUFFICES ASSUME Nat \ S # {} PROVE FALSE
  OBVIOUS
<1>1. PICK x \in Nat \ S : \A y \in Nat \ S : x <= y
  BY Smallest
<1>2. x # 0
  OBVIOUS
<1>3. x - 1 \in Nat /\ x - 1 \in S
  BY <1>1, <1>2
<1>4. QED
  BY <1>3

LEMMA MinIs ==
  ASSUME NEW T \in SUBSET Nat, T # {}
  PROVE  Min(T) \in T /\ \A y \in T : Min(T) <= y
BY Smallest DEF Min

LEMMA MaxIs ==
  ASSUME NEW n \in Nat, NEW T \in SUBSET (0..n), T # {}
  PROVE  Max(T) \in T /\ \A y \in T : Max(T) >= y
<1> DEFINE D == {n - y : y \in T}
<1>1. D \in SUBSET Nat /\ D # {}
  <2>1. \A y \in T : n - y \in Nat
    OBVIOUS
  <2>2. PICK y \in T : TRUE
    OBVIOUS
  <2>3. D \in SUBSET Nat
    BY <2>1
  <2>4. n - y \in D
    OBVIOUS
  <2>5. QED
    BY Zenon, <2>3, <2>4
<1>2. PICK x \in D : \A y \in D : x <= y
  BY <1>1, Smallest
<1>3. PICK z \in T : x = n - z
  BY <1>2
<1>4. ASSUME NEW y \in T PROVE z >= y
  <2>1. n - y \in D
    OBVIOUS
  <2>2. n - z <= n - y
    BY <2>1, <1>2, <1>3
  <2>3. QED
    BY <2>2
<1>5. QED
  BY <1>3, <1>4 DEF Max

\* The prefix of 1..n that lies in good, of the loops in ikcp_parse_una and
\* ikcp_parse_data.
LEMMA PrefixLengthIs ==
  ASSUME NEW n \in Nat, NEW good
  PROVE  /\ PrefixLength(n, good) \in 0..n
         /\ \A i \in 1..PrefixLength(n, good) : i \in good
<1> DEFINE T == {m \in 0..n : 1..m \subseteq good}
<1>1. 0 \in T /\ T \in SUBSET (0..n)
  <2>1. 1..0 = {} /\ 0 \in 0..n
    OBVIOUS
  <2>2. QED
    BY Zenon, <2>1
<1>2. Max(T) \in T
  BY <1>1, MaxIs
<1>3. PrefixLength(n, good) = Max(T)
  BY DEF PrefixLength
<1>4. QED
  BY <1>2, <1>3

LEMMA MinTwo ==
  ASSUME NEW x \in Int, NEW y \in Int
  PROVE  Min({x, y}) = IF x <= y THEN x ELSE y
BY DEF Min

LEMMA MaxTwo ==
  ASSUME NEW x \in Int, NEW y \in Int
  PROVE  Max({x, y}) = IF x >= y THEN x ELSE y
BY DEF Max

(***************************************************************************)
(* Sequence numbers and positions.                                         *)
(***************************************************************************)
LEMMA HalfIs ==
  /\ Modulus \in Nat /\ Half \in Nat /\ Modulus = Half + Half
  /\ SndWnd \in Nat \ {0} /\ RcvWnd \in Nat /\ SndWnd <= RcvWnd
  /\ Half > SndWnd + RcvWnd /\ FirstSn \in 0..Modulus - 1
  /\ Limit \in Nat /\ Limit = Half - RcvWnd
<1>1. Modulus \in Nat /\ Modulus % 2 = 0 /\ SndWnd \in Nat /\ RcvWnd \in Nat
  BY WindowAssumption
<1>2. Half \in Nat /\ Modulus = Half + Half
  BY <1>1 DEF Half
<1>3. Half > SndWnd + RcvWnd
  BY <1>1, <1>2, WindowAssumption
<1>4. QED
  BY <1>1, <1>2, <1>3, WindowAssumption, BoundsAssumption DEF Limit

LEMMA ModUnique ==
  ASSUME NEW m \in Nat \ {0}, NEW r \in 0..m - 1
  PROVE  r % m = r /\ (r + m) % m = r /\ (r - m) % m = r
<1>1. r % m = r
  OBVIOUS
<1>2. (r + m) % m = r
  OBVIOUS
<1>3. (r - m) % m = r
  OBVIOUS
<1>4. QED
  BY <1>1, <1>2, <1>3

LEMMA ModOf ==
  ASSUME NEW m \in Nat \ {0}, NEW a \in Int, -m <= a, a < m + m
  PROVE  a % m = IF a < 0 THEN a + m ELSE IF a < m THEN a ELSE a - m
<1>1. CASE a < 0
  BY <1>1, ModUnique, a + m \in 0..m - 1, (a + m) - m = a
<1>2. CASE a >= 0 /\ a < m
  BY <1>2, ModUnique
<1>3. CASE a >= m
  BY <1>3, ModUnique, a - m \in 0..m - 1, (a - m) + m = a
<1>4. QED
  BY <1>1, <1>2, <1>3

LEMMA PosIs ==
  ASSUME NEW sn \in SeqNumber
  PROVE  /\ Pos(sn) \in 0..Modulus - 1
         /\ Pos(sn) = IF sn < FirstSn THEN sn - FirstSn + Modulus ELSE sn - FirstSn
<1> DEFINE a == sn - FirstSn
<1>1. /\ a \in Int /\ -Modulus <= a /\ a < Modulus /\ a < Modulus + Modulus
      /\ Modulus \in Nat \ {0}
  BY HalfIs DEF SeqNumber
<1> HIDE DEF a
<1>2. a % Modulus = IF a < 0 THEN a + Modulus ELSE a
  BY <1>1, ModOf
<1>3. Pos(sn) = a % Modulus
  BY DEF Pos, a
<1>4. QED
  BY <1>1, <1>2, <1>3, HalfIs DEF SeqNumber, a

LEMMA PosType ==
  ASSUME NEW sn \in SeqNumber
  PROVE  Pos(sn) \in Nat
BY PosIs, HalfIs

LEMMA PosInjective ==
  ASSUME NEW x \in SeqNumber, NEW y \in SeqNumber, Pos(x) = Pos(y)
  PROVE  x = y
BY PosIs, HalfIs DEF SeqNumber

LEMMA PosFirst == FirstSn \in SeqNumber /\ Pos(FirstSn) = 0
BY PosIs, HalfIs DEF SeqNumber

LEMMA PosPlus ==
  ASSUME NEW x \in SeqNumber, NEW n \in Nat, Pos(x) + n < Modulus
  PROVE  Plus(x, n) \in SeqNumber /\ Pos(Plus(x, n)) = Pos(x) + n
<1>1. Plus(x, n) = IF x + n < Modulus THEN x + n ELSE (x + n) - Modulus
  <2> DEFINE a == x + n
  <2>1. a \in Int /\ 0 <= a /\ -Modulus <= a /\ a < Modulus + Modulus /\ Modulus \in Nat \ {0}
    BY PosIs, HalfIs DEF SeqNumber
  <2> HIDE DEF a
  <2>2. a % Modulus =
          IF a < 0 THEN a + Modulus ELSE IF a < Modulus THEN a ELSE a - Modulus
    BY <2>1, ModOf
  <2>3. Plus(x, n) = a % Modulus
    BY DEF Plus, a
  <2>4. Plus(x, n) = IF a < Modulus THEN a ELSE a - Modulus
    BY <2>1, <2>2, <2>3
  <2>5. QED
    BY <2>4, Zenon DEF a
<1>2. Plus(x, n) \in SeqNumber
  BY <1>1, PosIs, HalfIs DEF SeqNumber
<1>3. QED
  BY <1>1, <1>2, PosIs, HalfIs DEF SeqNumber

LEMMA DiffPos ==
  ASSUME NEW x \in SeqNumber, NEW y \in SeqNumber,
         Pos(x) <= Half, Pos(y) <= Half, Pos(x) < Half \/ Pos(y) > 0
  PROVE  Diff(x, y) = Pos(x) - Pos(y)
<1> DEFINE z == Pos(x) - Pos(y) + Half
<1>1. z \in 0..Modulus - 1
  BY PosIs, HalfIs
<1>2. x - y + Half \in {z, z + Modulus, z - Modulus}
  BY PosIs, HalfIs DEF SeqNumber
<1>3. (x - y + Half) % Modulus = z
  <2> HIDE DEF z
  <2>1. z % Modulus = z /\ (z + Modulus) % Modulus = z /\ (z - Modulus) % Modulus = z
    BY <1>1, ModUnique, HalfIs
  <2>2. QED
    BY <1>2, <2>1
<1>4. QED
  BY <1>3, PosIs, HalfIs DEF Diff, Half

(***************************************************************************)
(* Sequences cut, lengthened and shortened.                                *)
(***************************************************************************)
LEMMA CutIs ==
  ASSUME NEW S, NEW s \in Seq(S), NEW n \in 0..Len(s)
  PROVE  LET t == SubSeq(s, n + 1, Len(s))
         IN  /\ t \in Seq(S) /\ Len(t) = Len(s) - n
             /\ \A i \in 1..Len(s) - n : t[i] = s[n + i]
OBVIOUS

LEMMA ConcatIs ==
  ASSUME NEW S, NEW s \in Seq(S), NEW r \in Seq(S)
  PROVE  /\ s \o r \in Seq(S) /\ Len(s \o r) = Len(s) + Len(r)
         /\ \A i \in 1..Len(s) : (s \o r)[i] = s[i]
         /\ \A i \in Len(s) + 1..Len(s) + Len(r) : (s \o r)[i] = r[i - Len(s)]
OBVIOUS

LEMMA RemoveAtIs ==
  ASSUME NEW S, NEW s \in Seq(S), NEW n \in DOMAIN s, NEW t, t = RemoveAt(s, n)
  PROVE  /\ t \in Seq(S) /\ Len(t) = Len(s) - 1
         /\ \A i \in 1..Len(s) - 1 : t[i] = IF i < n THEN s[i] ELSE s[i + 1]
<1> DEFINE a == SubSeq(s, 1, n - 1)
           b == SubSeq(s, n + 1, Len(s))
<1>1. a \in Seq(S) /\ Len(a) = n - 1 /\ \A i \in 1..n - 1 : a[i] = s[i]
  OBVIOUS
<1>2. b \in Seq(S) /\ Len(b) = Len(s) - n /\ \A i \in 1..Len(s) - n : b[i] = s[n + i]
  OBVIOUS
<1>3. t = a \o b
  BY DEF RemoveAt
<1> HIDE DEF a, b
<1>4. /\ t \in Seq(S) /\ Len(t) = Len(s) - 1
      /\ \A i \in 1..n - 1 : t[i] = a[i]
      /\ \A i \in n..Len(s) - 1 : t[i] = b[i - (n - 1)]
  BY <1>1, <1>2, <1>3, ConcatIs
<1>5. ASSUME NEW i \in 1..Len(s) - 1
      PROVE  t[i] = IF i < n THEN s[i] ELSE s[i + 1]
  <2>1. CASE i < n
    BY <2>1, <1>1, <1>4
  <2>2. CASE i >= n
    <3>1. i - (n - 1) \in 1..Len(s) - n /\ n + (i - (n - 1)) = i + 1
      BY <2>2
    <3>2. b[i - (n - 1)] = s[i + 1]
      BY <3>1, <1>2
    <3>3. t[i] = b[i - (n - 1)]
      BY <2>2, <1>4
    <3>4. QED
      BY <3>2, <3>3, <2>2
  <2>3. QED
    BY <2>1, <2>2
<1>6. QED
  BY <1>4, <1>5

LEMMA InsertAtIs ==
  ASSUME NEW S, NEW s \in Seq(S), NEW n \in 1..Len(s) + 1, NEW x \in S
  PROVE  LET t == InsertAt(s, n, x)
         IN  /\ t \in Seq(S) /\ Len(t) = Len(s) + 1 /\ t[n] = x
             /\ \A i \in 1..n - 1 : t[i] = s[i]
             /\ \A i \in n + 1..Len(s) + 1 : t[i] = s[i - 1]
<1> DEFINE t == InsertAt(s, n, x)
           a == SubSeq(s, 1, n - 1)
           b == SubSeq(s, n, Len(s))
           c == a \o <<x>>
<1>1. a \in Seq(S) /\ Len(a) = n - 1 /\ \A i \in 1..n - 1 : a[i] = s[i]
  OBVIOUS
<1>2. /\ b \in Seq(S) /\ Len(b) = (Len(s) - n) + 1
      /\ \A i \in 1..(Len(s) - n) + 1 : b[i] = s[n + i - 1]
  OBVIOUS
<1>3. t = c \o b
  BY DEF InsertAt
<1> HIDE DEF t, a, b
<1>4. c \in Seq(S) /\ Len(c) = n /\ c[n] = x /\ \A i \in 1..n - 1 : c[i] = s[i]
  BY <1>1
<1> HIDE DEF c
<1>5. t \in Seq(S) /\ Len(t) = Len(s) + 1
  <2>1. Len(c) + Len(b) = Len(s) + 1
    BY <1>2, <1>4
  <2>2. c \o b \in Seq(S) /\ Len(c \o b) = Len(c) + Len(b)
    BY <1>2, <1>4, ConcatIs
  <2>3. QED
    BY <1>3, <2>1, <2>2
<1>6. /\ \A i \in 1..n : t[i] = c[i]
      /\ \A i \in n + 1..Len(s) + 1 : t[i] = b[i - n]
  <2>1. n + 1..Len(s) + 1 = Len(c) + 1..Len(c) + Len(b)
    BY <1>2, <1>4
  <2>2. /\ \A i \in 1..Len(c) : t[i] = c[i]
        /\ \A i \in Len(c) + 1..Len(c) + Len(b) : t[i] = b[i - Len(c)]
    <3>1. b \in Seq(S) /\ c \in Seq(S)
      BY <1>2, <1>4
    <3>2. /\ \A i \in 1..Len(c) : (c \o b)[i] = c[i]
          /\ \A i \in Len(c) + 1..Len(c) + Len(b) : (c \o b)[i] = b[i - Len(c)]
      BY <3>1, ConcatIs
    <3>3. QED
      BY <1>3, <3>2
  <2>3. QED
    BY <1>4, <2>1, <2>2
<1>7. ASSUME NEW i \in n + 1..Len(s) + 1 PROVE t[i] = s[i - 1]
  <2>1. i - n \in 1..(Len(s) - n) + 1 /\ n + (i - n) - 1 = i - 1
    OBVIOUS
  <2>2. QED
    BY <2>1, <1>2, <1>6
<1>8. QED
  BY <1>4, <1>5, <1>6, <1>7 DEF t

\* A buffer that loses its first elements.
LEMMA BufferCut ==
  ASSUME NEW S, NEW buf \in Seq(S), NEW n \in 0..Len(buf),
         NEW F, NEW a \in Int, NEW b \in Int,
         Between(buf, a, b), InOrder(buf), Carries(buf, F)
  PROVE  LET t == SubSeq(buf, n + 1, Len(buf))
         IN  /\ t \in Seq(S) /\ Between(t, a, b) /\ InOrder(t) /\ Carries(t, F)
             /\ \A sn : Has(buf, sn) => Has(t, sn) \/ \E i \in 1..n : buf[i].sn = sn
<1> DEFINE t == SubSeq(buf, n + 1, Len(buf))
<1>1. /\ t \in Seq(S) /\ Len(t) = Len(buf) - n
      /\ \A i \in 1..Len(buf) - n : t[i] = buf[n + i]
  BY CutIs
<1> HIDE DEF t
<1>2. DOMAIN t = 1..Len(buf) - n /\ DOMAIN buf = 1..Len(buf)
  BY <1>1
<1>3. ASSUME NEW i \in DOMAIN t
      PROVE  n + i \in DOMAIN buf /\ t[i] = buf[n + i] /\ i \in Int
  <2>1. Len(buf) \in Nat /\ i \in 1..Len(buf) - n
    BY <1>2
  <2>2. n + i \in 1..Len(buf)
    BY <2>1
  <2>3. t[i] = buf[n + i]
    BY <2>1, <1>1
  <2>4. n + i \in DOMAIN buf /\ i \in Int
    BY <2>1, <2>2, <1>2
  <2>5. QED
    BY <2>3, <2>4
<1>4. Between(t, a, b) /\ Carries(t, F)
  BY <1>3 DEF Between, Carries
<1>5. InOrder(t)
  <2>1. \A i, j \in DOMAIN t : i < j => n + i < n + j
    BY <1>3
  <2>2. QED
    BY <1>3, <2>1 DEF InOrder
<1>6. ASSUME NEW sn, Has(buf, sn)
      PROVE  Has(t, sn) \/ \E i \in 1..n : buf[i].sn = sn
  <2>1. PICK i \in DOMAIN buf : buf[i].sn = sn
    BY <1>6 DEF Has
  <2>2. CASE i \in 1..n
    BY <2>1, <2>2
  <2>3. CASE i \notin 1..n
    <3>1. i - n \in 1..Len(buf) - n /\ n + (i - n) = i
      BY <2>3, <1>2
    <3>2. QED
      BY <2>1, <3>1, <1>1, <1>2 DEF Has
  <2>4. QED
    BY <2>2, <2>3
<1>7. QED
  BY <1>1, <1>4, <1>5, <1>6 DEF t

\* A buffer that loses one element.
LEMMA BufferRemove ==
  ASSUME NEW S, NEW buf \in Seq(S), NEW n \in DOMAIN buf, NEW t, t = RemoveAt(buf, n),
         NEW F, NEW a \in Int, NEW b \in Int,
         Between(buf, a, b), InOrder(buf), Carries(buf, F)
  PROVE  /\ t \in Seq(S) /\ Between(t, a, b) /\ InOrder(t) /\ Carries(t, F)
         /\ \A sn : Has(buf, sn) => Has(t, sn) \/ buf[n].sn = sn
<1>1. /\ t \in Seq(S) /\ Len(t) = Len(buf) - 1
      /\ \A i \in 1..Len(buf) - 1 : t[i] = IF i < n THEN buf[i] ELSE buf[i + 1]
  BY RemoveAtIs
<1> DEFINE at(i) == IF i < n THEN i ELSE i + 1
<1>2. DOMAIN t = 1..Len(buf) - 1 /\ DOMAIN buf = 1..Len(buf)
  BY <1>1
<1>3. \A i \in DOMAIN t : at(i) \in DOMAIN buf /\ t[i] = buf[at(i)]
  BY <1>1, <1>2
<1>4. \A i, j \in DOMAIN t : i < j => at(i) < at(j)
  BY <1>2
<1>5. \A i \in DOMAIN buf : i # n => \E j \in DOMAIN t : t[j] = buf[i]
  <2> SUFFICES ASSUME NEW i \in DOMAIN buf, i # n PROVE \E j \in DOMAIN t : t[j] = buf[i]
    OBVIOUS
  <2>1. CASE i < n
    BY <2>1, <1>1, <1>2
  <2>2. CASE i > n
    <3>1. i - 1 \in DOMAIN t /\ t[i - 1] = buf[i]
      BY <2>2, <1>1, <1>2
    <3>2. QED
      BY <3>1
  <2>3. QED
    BY <2>1, <2>2
<1> HIDE DEF at
<1>6. Between(t, a, b) /\ Carries(t, F)
  BY <1>3 DEF Between, Carries
<1>7. InOrder(t)
  BY <1>3, <1>4 DEF InOrder
<1>8. \A sn : Has(buf, sn) => Has(t, sn) \/ buf[n].sn = sn
  BY <1>5 DEF Has
<1>9. QED
  BY <1>1, <1>6, <1>7, <1>8

\* A buffer whose segments change in nothing but their timers.
LEMMA BufferKept ==
  ASSUME NEW S, NEW buf \in Seq(S), NEW T, NEW t \in Seq(T), Len(t) = Len(buf),
         \A i \in DOMAIN buf : t[i].sn = buf[i].sn /\ t[i].data = buf[i].data,
         NEW F, NEW a \in Int, NEW b \in Int,
         Between(buf, a, b), InOrder(buf), Carries(buf, F)
  PROVE  /\ Between(t, a, b) /\ InOrder(t) /\ Carries(t, F)
         /\ \A sn : Has(buf, sn) => Has(t, sn)
<1>1. DOMAIN t = DOMAIN buf
  OBVIOUS
<1>2. QED
  BY <1>1 DEF Between, InOrder, Carries, Has

(***************************************************************************)
(* The control block.                                                      *)
(***************************************************************************)
LEMMA BlockFields ==
  ASSUME NEW k \in ControlBlocks
  PROVE  /\ k.snd_queue \in Seq(Fragment) /\ k.snd_buf \in Seq(SegmentsOut)
         /\ k.rcv_buf \in Seq(SegmentsIn) /\ k.rcv_queue \in Seq(Fragment)
         /\ k.snd_una \in SeqNumber /\ k.snd_nxt \in SeqNumber /\ k.rcv_nxt \in SeqNumber
         /\ k.acklist \in Seq(SeqNumber) /\ k.rmt_wnd \in 0..RcvWnd
         /\ k.probe \subseteq {"SEND", "TELL"}
         /\ Pos(k.snd_una) \in Nat /\ Pos(k.snd_nxt) \in Nat /\ Pos(k.rcv_nxt) \in Nat
         /\ \A i \in DOMAIN k.snd_buf :
              k.snd_buf[i].sn \in SeqNumber /\ Pos(k.snd_buf[i].sn) \in Nat
         /\ \A i \in DOMAIN k.rcv_buf :
              k.rcv_buf[i].sn \in SeqNumber /\ Pos(k.rcv_buf[i].sn) \in Nat
<1>1. /\ k.snd_queue \in Seq(Fragment) /\ k.snd_buf \in Seq(SegmentsOut)
      /\ k.rcv_buf \in Seq(SegmentsIn) /\ k.rcv_queue \in Seq(Fragment)
      /\ k.snd_una \in SeqNumber /\ k.snd_nxt \in SeqNumber /\ k.rcv_nxt \in SeqNumber
      /\ k.acklist \in Seq(SeqNumber) /\ k.rmt_wnd \in 0..RcvWnd
      /\ k.probe \subseteq {"SEND", "TELL"}
  BY DEF ControlBlocks
<1>2. ASSUME NEW i \in DOMAIN k.snd_buf PROVE k.snd_buf[i].sn \in SeqNumber
  <2>1. k.snd_buf[i] \in SegmentsOut
    BY <1>1
  <2>2. QED
    BY <2>1 DEF SegmentsOut
<1>3. ASSUME NEW i \in DOMAIN k.rcv_buf PROVE k.rcv_buf[i].sn \in SeqNumber
  <2>1. k.rcv_buf[i] \in SegmentsIn
    BY <1>1
  <2>2. QED
    BY <2>1 DEF SegmentsIn
<1>4. QED
  BY <1>1, <1>2, <1>3, PosType

LEMMA SetBuf ==
  ASSUME NEW k \in ControlBlocks, NEW buf \in Seq(SegmentsOut),
         NEW q, q = [k EXCEPT !.snd_buf = buf]
  PROVE  /\ q \in ControlBlocks /\ RcvSame(k, q) /\ q.snd_buf = buf
         /\ q.snd_una = k.snd_una /\ q.snd_nxt = k.snd_nxt /\ q.snd_queue = k.snd_queue
BY DEF ControlBlocks, RcvSame

LEMMA SetUna ==
  ASSUME NEW k \in ControlBlocks, NEW una \in SeqNumber, NEW q, q = [k EXCEPT !.snd_una = una]
  PROVE  /\ q \in ControlBlocks /\ RcvSame(k, q) /\ q.snd_una = una
         /\ q.snd_buf = k.snd_buf /\ q.snd_nxt = k.snd_nxt /\ q.snd_queue = k.snd_queue
BY DEF ControlBlocks, RcvSame

\* A change to what neither half of a block depends on.
LEMMA SameBlock ==
  ASSUME NEW k \in ControlBlocks, NEW q \in ControlBlocks, SndSame(k, q), RcvSame(k, q),
         NEW F
  PROVE  /\ SndOK(k, F) => SndOK(q, F)
         /\ \A top : RcvOK(k, F, top) => RcvOK(q, F, top)
         /\ AcksOK(k) => AcksOK(q)
         /\ \A sn : Got(q, sn) <=> Got(k, sn)
BY DEF SndSame, RcvSame, SndOK, RcvOK, AcksOK, Got

LEMMA ShrinkBuf ==
  ASSUME NEW k \in ControlBlocks, NEW F, SndOK(k, F), NEW q, q = ikcp_shrink_buf(k)
  PROVE  /\ q \in ControlBlocks /\ SndOK(q, F) /\ RcvSame(k, q)
         /\ q.snd_nxt = k.snd_nxt /\ q.snd_queue = k.snd_queue /\ q.snd_buf = k.snd_buf
<1> DEFINE una == IF k.snd_buf = <<>> THEN k.snd_nxt ELSE Head(k.snd_buf).sn
<1>1. q = [k EXCEPT !.snd_una = una]
  BY DEF ikcp_shrink_buf
<1>2. k.snd_buf # <<>> => 1 \in DOMAIN k.snd_buf /\ una = k.snd_buf[1].sn
  BY BlockFields
<1>3. una \in SeqNumber
  BY <1>2, BlockFields
<1>4. Pos(una) \in Nat /\ Pos(k.snd_una) <= Pos(una) /\ Pos(una) <= Pos(k.snd_nxt)
  <2>1. CASE k.snd_buf = <<>>
    BY <2>1, BlockFields DEF SndOK
  <2>2. CASE k.snd_buf # <<>>
    BY <2>2, <1>2, BlockFields DEF SndOK, Between
  <2>3. QED
    BY <2>1, <2>2
<1>5. Between(k.snd_buf, Pos(una), Pos(k.snd_nxt))
  <2> SUFFICES ASSUME NEW i \in DOMAIN k.snd_buf
               PROVE  /\ Pos(una) <= Pos(k.snd_buf[i].sn)
                      /\ Pos(k.snd_buf[i].sn) < Pos(k.snd_nxt)
    BY DEF Between
  <2>1. k.snd_buf # <<>>
    OBVIOUS
  <2>2. i = 1 \/ 1 < i
    BY BlockFields
  <2>3. QED
    BY <1>2, <2>1, <2>2, BlockFields DEF SndOK, Between, InOrder
<1> HIDE DEF una
<1>6. /\ q \in ControlBlocks /\ RcvSame(k, q) /\ q.snd_una = una
      /\ q.snd_buf = k.snd_buf /\ q.snd_nxt = k.snd_nxt /\ q.snd_queue = k.snd_queue
  BY <1>1, <1>3, SetUna
<1>7. Pos(k.snd_nxt) <= Pos(una) + SndWnd
  BY <1>4, BlockFields, HalfIs DEF SndOK
<1>8. QED
  BY <1>4, <1>5, <1>6, <1>7 DEF SndOK

\* A shorter snd_buf is as good as the one it comes from.
LEMMA ShorterBuf ==
  ASSUME NEW k \in ControlBlocks, NEW F, SndOK(k, F),
         NEW buf \in Seq(SegmentsOut), Between(buf, Pos(k.snd_una), Pos(k.snd_nxt)),
         InOrder(buf), Carries(buf, F), NEW q, q = [k EXCEPT !.snd_buf = buf]
  PROVE  /\ q \in ControlBlocks /\ SndOK(q, F) /\ RcvSame(k, q)
         /\ q.snd_nxt = k.snd_nxt /\ q.snd_queue = k.snd_queue /\ q.snd_buf = buf
<1>1. /\ q \in ControlBlocks /\ RcvSame(k, q) /\ q.snd_buf = buf
      /\ q.snd_una = k.snd_una /\ q.snd_nxt = k.snd_nxt /\ q.snd_queue = k.snd_queue
  BY SetBuf
<1>2. QED
  BY <1>1 DEF SndOK

\* An acknowledgement of all numbers before una, which p has got.
LEMMA ParseUna ==
  ASSUME NEW k \in ControlBlocks, NEW F, SndOK(k, F), NEW p, NEW una \in SeqNumber,
         Pos(p.rcv_nxt) \in Nat, Pos(una) <= Pos(p.rcv_nxt), Pos(una) <= Pos(k.snd_nxt),
         NEW q, q = ikcp_shrink_buf(ikcp_parse_una(k, una))
  PROVE  Acked(k, q, p, F)
<1> DEFINE acked == {i \in DOMAIN k.snd_buf : Diff(una, k.snd_buf[i].sn) > 0}
           n == PrefixLength(Len(k.snd_buf), acked)
           buf == SubSeq(k.snd_buf, n + 1, Len(k.snd_buf))
           q1 == ikcp_parse_una(k, una)
<1>1. q1 = [k EXCEPT !.snd_buf = buf]
  BY DEF ikcp_parse_una
<1>2. k.snd_buf \in Seq(SegmentsOut) /\ Len(k.snd_buf) \in Nat
  BY BlockFields
<1>3. n \in 0..Len(k.snd_buf) /\ \A i \in 1..n : i \in acked
  BY <1>2, PrefixLengthIs, Zenon
<1>4. ASSUME NEW i \in acked PROVE Got(p, k.snd_buf[i].sn)
  <2> DEFINE sn == k.snd_buf[i].sn
  <2>1. i \in DOMAIN k.snd_buf /\ Diff(una, sn) > 0
    OBVIOUS
  <2>2. /\ sn \in SeqNumber /\ Pos(sn) \in Nat /\ Pos(sn) < Pos(k.snd_nxt)
        /\ Pos(k.snd_nxt) \in Nat /\ Pos(k.snd_nxt) <= Limit
    <3>1. sn \in SeqNumber /\ Pos(sn) \in Nat /\ Pos(k.snd_nxt) \in Nat
      BY <2>1, BlockFields
    <3>2. Pos(sn) < Pos(k.snd_nxt)
      BY <2>1 DEF SndOK, Between
    <3>3. Pos(k.snd_nxt) <= Limit
      BY <3>1, BlockFields, HalfIs DEF SndOK
    <3>4. QED
      BY <3>1, <3>2, <3>3
  <2> HIDE DEF sn
  <2>3. Pos(una) \in Nat /\ Pos(una) < Half /\ Pos(sn) <= Half
    BY <2>2, PosType, HalfIs
  <2>4. Diff(una, sn) = Pos(una) - Pos(sn)
    BY <2>2, <2>3, DiffPos, HalfIs
  <2>5. Pos(sn) < Pos(p.rcv_nxt)
    BY <2>1, <2>2, <2>3, <2>4 DEF sn
  <2>6. QED
    BY <2>5 DEF Got, sn
<1>5. /\ Between(k.snd_buf, Pos(k.snd_una), Pos(k.snd_nxt)) /\ InOrder(k.snd_buf)
      /\ Carries(k.snd_buf, F) /\ Pos(k.snd_una) \in Int /\ Pos(k.snd_nxt) \in Int
  BY BlockFields DEF SndOK
<1> HIDE DEF acked, n, buf
<1>6. /\ buf \in Seq(SegmentsOut) /\ Between(buf, Pos(k.snd_una), Pos(k.snd_nxt))
      /\ InOrder(buf) /\ Carries(buf, F)
      /\ \A sn : Has(k.snd_buf, sn) => Has(buf, sn) \/ \E i \in 1..n : k.snd_buf[i].sn = sn
  BY <1>2, <1>3, <1>5, BufferCut DEF buf
<1> HIDE DEF q1
<1>7. /\ q1 \in ControlBlocks /\ SndOK(q1, F) /\ RcvSame(k, q1)
      /\ q1.snd_nxt = k.snd_nxt /\ q1.snd_queue = k.snd_queue /\ q1.snd_buf = buf
  BY <1>1, <1>6, ShorterBuf
<1>8. /\ q \in ControlBlocks /\ SndOK(q, F) /\ RcvSame(q1, q)
      /\ q.snd_nxt = q1.snd_nxt /\ q.snd_queue = q1.snd_queue /\ q.snd_buf = buf
  BY <1>7, ShrinkBuf DEF q1
<1>9. \A sn \in SeqNumber : Has(k.snd_buf, sn) => Has(q.snd_buf, sn) \/ Got(p, sn)
  BY <1>3, <1>4, <1>6, <1>8
<1>10. QED
  BY <1>7, <1>8, <1>9 DEF Acked, RcvSame

LEMMA OutstandingIs ==
  ASSUME NEW k \in ControlBlocks, NEW F, SndOK(k, F), NEW sn \in SeqNumber, Pos(sn) <= Limit
  PROVE  Outstanding(k, sn) <=> Pos(k.snd_una) <= Pos(sn) /\ Pos(sn) < Pos(k.snd_nxt)
<1>1. Pos(k.snd_una) <= Limit /\ Pos(k.snd_nxt) <= Limit
  BY BlockFields, HalfIs DEF SndOK
<1>2. /\ Diff(sn, k.snd_una) = Pos(sn) - Pos(k.snd_una)
      /\ Diff(sn, k.snd_nxt) = Pos(sn) - Pos(k.snd_nxt)
  BY <1>1, BlockFields, HalfIs, PosType, DiffPos
<1>3. QED
  BY <1>2, BlockFields, PosType DEF Outstanding

\* An acknowledgement of one number, which p has got.
LEMMA ParseAck ==
  ASSUME NEW k \in ControlBlocks, NEW F, SndOK(k, F), NEW p, NEW sn \in SeqNumber, Got(p, sn),
         NEW q, q = ikcp_shrink_buf(ikcp_parse_ack(k, sn))
  PROVE  Acked(k, q, p, F)
<1> DEFINE at == {i \in DOMAIN k.snd_buf : k.snd_buf[i].sn = sn}
           q1 == ikcp_parse_ack(k, sn)
<1>1. /\ Between(k.snd_buf, Pos(k.snd_una), Pos(k.snd_nxt)) /\ InOrder(k.snd_buf)
      /\ Carries(k.snd_buf, F) /\ Pos(k.snd_una) \in Int /\ Pos(k.snd_nxt) \in Int
      /\ k.snd_buf \in Seq(SegmentsOut)
  BY BlockFields DEF SndOK
<1>2. /\ q1 \in ControlBlocks /\ SndOK(q1, F) /\ RcvSame(k, q1)
      /\ q1.snd_nxt = k.snd_nxt /\ q1.snd_queue = k.snd_queue
      /\ \A x : Has(k.snd_buf, x) => Has(q1.snd_buf, x) \/ x = sn
  <2>1. CASE Outstanding(k, sn) /\ at # {}
    <3> DEFINE buf == RemoveAt(k.snd_buf, Min(at))
    <3>1. at \in SUBSET Nat
      BY <1>1
    <3>2. Min(at) \in at
      BY <3>1, <2>1, MinIs
    <3>3. Min(at) \in DOMAIN k.snd_buf /\ k.snd_buf[Min(at)].sn = sn
      BY <3>2
    <3>4. q1 = [k EXCEPT !.snd_buf = buf]
      BY <2>1 DEF ikcp_parse_ack
    <3> HIDE DEF at
    <3>5. /\ buf \in Seq(SegmentsOut) /\ Between(buf, Pos(k.snd_una), Pos(k.snd_nxt))
          /\ InOrder(buf) /\ Carries(buf, F)
          /\ \A x : Has(k.snd_buf, x) => Has(buf, x) \/ k.snd_buf[Min(at)].sn = x
      BY <1>1, <3>3, BufferRemove
    <3> HIDE DEF buf, q1
    <3>6. /\ q1 \in ControlBlocks /\ SndOK(q1, F) /\ RcvSame(k, q1)
          /\ q1.snd_nxt = k.snd_nxt /\ q1.snd_queue = k.snd_queue /\ q1.snd_buf = buf
      BY <3>4, <3>5, ShorterBuf
    <3>7. QED
      BY <3>3, <3>5, <3>6
  <2>2. CASE ~(Outstanding(k, sn) /\ at # {})
    BY <2>2 DEF ikcp_parse_ack, RcvSame
  <2>3. QED
    BY <2>1, <2>2
<1> HIDE DEF q1
<1>3. /\ q \in ControlBlocks /\ SndOK(q, F) /\ RcvSame(q1, q)
      /\ q.snd_nxt = q1.snd_nxt /\ q.snd_queue = q1.snd_queue /\ q.snd_buf = q1.snd_buf
  BY <1>2, ShrinkBuf DEF q1
<1>4. QED
  BY <1>2, <1>3 DEF Acked, RcvSame

LEMMA ParseFastack ==
  ASSUME NEW k \in ControlBlocks, NEW F, SndOK(k, F), NEW p, NEW sn,
         NEW q, q = ikcp_parse_fastack(k, sn)
  PROVE  Acked(k, q, p, F)
<1> DEFINE buf == [i \in DOMAIN k.snd_buf |->
                     IF Diff(sn, k.snd_buf[i].sn) > 0
                     THEN [k.snd_buf[i] EXCEPT !.fastack = TRUE] ELSE k.snd_buf[i]]
<1>1. CASE Outstanding(k, sn)
  <2>1. q = [k EXCEPT !.snd_buf = buf]
    BY <1>1 DEF ikcp_parse_fastack
  <2>2. k.snd_buf \in Seq(SegmentsOut) /\ DOMAIN k.snd_buf = 1..Len(k.snd_buf)
    BY BlockFields
  <2>3. ASSUME NEW i \in DOMAIN k.snd_buf
        PROVE  /\ buf[i] \in SegmentsOut
               /\ buf[i].sn = k.snd_buf[i].sn /\ buf[i].data = k.snd_buf[i].data
    <3>1. k.snd_buf[i] \in SegmentsOut
      BY <2>2
    <3>2. QED
      BY <3>1 DEF SegmentsOut
  <2>4. DOMAIN buf = 1..Len(k.snd_buf)
    BY <2>2
  <2> HIDE DEF buf
  <2>5. buf \in Seq(SegmentsOut) /\ Len(buf) = Len(k.snd_buf)
    <3>1. buf = [i \in 1..Len(k.snd_buf) |-> buf[i]] /\ Len(k.snd_buf) \in Nat
      BY <2>2 DEF buf
    <3>2. \A i \in 1..Len(k.snd_buf) : buf[i] \in SegmentsOut
      BY <2>2, <2>3
    <3>3. QED
      BY <3>1, <3>2
  <2>6. /\ Between(k.snd_buf, Pos(k.snd_una), Pos(k.snd_nxt)) /\ InOrder(k.snd_buf)
        /\ Carries(k.snd_buf, F) /\ Pos(k.snd_una) \in Int /\ Pos(k.snd_nxt) \in Int
    BY BlockFields DEF SndOK
  <2>7. /\ Between(buf, Pos(k.snd_una), Pos(k.snd_nxt)) /\ InOrder(buf) /\ Carries(buf, F)
        /\ \A x : Has(k.snd_buf, x) => Has(buf, x)
    BY <2>2, <2>3, <2>5, <2>6, BufferKept
  <2>8. /\ q \in ControlBlocks /\ SndOK(q, F) /\ RcvSame(k, q)
        /\ q.snd_nxt = k.snd_nxt /\ q.snd_queue = k.snd_queue /\ q.snd_buf = buf
    BY <2>1, <2>5, <2>7, ShorterBuf
  <2>9. QED
    BY <2>7, <2>8 DEF Acked
<1>2. CASE ~Outstanding(k, sn)
  BY <1>2 DEF ikcp_parse_fastack, Acked, RcvSame
<1>3. QED
  BY <1>1, <1>2

\* A buffer that gets one element more.
LEMMA BufferInsert ==
  ASSUME NEW S, NEW buf \in Seq(S), NEW n \in 0..Len(buf), NEW x \in S,
         NEW F, NEW a \in Int, NEW b \in Int,
         Between(buf, a, b), InOrder(buf), Carries(buf, F),
         a <= Pos(x.sn), Pos(x.sn) < b, x.data = F[Pos(x.sn)],
         \A i \in 1..n : Pos(buf[i].sn) < Pos(x.sn),
         \A i \in n + 1..Len(buf) : Pos(x.sn) < Pos(buf[i].sn)
  PROVE  LET t == InsertAt(buf, n + 1, x)
         IN  /\ t \in Seq(S) /\ Between(t, a, b) /\ InOrder(t) /\ Carries(t, F)
             /\ Has(t, x.sn)
             /\ \A sn : Has(buf, sn) => Has(t, sn)
<1> DEFINE t == InsertAt(buf, n + 1, x)
           from(i) == IF i <= n THEN i ELSE i - 1
<1>1. /\ t \in Seq(S) /\ Len(t) = Len(buf) + 1 /\ t[n + 1] = x
      /\ \A i \in 1..(n + 1) - 1 : t[i] = buf[i]
      /\ \A i \in (n + 1) + 1..Len(buf) + 1 : t[i] = buf[i - 1]
  <2> DEFINE m == n + 1
  <2>1. m \in 1..Len(buf) + 1
    OBVIOUS
  <2> HIDE DEF m
  <2>2. LET u == InsertAt(buf, m, x)
        IN  /\ u \in Seq(S) /\ Len(u) = Len(buf) + 1 /\ u[m] = x
            /\ \A i \in 1..m - 1 : u[i] = buf[i]
            /\ \A i \in m + 1..Len(buf) + 1 : u[i] = buf[i - 1]
    BY <2>1, InsertAtIs
  <2>3. QED
    BY <2>2, Zenon DEF m
<1> HIDE DEF t
<1>2. /\ DOMAIN t = 1..Len(buf) + 1 /\ DOMAIN buf = 1..Len(buf) /\ Len(buf) \in Nat
      /\ n + 1 \in DOMAIN t
  BY <1>1
<1>3. ASSUME NEW i \in DOMAIN t, i # n + 1
      PROVE  from(i) \in DOMAIN buf /\ t[i] = buf[from(i)]
  <2>1. CASE i <= n
    <3>1. i \in 1..(n + 1) - 1
      BY <2>1, <1>2
    <3>2. t[i] = buf[i]
      BY <3>1, <1>1
    <3>3. QED
      BY <2>1, <3>1, <3>2, <1>2
  <2>2. CASE ~(i <= n)
    <3>1. i \in (n + 1) + 1..Len(buf) + 1
      BY <2>2, <1>2, <1>3
    <3>2. t[i] = buf[i - 1]
      BY <3>1, <1>1
    <3>3. i - 1 \in 1..Len(buf)
      BY <3>1
    <3>4. QED
      BY <2>2, <3>2, <3>3, <1>2
  <2>3. QED
    BY <2>1, <2>2
<1>4. /\ \A i, j \in DOMAIN t : i < j /\ i # n + 1 /\ j # n + 1 => from(i) < from(j)
      /\ \A i \in DOMAIN t : i < n + 1 => from(i) \in 1..n
      /\ \A i \in DOMAIN t : n + 1 < i => from(i) \in n + 1..Len(buf)
  BY <1>2
<1> HIDE DEF from
<1>5. Between(t, a, b) /\ Carries(t, F)
  BY <1>1, <1>3 DEF Between, Carries
<1>6. InOrder(t)
  <2> SUFFICES ASSUME NEW i \in DOMAIN t, NEW j \in DOMAIN t, i < j
               PROVE  Pos(t[i].sn) < Pos(t[j].sn)
    BY DEF InOrder
  <2>1. CASE i = n + 1
    BY <2>1, <1>1, <1>2, <1>3, <1>4
  <2>2. CASE j = n + 1
    BY <2>2, <1>1, <1>2, <1>3, <1>4
  <2>3. CASE i # n + 1 /\ j # n + 1
    BY <2>3, <1>3, <1>4 DEF InOrder
  <2>4. QED
    BY <2>1, <2>2, <2>3
<1>7. ASSUME NEW i \in DOMAIN buf PROVE \E j \in DOMAIN t : t[j] = buf[i]
  <2>1. CASE i <= n
    <3>1. i \in 1..(n + 1) - 1 /\ i \in DOMAIN t
      BY <2>1, <1>2
    <3>2. QED
      BY <3>1, <1>1
  <2>2. CASE ~(i <= n)
    <3>1. i + 1 \in (n + 1) + 1..Len(buf) + 1 /\ i + 1 \in DOMAIN t /\ (i + 1) - 1 = i
      BY <2>2, <1>2
    <3>2. QED
      BY <3>1, <1>1
  <2>3. QED
    BY <2>1, <2>2
<1>8. Has(t, x.sn) /\ \A sn : Has(buf, sn) => Has(t, sn)
  BY <1>1, <1>2, <1>7 DEF Has
<1>9. QED
  BY <1>1, <1>5, <1>6, <1>8 DEF t

LEMMA MoveReadyIs ==
  ASSUME NEW k \in ControlBlocks, NEW G, NEW top \in Nat, top <= Limit, RcvOK(k, G, top),
         NEW q, q = MoveReady(k)
  PROVE  Advanced(k, q, G, top) /\ q.acklist = k.acklist
<1> DEFINE buf == k.rcv_buf
           queue == k.rcv_queue
           ready == {i \in DOMAIN buf : /\ buf[i].sn = Plus(k.rcv_nxt, i - 1)
                                        /\ Len(queue) + i <= RcvWnd}
           n == PrefixLength(Len(buf), ready)
           t == SubSeq(buf, n + 1, Len(buf))
           new == [i \in 1..n |-> buf[i].data]
           queue1 == queue \o new
           nxt == Plus(k.rcv_nxt, n)
           r == Pos(k.rcv_nxt)
<1>1. q = [k EXCEPT !.rcv_buf = t, !.rcv_queue = queue1, !.rcv_nxt = nxt]
  BY DEF MoveReady
<1>2. /\ buf \in Seq(SegmentsIn) /\ DOMAIN buf = 1..Len(buf) /\ Len(buf) \in Nat
      /\ queue \in Seq(Fragment) /\ DOMAIN queue = 1..Len(queue) /\ Len(queue) \in Nat
      /\ k.rcv_nxt \in SeqNumber /\ r \in Nat
      /\ r <= top /\ Len(queue) <= RcvWnd /\ Len(queue) <= r
      /\ Between(buf, r, top) /\ InOrder(buf) /\ Carries(buf, G)
      /\ Follows(queue, r - Len(queue), G)
  BY BlockFields DEF RcvOK
<1>3. n \in 0..Len(buf) /\ \A i \in 1..n : i \in ready
  BY <1>2, PrefixLengthIs, Zenon
<1>4. \A i \in 1..n : /\ i \in DOMAIN buf /\ buf[i].sn = Plus(k.rcv_nxt, i - 1)
                      /\ Len(queue) + i <= RcvWnd
  BY <1>3
<1> HIDE DEF ready, n, buf, queue, r
<1>5. Len(queue) + n <= RcvWnd
  BY <1>2, <1>3, <1>4, HalfIs
<1>6. ASSUME NEW i \in 1..n PROVE Pos(buf[i].sn) = r + i - 1
  <2>1. r + (i - 1) < Modulus /\ i - 1 \in Nat
    BY <1>2, <1>3, <1>5, HalfIs
  <2>2. Pos(Plus(k.rcv_nxt, i - 1)) = r + (i - 1)
    BY <2>1, <1>2, PosPlus DEF r
  <2>3. QED
    BY <2>2, <1>4, <1>2
<1>7. nxt \in SeqNumber /\ Pos(nxt) = r + n
  <2>1. r + n < Modulus /\ n \in Nat
    BY <1>2, <1>3, <1>5, HalfIs
  <2>2. QED
    BY <2>1, <1>2, PosPlus DEF r
<1>8. r + n <= top
  <2>1. CASE n = 0
    BY <2>1, <1>2
  <2>2. CASE n > 0
    <3>1. n \in DOMAIN buf /\ n \in 1..n
      BY <2>2, <1>2, <1>3
    <3>2. Pos(buf[n].sn) < top /\ Pos(buf[n].sn) = r + n - 1
      BY <3>1, <1>2, <1>6 DEF Between
    <3>3. QED
      BY <3>2, <1>2, <1>3
  <2>3. QED
    BY <2>1, <2>2, <1>3
<1>9. /\ t \in Seq(SegmentsIn) /\ Between(t, r, top) /\ InOrder(t) /\ Carries(t, G)
      /\ \A sn : Has(buf, sn) => Has(t, sn) \/ \E i \in 1..n : buf[i].sn = sn
  BY <1>2, <1>3, BufferCut
<1>10. Between(t, r + n, top)
  <2>1. Between(t, r, top)
    BY <1>9
  <2> SUFFICES ASSUME NEW i \in DOMAIN t
               PROVE  r + n <= Pos(t[i].sn) /\ Pos(t[i].sn) < top
    BY DEF Between
  <2>2. Pos(t[i].sn) < top /\ r <= Pos(t[i].sn)
    BY <2>1 DEF Between
  <2>3. /\ Len(t) = Len(buf) - n /\ \A j \in 1..Len(buf) - n : t[j] = buf[n + j]
    BY <1>2, <1>3, CutIs
  <2>4. i \in 1..Len(buf) - n
    BY <1>9, <2>3
  <2>5. n + i \in DOMAIN buf /\ t[i] = buf[n + i]
    <3>1. n + i \in 1..Len(buf)
      BY <2>4, <1>2, <1>3
    <3>2. QED
      BY <3>1, <2>3, <2>4, <1>2
  <2>6. CASE n = 0
    BY <2>2, <2>6, <1>2
  <2>7. CASE n > 0
    <3>1. n \in DOMAIN buf /\ n \in 1..n /\ n < n + i
      BY <2>4, <2>7, <1>2, <1>3
    <3>2. Pos(buf[n].sn) < Pos(t[i].sn) /\ Pos(buf[n].sn) = r + n - 1
      BY <2>5, <3>1, <1>2, <1>6 DEF InOrder
    <3>3. Pos(t[i].sn) \in Nat
      BY <2>5, BlockFields DEF buf
    <3>4. QED
      BY <2>2, <3>2, <3>3, <1>2, <1>3
  <2>8. QED
    BY <2>6, <2>7, <1>3
<1>11. /\ queue1 \in Seq(Fragment) /\ Len(queue1) = Len(queue) + n
       /\ \A i \in 1..Len(queue) : queue1[i] = queue[i]
       /\ \A i \in Len(queue) + 1..Len(queue) + n : queue1[i] = buf[i - Len(queue)].data
  <2>1. ASSUME NEW i \in 1..n PROVE buf[i].data \in Fragment
    <3>1. buf[i] \in SegmentsIn
      BY <1>2, <1>4
    <3>2. QED
      BY <3>1 DEF SegmentsIn
  <2>2. new \in Seq(Fragment) /\ Len(new) = n /\ \A i \in 1..n : new[i] = buf[i].data
    BY <2>1, <1>3
  <2> HIDE DEF new
  <2>3. /\ queue1 \in Seq(Fragment) /\ Len(queue1) = Len(queue) + Len(new)
        /\ \A i \in 1..Len(queue) : queue1[i] = queue[i]
        /\ \A i \in Len(queue) + 1..Len(queue) + Len(new) : queue1[i] = new[i - Len(queue)]
    BY <1>2, <2>2, ConcatIs
  <2>4. \A i \in Len(queue) + 1..Len(queue) + n : i - Len(queue) \in 1..n
    BY <1>2, <1>3
  <2>5. QED
    BY <2>2, <2>3, <2>4
<1> HIDE DEF t, new, queue1, nxt
<1>12. /\ q \in ControlBlocks /\ SndSame(k, q) /\ q.acklist = k.acklist
       /\ q.rcv_buf = t /\ q.rcv_queue = queue1 /\ q.rcv_nxt = nxt
  <2>1. nxt \in SeqNumber /\ t \in Seq(SegmentsIn) /\ queue1 \in Seq(Fragment)
    BY <1>7, <1>9, <1>11
  <2>2. q \in ControlBlocks
    BY <1>1, <2>1 DEF ControlBlocks
  <2>3. /\ SndSame(k, q) /\ q.acklist = k.acklist
        /\ q.rcv_buf = t /\ q.rcv_queue = queue1 /\ q.rcv_nxt = nxt
    BY <1>1 DEF ControlBlocks, SndSame
  <2>4. QED
    BY <2>2, <2>3
<1>13. Follows(queue1, r - Len(queue), G)
  <2> SUFFICES ASSUME NEW i \in 1..Len(queue) + n
               PROVE  queue1[i] = G[(r - Len(queue)) + i - 1]
    BY <1>11 DEF Follows
  <2>1. CASE i <= Len(queue)
    <3>1. i \in 1..Len(queue)
      BY <2>1, <1>2, <1>3
    <3>2. queue1[i] = queue[i]
      BY <3>1, <1>11
    <3>3. queue[i] = G[(r - Len(queue)) + i - 1]
      BY <3>1, <1>2 DEF Follows
    <3>4. QED
      BY <3>2, <3>3
  <2>2. CASE ~(i <= Len(queue))
    <3>1. i - Len(queue) \in 1..n /\ i \in Len(queue) + 1..Len(queue) + n
      BY <2>2, <1>2, <1>3
    <3>2. i - Len(queue) \in DOMAIN buf
      BY <3>1, <1>4
    <3>3. queue1[i] = G[Pos(buf[i - Len(queue)].sn)]
      BY <3>1, <3>2, <1>2, <1>11 DEF Carries
    <3>4. Pos(buf[i - Len(queue)].sn) = r + (i - Len(queue)) - 1
      BY <3>1, <1>6
    <3>5. r + (i - Len(queue)) - 1 = (r - Len(queue)) + i - 1
      BY <1>2, <3>1
    <3>6. QED
      BY <3>3, <3>4, <3>5
  <2>3. QED
    BY <2>1, <2>2
<1>14. (r + n) - (Len(queue) + n) = r - Len(queue)
  BY <1>2, <1>3
<1>15. RcvOK(q, G, top)
  <2>1. Len(queue1) <= RcvWnd /\ Len(queue1) <= r + n
    BY <1>2, <1>3, <1>5, <1>11
  <2>2. Pos(nxt) - Len(queue1) = r - Len(queue)
    BY <1>7, <1>11, <1>14
  <2>3. Between(t, Pos(nxt), top) /\ Pos(nxt) <= top /\ Len(queue1) <= Pos(nxt)
    BY <1>7, <1>8, <1>10, <2>1
  <2>4. Follows(queue1, Pos(nxt) - Len(queue1), G)
    BY <1>13, <2>2
  <2>5. QED
    BY <1>9, <1>12, <2>1, <2>3, <2>4 DEF RcvOK
<1>16. ASSUME NEW sn \in SeqNumber, Got(k, sn) PROVE Got(q, sn)
  <2>1. CASE Pos(sn) < r
    <3>1. Pos(sn) < r + n
      BY <2>1, <1>2, <1>3, PosType
    <3>2. QED
      BY <3>1, <1>7, <1>12 DEF Got
  <2>2. CASE Has(buf, sn) /\ ~Has(t, sn)
    <3>1. PICK i \in 1..n : buf[i].sn = sn
      BY <2>2, <1>9
    <3>2. Pos(sn) < r + n
      BY <3>1, <1>2, <1>3, <1>6
    <3>3. QED
      BY <3>2, <1>7, <1>12 DEF Got
  <2>3. QED
    BY <2>1, <2>2, <1>12, <1>16 DEF Got, buf, r
<1>17. QED
  BY <1>2, <1>3, <1>7, <1>11, <1>12, <1>14, <1>15, <1>16 DEF Advanced, r, queue

\* A segment of the window, or from before it, is got; so it is acknowledged
\* by right.
LEMMA ParseData ==
  ASSUME NEW k \in ControlBlocks, NEW G, NEW top \in Nat, top <= Limit, RcvOK(k, G, top),
         NEW seg \in Segments, Pos(seg.sn) < top, seg.data = G[Pos(seg.sn)],
         Diff(seg.sn, Plus(k.rcv_nxt, RcvWnd)) < 0,
         NEW q, q = ikcp_parse_data(k, seg)
  PROVE  Advanced(k, q, G, top) /\ q.acklist = k.acklist /\ Got(q, seg.sn)
<1> DEFINE sn == seg.sn
           buf == k.rcv_buf
           below == {i \in DOMAIN buf : Diff(sn, buf[i].sn) >= 0}
           at == Max({0} \cup below)
           repeat == at > 0 /\ buf[at].sn = sn
           x == [sn |-> sn, data |-> seg.data]
           t == InsertAt(buf, at + 1, x)
           k1 == [k EXCEPT !.rcv_buf = t]
           r == Pos(k.rcv_nxt)
<1>1. sn \in SeqNumber /\ seg.data \in Fragment /\ x \in SegmentsIn
  BY DEF Segments, SegmentsIn
<1>2. /\ buf \in Seq(SegmentsIn) /\ DOMAIN buf = 1..Len(buf) /\ Len(buf) \in Nat
      /\ k.rcv_nxt \in SeqNumber /\ r \in Nat /\ r <= top
      /\ Between(buf, r, top) /\ InOrder(buf) /\ Carries(buf, G)
      /\ \A i \in DOMAIN buf : buf[i].sn \in SeqNumber /\ Pos(buf[i].sn) \in Nat
  BY BlockFields DEF RcvOK
<1>3. Pos(sn) \in Nat /\ Pos(sn) < top /\ Limit < Half /\ top < Half
  BY <1>1, PosType, HalfIs
<1>4. Diff(sn, k.rcv_nxt) = Pos(sn) - r
  BY <1>1, <1>2, <1>3, DiffPos, HalfIs
<1>5. ASSUME NEW i \in DOMAIN buf PROVE Diff(sn, buf[i].sn) = Pos(sn) - Pos(buf[i].sn)
  <2>1. /\ buf[i].sn \in SeqNumber /\ Pos(buf[i].sn) \in Nat
        /\ Pos(buf[i].sn) < top
    BY <1>2 DEF Between
  <2>2. QED
    BY <2>1, <1>1, <1>3, DiffPos, HalfIs
<1>6. CASE Diff(sn, k.rcv_nxt) < 0
  <2>1. q = k
    BY <1>6 DEF ikcp_parse_data
  <2>2. Got(q, sn)
    BY <2>1, <1>2, <1>3, <1>4, <1>6 DEF Got
  <2>3. QED
    BY <2>1, <2>2, <1>2 DEF Advanced, SndSame
<1>7. CASE Diff(sn, k.rcv_nxt) >= 0
  <2>1. q = MoveReady(IF repeat THEN k ELSE k1)
    <3>1. Diff(sn, k.rcv_nxt) \in Int
      BY <1>2, <1>3, <1>4
    <3>2. ~(Diff(sn, k.rcv_nxt) < 0)
      BY <3>1, <1>7
    <3>3. Diff(sn, Plus(k.rcv_nxt, RcvWnd)) \in Int
      <4>1. r + RcvWnd < Modulus /\ r + RcvWnd <= Half
        BY <1>2, HalfIs
      <4>2. Plus(k.rcv_nxt, RcvWnd) \in SeqNumber /\ Pos(Plus(k.rcv_nxt, RcvWnd)) = r + RcvWnd
        BY <4>1, <1>2, PosPlus, HalfIs
      <4>3. QED
        BY <4>1, <4>2, <1>1, <1>2, <1>3, DiffPos, HalfIs
    <3>4. ~(Diff(sn, Plus(k.rcv_nxt, RcvWnd)) >= 0)
      BY <3>3
    <3>5. QED
      BY <3>2, <3>4, Zenon DEF ikcp_parse_data
  <2>2. at \in 0..Len(buf) /\ at \in {0} \cup below /\ \A i \in below : at >= i
    <3>1. {0} \cup below \in SUBSET (0..Len(buf)) /\ {0} \cup below # {}
      BY <1>2
    <3>2. QED
      BY <3>1, <1>2, MaxIs
  <2> HIDE DEF at
  <2>3. at = 0 \/ (at \in DOMAIN buf /\ Pos(buf[at].sn) <= Pos(sn))
    <3>1. CASE at = 0
      BY <3>1
    <3>2. CASE at # 0
      <4>1. at \in DOMAIN buf /\ Diff(sn, buf[at].sn) >= 0
        BY <2>2, <3>2
      <4>2. Diff(sn, buf[at].sn) = Pos(sn) - Pos(buf[at].sn) /\ Pos(buf[at].sn) \in Nat
        BY <4>1, <1>2, <1>5
      <4>3. QED
        BY <4>1, <4>2, <1>3
    <3>3. QED
      BY <3>1, <3>2
  <2>4. \A i \in DOMAIN buf : i > at => Pos(sn) < Pos(buf[i].sn)
    <3> SUFFICES ASSUME NEW i \in DOMAIN buf, i > at PROVE Pos(sn) < Pos(buf[i].sn)
      OBVIOUS
    <3>1. i \in Nat /\ at \in Nat
      BY <2>2, <1>2
    <3>2. ~(at >= i)
      BY <3>1
    <3>3. ~(Diff(sn, buf[i].sn) >= 0)
      BY <3>2, <2>2
    <3>4. Diff(sn, buf[i].sn) = Pos(sn) - Pos(buf[i].sn) /\ Pos(buf[i].sn) \in Nat
      BY <1>2, <1>5
    <3>5. QED
      BY <3>3, <3>4, <1>3
  <2> HIDE DEF below
  <2>5. CASE repeat
    <3>1. Has(buf, sn)
      BY <2>3, <2>5 DEF Has
    <3>2. Advanced(k, q, G, top) /\ q.acklist = k.acklist
      BY <2>1, <2>5, MoveReadyIs
    <3>3. QED
      BY <3>1, <3>2, <1>1 DEF Advanced, Got
  <2>6. CASE ~repeat
    <3>1. at # 0 => Pos(buf[at].sn) < Pos(sn)
      BY <2>3, <2>6, <2>2, <1>1, <1>2, <1>3, PosInjective
    <3>2. \A i \in 1..at : Pos(buf[i].sn) < Pos(sn)
      <4> SUFFICES ASSUME NEW i \in 1..at PROVE Pos(buf[i].sn) < Pos(sn)
        OBVIOUS
      <4>1. at # 0 /\ at \in DOMAIN buf /\ i \in DOMAIN buf /\ (i = at \/ i < at)
        BY <2>2, <1>2
      <4>2. i < at => Pos(buf[i].sn) < Pos(buf[at].sn)
        BY <4>1, <1>2 DEF InOrder
      <4>3. QED
        BY <4>1, <4>2, <3>1, <1>2, <1>3
    <3>3. \A i \in at + 1..Len(buf) : Pos(sn) < Pos(buf[i].sn)
      BY <2>2, <2>4, <1>2
    <3>4. /\ x.sn = sn /\ x.data = G[Pos(x.sn)] /\ r <= Pos(x.sn) /\ Pos(x.sn) < top
      BY <1>2, <1>3, <1>4, <1>7
    <3>5. /\ \A i \in 1..at : Pos(buf[i].sn) < Pos(x.sn)
          /\ \A i \in at + 1..Len(buf) : Pos(x.sn) < Pos(buf[i].sn)
      BY <3>2, <3>3, <3>4
    <3>6. /\ k.rcv_buf = buf /\ Pos(k.rcv_nxt) = r /\ r \in Int /\ top \in Int
      BY <1>2
    <3> HIDE DEF x, buf, r
    <3>7. /\ t \in Seq(SegmentsIn) /\ Between(t, r, top) /\ InOrder(t) /\ Carries(t, G)
          /\ Has(t, x.sn)
          /\ \A y : Has(buf, y) => Has(t, y)
      BY <1>1, <1>2, <2>2, <3>4, <3>5, <3>6, BufferInsert
    <3> HIDE DEF t
    <3>8. /\ k1 \in ControlBlocks /\ SndSame(k, k1) /\ k1.acklist = k.acklist
          /\ k1.rcv_buf = t /\ k1.rcv_queue = k.rcv_queue /\ k1.rcv_nxt = k.rcv_nxt
      BY <3>7, <3>6 DEF ControlBlocks, SndSame
    <3> HIDE DEF k1
    <3>9. RcvOK(k1, G, top)
      BY <3>7, <3>8, <3>6 DEF RcvOK
    <3>10. Got(k1, sn) /\ \A y : Got(k, y) => Got(k1, y)
      BY <3>4, <3>7, <3>8, <3>6 DEF Got
    <3>11. Advanced(k1, q, G, top) /\ q.acklist = k1.acklist
      BY <2>1, <2>6, <3>8, <3>9, MoveReadyIs
    <3>12. QED
      BY <3>8, <3>10, <3>11, <1>1 DEF Advanced, SndSame
  <2>7. QED
    BY <2>5, <2>6
<1>8. QED
  BY <1>2, <1>3, <1>4, <1>6, <1>7

LEMMA PushIs ==
  ASSUME NEW k \in ControlBlocks, NEW G, NEW top \in Nat, top <= Limit, RcvOK(k, G, top),
         AcksOK(k),
         NEW seg \in Segments, Pos(seg.sn) < top, seg.data = G[Pos(seg.sn)],
         NEW q, q = Push(k, seg)
  PROVE  Advanced(k, q, G, top) /\ AcksOK(q)
<1> DEFINE k1 == ikcp_ack_push(k, seg.sn)
<1>1. CASE Diff(seg.sn, Plus(k.rcv_nxt, RcvWnd)) < 0
  <2>1. seg.sn \in SeqNumber /\ k.acklist \in Seq(SeqNumber)
    BY BlockFields DEF Segments
  <2>2. k1 = [k EXCEPT !.acklist = Append(k.acklist, seg.sn)]
    BY DEF ikcp_ack_push
  <2>3. /\ k1 \in ControlBlocks /\ SndSame(k, k1)
        /\ k1.acklist = Append(k.acklist, seg.sn)
        /\ k1.rcv_buf = k.rcv_buf /\ k1.rcv_queue = k.rcv_queue /\ k1.rcv_nxt = k.rcv_nxt
    <3>1. Append(k.acklist, seg.sn) \in Seq(SeqNumber)
      BY <2>1
    <3>2. QED
      BY <3>1, <2>2 DEF ControlBlocks, SndSame
  <2>4. q = ikcp_parse_data(k1, seg)
    BY <1>1 DEF Push
  <2> HIDE DEF k1
  <2>5. RcvOK(k1, G, top) /\ \A y : Got(k, y) <=> Got(k1, y)
    BY <2>3 DEF RcvOK, Got
  <2>6. Diff(seg.sn, Plus(k1.rcv_nxt, RcvWnd)) < 0
    BY <1>1, <2>3
  <2>7. Advanced(k1, q, G, top) /\ q.acklist = k1.acklist /\ Got(q, seg.sn)
    BY <2>3, <2>4, <2>5, <2>6, ParseData
  <2>8. AcksOK(q)
    <3> SUFFICES ASSUME NEW i \in DOMAIN q.acklist PROVE Got(q, q.acklist[i])
      BY DEF AcksOK
    <3>1. /\ i \in 1..Len(k.acklist) + 1 /\ DOMAIN k.acklist = 1..Len(k.acklist)
          /\ Len(k.acklist) \in Nat /\ q.acklist = Append(k.acklist, seg.sn)
      BY <2>1, <2>3, <2>7
    <3>2. CASE i = Len(k.acklist) + 1
      <4>1. q.acklist[i] = seg.sn
        BY <3>1, <3>2
      <4>2. QED
        BY <4>1, <2>7
    <3>3. CASE i # Len(k.acklist) + 1
      <4>1. i \in DOMAIN k.acklist
        BY <3>1, <3>3
      <4>2. q.acklist[i] = k.acklist[i] /\ k.acklist[i] \in SeqNumber
        BY <4>1, <3>1, <2>1
      <4>3. Got(k1, k.acklist[i])
        BY <4>1, <2>5 DEF AcksOK
      <4>4. QED
        BY <4>2, <4>3, <2>7 DEF Advanced
    <3>4. QED
      BY <3>2, <3>3
  <2>9. QED
    BY <2>3, <2>5, <2>7, <2>8 DEF Advanced, SndSame
<1>2. CASE ~(Diff(seg.sn, Plus(k.rcv_nxt, RcvWnd)) < 0)
  <2>1. q = k
    BY <1>2 DEF Push
  <2>2. Pos(k.rcv_nxt) \in Nat
    BY BlockFields
  <2>3. QED
    BY <2>1, <2>2 DEF Advanced, SndSame
<1>3. QED
  BY <1>1, <1>2

(***************************************************************************)
(* Recursive functions: one whose steps stay in a set exists, and stays    *)
(* there.                                                                  *)
(***************************************************************************)
IsFold(f, S, x, n, g) ==
    /\ f = [m \in 0..n |-> f[m]]
    /\ \A m \in 0..n : f[m] \in S
    /\ \A m \in 0..n : f[m] = IF m = 0 THEN x ELSE g[m][f[m - 1]]

LEMMA FoldExists ==
  ASSUME NEW S, NEW x \in S, NEW n \in Nat, NEW g \in [1..n -> [S -> S]]
  PROVE  \E f : IsFold(f, S, x, n, g)
<1> DEFINE P(c) == \E f : /\ f = [m \in 0..c |-> IF m = 0 THEN x ELSE g[m][f[m - 1]]]
                          /\ \A m \in 0..c : f[m] \in S
           D == {c \in Nat : c <= n => P(c)}
<1>1. 0 \in D
  <2> DEFINE f == [m \in 0..0 |-> x]
  <2>1. f = [m \in 0..0 |-> IF m = 0 THEN x ELSE g[m][f[m - 1]]]
    OBVIOUS
  <2>2. \A m \in 0..0 : f[m] \in S
    OBVIOUS
  <2> HIDE DEF f
  <2>3. P(0)
    BY <2>1, <2>2
  <2>4. QED
    BY <2>3
<1>2. ASSUME NEW c \in Nat, c \in D PROVE c + 1 \in D
  <2> SUFFICES ASSUME c + 1 <= n PROVE P(c + 1)
    OBVIOUS
  <2>1. PICK f : /\ f = [m \in 0..c |-> IF m = 0 THEN x ELSE g[m][f[m - 1]]]
                 /\ \A m \in 0..c : f[m] \in S
    BY <1>2
  <2> DEFINE h == [m \in 0..c + 1 |-> IF m = c + 1 THEN g[c + 1][f[c]] ELSE f[m]]
  <2>2. DOMAIN h = 0..c + 1 /\ \A m \in 0..c : h[m] = f[m]
    OBVIOUS
  <2>3. h[c + 1] = g[c + 1][f[c]]
    OBVIOUS
  <2>4. h = [m \in 0..c + 1 |-> h[m]]
    OBVIOUS
  <2> HIDE DEF h
  <2>5. ASSUME NEW m \in 0..c + 1
        PROVE  h[m] = (IF m = 0 THEN x ELSE g[m][h[m - 1]]) /\ h[m] \in S
    <3>1. CASE m = c + 1
      <4>1. f[c] \in S /\ h[c] = f[c] /\ c + 1 \in 1..n /\ m # 0 /\ m - 1 = c
        BY <3>1, <2>1, <2>2
      <4>2. h[m] = g[m][h[m - 1]]
        BY <3>1, <4>1, <2>3
      <4>3. QED
        BY <3>1, <4>1, <4>2, <2>3
    <3>2. CASE m # c + 1
      <4>1. f[m] = IF m = 0 THEN x ELSE g[m][f[m - 1]]
        BY <3>2, <2>1
      <4>2. m # 0 => m - 1 \in 0..c
        BY <3>2
      <4>3. QED
        BY <3>2, <2>1, <2>2, <4>1, <4>2
    <3>3. QED
      BY <3>1, <3>2
  <2>6. h = [m \in 0..c + 1 |-> IF m = 0 THEN x ELSE g[m][h[m - 1]]]
    BY <2>4, <2>5
  <2>7. QED
    BY <2>5, <2>6
<1>3. n \in D
  <2> HIDE DEF D
  <2>1. QED
    BY <1>1, <1>2, SetInduction
<1>4. PICK f : /\ f = [m \in 0..n |-> IF m = 0 THEN x ELSE g[m][f[m - 1]]]
               /\ \A m \in 0..n : f[m] \in S
  BY <1>3
<1>5. \A m \in 0..n : f[m] = IF m = 0 THEN x ELSE g[m][f[m - 1]]
  BY <1>4
<1>6. f = [m \in 0..n |-> f[m]]
  BY <1>4
<1>7. QED
  BY <1>4, <1>5, <1>6 DEF IsFold

LEMMA FoldStays ==
  ASSUME NEW S, NEW n \in Nat, NEW f, f[0] \in S,
         \A m \in 1..n : f[m - 1] \in S => f[m] \in S
  PROVE  f[n] \in S
<1> DEFINE D == {c \in Nat : c <= n => f[c] \in S}
<1>1. 0 \in D
  OBVIOUS
<1>2. ASSUME NEW c \in Nat, c \in D PROVE c + 1 \in D
  <2> SUFFICES ASSUME c + 1 <= n PROVE f[c + 1] \in S
    OBVIOUS
  <2>1. c + 1 \in 1..n /\ (c + 1) - 1 = c /\ f[c] \in S
    BY <1>2
  <2>2. QED
    BY <2>1
<1>3. n \in D
  <2> HIDE DEF D
  <2>1. QED
    BY <1>1, <1>2, SetInduction
<1>4. QED
  BY <1>3

(***************************************************************************)
(* A datagram and the pair of blocks.                                      *)
(***************************************************************************)
LEMMA KeptTrans ==
  ASSUME NEW k, NEW q, NEW u, Kept(k, q), Kept(q, u),
         Pos(k.rcv_nxt) \in Nat, Pos(q.rcv_nxt) \in Nat, Pos(u.rcv_nxt) \in Nat
  PROVE  Kept(k, u)
BY DEF Kept

LEMMA AckedPair ==
  ASSUME NEW k, NEW p, NEW F, NEW G, Pair(k, p, F, G), NEW q, Acked(k, q, p, F)
  PROVE  Pair(q, p, F, G) /\ Kept(k, q)
<1>1. /\ q \in ControlBlocks /\ SndOK(q, F) /\ RcvSame(k, q)
      /\ q.snd_nxt = k.snd_nxt /\ q.snd_queue = k.snd_queue
      /\ \A sn \in SeqNumber : Has(k.snd_buf, sn) => Has(q.snd_buf, sn) \/ Got(p, sn)
  BY DEF Acked
<1>2. Pos(k.rcv_nxt) \in Nat
  BY BlockFields DEF Pair
<1>3. /\ RcvOK(q, G, Pos(p.snd_nxt)) /\ AcksOK(q)
      /\ \A sn : Got(k, sn) <=> Got(q, sn)
  BY <1>1 DEF Pair, RcvOK, AcksOK, Got, RcvSame
<1>4. NoneLost(q, p) /\ NoneLost(p, q)
  BY <1>1, <1>3 DEF Pair, NoneLost
<1>5. Pair(q, p, F, G)
  BY <1>1, <1>3, <1>4 DEF Pair
<1>6. Kept(k, q)
  BY <1>1, <1>2, <1>3 DEF Kept, RcvSame
<1>7. QED
  BY <1>5, <1>6

LEMMA AdvancedPair ==
  ASSUME NEW k, NEW p, NEW F, NEW G, Pair(k, p, F, G),
         NEW q, Advanced(k, q, G, Pos(p.snd_nxt)), AcksOK(q)
  PROVE  Pair(q, p, F, G) /\ Kept(k, q)
<1>1. /\ q \in ControlBlocks /\ SndSame(k, q) /\ RcvOK(q, G, Pos(p.snd_nxt))
      /\ \A sn \in SeqNumber : Got(k, sn) => Got(q, sn)
  BY DEF Advanced
<1>2. SndOK(q, F) /\ RcvOK(p, F, Pos(q.snd_nxt))
  BY <1>1 DEF Pair, SndOK, SndSame
<1>3. NoneLost(q, p) /\ NoneLost(p, q)
  BY <1>1 DEF Pair, NoneLost, SndSame
<1>4. Pair(q, p, F, G)
  BY <1>1, <1>2, <1>3 DEF Pair
<1>5. Kept(k, q)
  BY DEF Kept, Advanced, SndSame
<1>6. QED
  BY <1>4, <1>5

LEMMA SamePair ==
  ASSUME NEW k, NEW p, NEW F, NEW G, Pair(k, p, F, G),
         NEW q \in ControlBlocks, SndSame(k, q), RcvSame(k, q)
  PROVE  Pair(q, p, F, G) /\ Kept(k, q)
<1>1. k \in ControlBlocks /\ SndOK(k, F)
  BY DEF Pair
<1>2. SndOK(q, F) /\ q.snd_buf = k.snd_buf
  BY <1>1, SameBlock DEF SndSame
<1>3. Acked(k, q, p, F)
  BY <1>2 DEF Acked, SndSame
<1>4. QED
  BY <1>3, AckedPair

LEMMA InputSegmentIs ==
  ASSUME NEW k, NEW p, NEW F, NEW G, Pair(k, p, F, G), NEW seg \in Valid(p, G)
  PROVE  Pair(InputSegment(k, seg), p, F, G) /\ Kept(k, InputSegment(k, seg))
<1> DEFINE k0 == [k EXCEPT !.rmt_wnd = seg.wnd]
           k1 == ikcp_shrink_buf(ikcp_parse_una(k0, seg.una))
           q == InputSegment(k, seg)
<1>1. /\ seg \in Segments /\ seg.cmd \in {"ACK", "PUSH", "WASK", "WINS"}
      /\ seg.sn \in SeqNumber /\ seg.wnd \in 0..RcvWnd /\ seg.una \in SeqNumber
      /\ Pos(seg.una) <= Pos(p.rcv_nxt) /\ Pos(seg.una) \in Nat
  BY PosType DEF Valid, Segments
<1>2. k \in ControlBlocks /\ p \in ControlBlocks
  BY DEF Pair
<1>3. k0 \in ControlBlocks /\ SndSame(k, k0) /\ RcvSame(k, k0)
  BY <1>1, <1>2 DEF ControlBlocks, SndSame, RcvSame
<1>4. /\ q = CASE seg.cmd = "ACK"  -> ikcp_shrink_buf(ikcp_parse_ack(k1, seg.sn))
               [] seg.cmd = "PUSH" -> Push(k1, seg)
               [] seg.cmd = "WASK" -> [k1 EXCEPT !.probe = @ \cup {"TELL"}]
               [] seg.cmd = "WINS" -> k1
  BY DEF InputSegment
<1> HIDE DEF k0, q
<1>5. Pair(k0, p, F, G) /\ Kept(k, k0)
  BY <1>3, SamePair
<1>6. /\ Pos(p.rcv_nxt) \in Nat /\ Pos(k0.snd_nxt) \in Nat /\ Pos(seg.una) <= Pos(k0.snd_nxt)
      /\ SndOK(k0, F)
  <2>1. Pos(p.rcv_nxt) \in Nat /\ Pos(k0.snd_nxt) \in Nat
    BY <1>2, <1>3, BlockFields
  <2>2. SndOK(k0, F) /\ Pos(p.rcv_nxt) <= Pos(k0.snd_nxt)
    BY <1>5 DEF Pair, RcvOK
  <2>3. QED
    BY <2>1, <2>2, <1>1
<1>7. Acked(k0, k1, p, F)
  BY <1>1, <1>3, <1>6, ParseUna
<1>8. Pair(k1, p, F, G) /\ Kept(k0, k1)
  BY <1>5, <1>7, AckedPair
<1> HIDE DEF k1
<1>9. k1 \in ControlBlocks /\ SndOK(k1, F)
  BY <1>8 DEF Pair
<1>10. Pair(q, p, F, G) /\ Kept(k1, q)
  <2>1. CASE seg.cmd = "ACK"
    <3>1. q = ikcp_shrink_buf(ikcp_parse_ack(k1, seg.sn))
      BY <2>1, <1>4
    <3>2. Got(p, seg.sn)
      BY <2>1 DEF Valid
    <3>3. Acked(k1, q, p, F)
      BY <3>1, <3>2, <1>1, <1>9, ParseAck
    <3>4. QED
      BY <3>3, <1>8, AckedPair
  <2>2. CASE seg.cmd = "PUSH"
    <3>1. q = Push(k1, seg)
      BY <2>2, <1>4
    <3>2. Pos(seg.sn) < Pos(p.snd_nxt) /\ seg.data = G[Pos(seg.sn)]
      BY <2>2 DEF Valid
    <3>3. /\ Pos(p.snd_nxt) \in Nat /\ Pos(p.snd_nxt) <= Limit
          /\ RcvOK(k1, G, Pos(p.snd_nxt)) /\ AcksOK(k1)
      <4>1. Pos(p.snd_nxt) \in Nat /\ Len(p.snd_queue) \in Nat
        BY <1>2, BlockFields
      <4>2. Pos(p.snd_nxt) + Len(p.snd_queue) <= Limit
        BY <1>8 DEF Pair, SndOK
      <4>3. QED
        BY <4>1, <4>2, <1>8, HalfIs DEF Pair
    <3>4. Advanced(k1, q, G, Pos(p.snd_nxt)) /\ AcksOK(q)
      BY <3>1, <3>2, <3>3, <1>1, <1>9, PushIs
    <3>5. QED
      BY <3>4, <1>8, AdvancedPair
  <2>3. CASE seg.cmd = "WASK"
    <3>1. q = [k1 EXCEPT !.probe = k1.probe \cup {"TELL"}]
      BY <2>3, <1>4
    <3>2. k1.probe \cup {"TELL"} \subseteq {"SEND", "TELL"}
      BY <1>9, BlockFields
    <3>3. q \in ControlBlocks /\ SndSame(k1, q) /\ RcvSame(k1, q)
      BY <3>1, <3>2, <1>9 DEF ControlBlocks, SndSame, RcvSame
    <3>4. QED
      BY <3>3, <1>8, SamePair
  <2>4. CASE seg.cmd = "WINS"
    <3>1. q = k1
      BY <2>4, <1>4
    <3>2. SndSame(k1, k1) /\ RcvSame(k1, k1)
      BY DEF SndSame, RcvSame
    <3>3. QED
      BY <3>1, <3>2, <1>8, <1>9, SamePair
  <2>5. QED
    BY <2>1, <2>2, <2>3, <2>4, <1>1
<1>11. Kept(k, q)
  <2>1. /\ Pos(k.rcv_nxt) \in Nat /\ Pos(k0.rcv_nxt) \in Nat /\ Pos(k1.rcv_nxt) \in Nat
        /\ Pos(q.rcv_nxt) \in Nat
    BY <1>2, <1>3, <1>9, <1>10, BlockFields DEF Pair
  <2>2. Kept(k, k1)
    BY <2>1, <1>5, <1>8, KeptTrans
  <2>3. QED
    BY <2>1, <2>2, <1>10, KeptTrans
<1>12. QED
  BY <1>10, <1>11 DEF q

\* A datagram that may say what it says leaves the pair in order.
LEMMA InputIs ==
  ASSUME NEW k, NEW p, NEW F, NEW G, Pair(k, p, F, G), NEW dgram \in Seq(Valid(p, G))
  PROVE  Pair(ikcp_input(k, dgram), p, F, G) /\ Kept(k, ikcp_input(k, dgram))
<1> DEFINE n == Len(dgram)
           S == {q \in ControlBlocks : Pair(q, p, F, G) /\ Kept(k, q)}
           Is(f) == f = [m \in 0..n |-> IF m = 0 THEN k ELSE InputSegment(f[m - 1], dgram[m])]
           after == CHOOSE f : Is(f)
           acks == [i \in DOMAIN dgram |-> dgram[i].sn]
           isAck == {i \in DOMAIN dgram : dgram[i].cmd = "ACK"}
           maxack == CHOOSE i \in isAck : \A j \in isAck : Diff(acks[i], acks[j]) >= 0
<1>1. n \in Nat /\ \A m \in 1..n : dgram[m] \in Valid(p, G)
  OBVIOUS
<1>2. k \in ControlBlocks /\ Pos(k.rcv_nxt) \in Nat
  BY BlockFields DEF Pair
<1>3. k \in S
  <2>1. SndSame(k, k) /\ RcvSame(k, k)
    BY DEF SndSame, RcvSame
  <2>2. QED
    BY <2>1, <1>2, SamePair
<1>4. ASSUME NEW m \in 1..n, NEW q \in S PROVE InputSegment(q, dgram[m]) \in S
  <2>1. q \in ControlBlocks /\ Pair(q, p, F, G) /\ Kept(k, q)
    OBVIOUS
  <2> DEFINE u == InputSegment(q, dgram[m])
  <2>2. Pair(u, p, F, G) /\ Kept(q, u)
    BY <2>1, <1>1, InputSegmentIs
  <2> HIDE DEF u
  <2>3. u \in ControlBlocks /\ Pos(u.rcv_nxt) \in Nat /\ Pos(q.rcv_nxt) \in Nat
    BY <2>1, <2>2, BlockFields DEF Pair
  <2>4. Kept(k, u)
    BY <2>1, <2>2, <2>3, <1>2, KeptTrans
  <2>5. QED
    BY <2>2, <2>3, <2>4 DEF u
<1> HIDE DEF S
<1>5. \E f : Is(f)
  <2> DEFINE g == [m \in 1..n |-> [q \in S |-> InputSegment(q, dgram[m])]]
  <2>1. /\ g \in [1..n -> [S -> S]]
        /\ \A m \in 1..n, q \in S : g[m][q] = InputSegment(q, dgram[m])
    BY <1>4
  <2> HIDE DEF g
  <2>2. PICK f : IsFold(f, S, k, n, g)
    BY <2>1, <1>1, <1>3, FoldExists
  <2>3. ASSUME NEW m \in 0..n
        PROVE  f[m] = IF m = 0 THEN k ELSE InputSegment(f[m - 1], dgram[m])
    <3>1. CASE m = 0
      BY <3>1, <1>1, <2>2 DEF IsFold
    <3>2. CASE m # 0
      <4>1. m \in 1..n /\ m - 1 \in 0..n
        BY <3>2, <1>1
      <4>2. f[m - 1] \in S /\ f[m] = g[m][f[m - 1]]
        BY <4>1, <3>2, <2>2 DEF IsFold
      <4>3. QED
        BY <4>1, <4>2, <3>2, <2>1
    <3>3. QED
      BY <3>1, <3>2
  <2>4. Is(f)
    BY <2>2, <2>3 DEF IsFold
  <2>5. QED
    BY <2>4
<1>6. Is(after)
  BY <1>5
<1> HIDE DEF after
<1>7. after[n] \in S
  <2>1. after[0] = k
    BY <1>1, <1>6
  <2>2. ASSUME NEW m \in 1..n, after[m - 1] \in S PROVE after[m] \in S
    <3>1. m \in 0..n /\ m # 0
      BY <1>1
    <3>2. after[m] = InputSegment(after[m - 1], dgram[m])
      BY <3>1, <1>6
    <3>3. QED
      BY <3>2, <2>2, <1>4
  <2>3. QED
    BY <2>1, <2>2, <1>1, <1>3, FoldStays
<1>8. Pair(after[n], p, F, G) /\ Kept(k, after[n])
  BY <1>7 DEF S
<1>9. ikcp_input(k, dgram) = IF isAck = {} THEN after[n]
                             ELSE ikcp_parse_fastack(after[n], acks[maxack])
  BY DEF ikcp_input, after
<1> DEFINE x == acks[maxack]
<1>10. ikcp_input(k, dgram) = IF isAck = {} THEN after[n] ELSE ikcp_parse_fastack(after[n], x)
  BY <1>9
<1> HIDE DEF x
<1>11. CASE isAck = {}
  BY <1>8, <1>10, <1>11
<1>12. CASE isAck # {}
  <2> DEFINE k1 == after[n]
             q == ikcp_parse_fastack(k1, x)
  <2>1. ikcp_input(k, dgram) = q
    BY <1>10, <1>12
  <2> HIDE DEF k1
  <2>2. Pair(k1, p, F, G) /\ Kept(k, k1)
    BY <1>8 DEF k1
  <2>3. k1 \in ControlBlocks /\ SndOK(k1, F)
    BY <2>2 DEF Pair
  <2>4. Acked(k1, q, p, F)
    BY <2>3, ParseFastack
  <2>5. Pair(q, p, F, G) /\ Kept(k1, q)
    BY <2>2, <2>4, AckedPair
  <2> HIDE DEF q
  <2>6. Pos(k1.rcv_nxt) \in Nat /\ Pos(q.rcv_nxt) \in Nat
    BY <2>2, <2>5, BlockFields DEF Pair
  <2>7. Kept(k, q)
    BY <2>2, <2>5, <2>6, <1>2, KeptTrans
  <2>8. QED
    BY <2>1, <2>5, <2>7
<1>13. QED
  BY <1>11, <1>12

(***************************************************************************)
(* What a flush sends.                                                     *)
(***************************************************************************)
\* The segments due are segments of the buffer.
LEMMA DueIs ==
  ASSUME NEW S, NEW buf \in Seq(S), NEW expired
  PROVE  Due(buf, expired) \in Seq(S)
<1> DEFINE n == Len(buf)
           Next1(s, m) == IF NeedSend(buf[m], expired) THEN Append(s, buf[m]) ELSE s
           Is(f) == f = [m \in 0..n |->
                           IF m = 0 THEN <<>>
                           ELSE IF NeedSend(buf[m], expired) THEN Append(f[m - 1], buf[m])
                           ELSE f[m - 1]]
           due == CHOOSE f : Is(f)
<1>1. n \in Nat /\ \A m \in 1..n : buf[m] \in S
  OBVIOUS
<1>2. <<>> \in Seq(S)
  OBVIOUS
<1>3. ASSUME NEW m \in 1..n, NEW s \in Seq(S) PROVE Next1(s, m) \in Seq(S)
  BY <1>1
<1>4. \E f : Is(f)
  <2> DEFINE g == [m \in 1..n |-> [s \in Seq(S) |-> Next1(s, m)]]
  <2>1. /\ g \in [1..n -> [Seq(S) -> Seq(S)]]
        /\ \A m \in 1..n, s \in Seq(S) : g[m][s] = Next1(s, m)
    <3> HIDE DEF Next1
    <3>1. QED
      BY <1>3
  <2> HIDE DEF g
  <2>2. PICK f : IsFold(f, Seq(S), <<>>, n, g)
    BY <2>1, <1>1, <1>2, FoldExists
  <2>3. ASSUME NEW m \in 0..n PROVE f[m] = IF m = 0 THEN <<>> ELSE Next1(f[m - 1], m)
    <3>1. CASE m = 0
      BY <3>1, <1>1, <2>2 DEF IsFold
    <3>2. CASE m # 0
      <4>1. m \in 1..n /\ m - 1 \in 0..n
        BY <3>2, <1>1
      <4>2. f[m - 1] \in Seq(S) /\ f[m] = g[m][f[m - 1]]
        BY <4>1, <3>2, <2>2 DEF IsFold
      <4> HIDE DEF Next1
      <4>3. QED
        BY <4>1, <4>2, <3>2, <2>1
    <3>3. QED
      BY <3>1, <3>2
  <2>4. Is(f)
    BY <2>2, <2>3 DEF IsFold
  <2>5. QED
    BY <2>4
<1>5. Is(due)
  BY <1>4
<1> HIDE DEF due
<1>6. due[n] \in Seq(S)
  <2>1. due[0] = <<>>
    BY <1>1, <1>5
  <2>2. ASSUME NEW m \in 1..n, due[m - 1] \in Seq(S) PROVE due[m] \in Seq(S)
    <3>1. m \in 0..n /\ m # 0
      BY <1>1
    <3>2. due[m] = Next1(due[m - 1], m)
      BY <3>1, <1>5
    <3>3. QED
      BY <3>2, <2>2, <1>3
  <2>3. QED
    BY <2>1, <2>2, <1>1, <1>2, FoldStays
<1>7. Due(buf, expired) = due[n]
  BY DEF Due, due
<1>8. QED
  BY <1>6, <1>7

LEMMA PackIs ==
  ASSUME NEW S, NEW dgrams \in Seq(Seq(S)), NEW seg \in S
  PROVE  Pack(dgrams, seg) \in Seq(Seq(S))
<1>1. <<seg>> \in Seq(S)
  OBVIOUS
<1>2. CASE dgrams # <<>>
  <2>1. Last(dgrams) \in Seq(S) /\ Front(dgrams) \in Seq(Seq(S))
    BY <1>2 DEF Last, Front
  <2>2. Append(Last(dgrams), seg) \in Seq(S)
    BY <2>1
  <2>3. Append(Front(dgrams), Append(Last(dgrams), seg)) \in Seq(Seq(S))
    BY <2>1, <2>2
  <2>4. QED
    BY <1>1, <2>3 DEF Pack
<1>3. CASE dgrams = <<>>
  BY <1>1, <1>3 DEF Pack
<1>4. QED
  BY <1>2, <1>3

\* The datagrams hold the segments and nothing else.
LEMMA DatagramsIs ==
  ASSUME NEW S, NEW segs \in Seq(S)
  PROVE  Datagrams(segs) \in Seq(Seq(S))
<1> DEFINE n == Len(segs)
           T == Seq(Seq(S))
           Is(f) == f = [m \in 0..n |-> IF m = 0 THEN <<>> ELSE Pack(f[m - 1], segs[m])]
           packed == CHOOSE f : Is(f)
<1>1. n \in Nat /\ \A m \in 1..n : segs[m] \in S
  OBVIOUS
<1>2. <<>> \in T
  OBVIOUS
<1>3. ASSUME NEW m \in 1..n, NEW s \in T PROVE Pack(s, segs[m]) \in T
  BY <1>1, PackIs
<1> HIDE DEF T
<1>4. \E f : Is(f)
  <2> DEFINE g == [m \in 1..n |-> [s \in T |-> Pack(s, segs[m])]]
  <2>1. /\ g \in [1..n -> [T -> T]]
        /\ \A m \in 1..n, s \in T : g[m][s] = Pack(s, segs[m])
    BY <1>3
  <2> HIDE DEF g
  <2>2. PICK f : IsFold(f, T, <<>>, n, g)
    BY <2>1, <1>1, <1>2, FoldExists
  <2>3. ASSUME NEW m \in 0..n PROVE f[m] = IF m = 0 THEN <<>> ELSE Pack(f[m - 1], segs[m])
    <3>1. CASE m = 0
      BY <3>1, <1>1, <2>2 DEF IsFold
    <3>2. CASE m # 0
      <4>1. m \in 1..n /\ m - 1 \in 0..n
        BY <3>2, <1>1
      <4>2. f[m - 1] \in T /\ f[m] = g[m][f[m - 1]]
        BY <4>1, <3>2, <2>2 DEF IsFold
      <4>3. QED
        BY <4>1, <4>2, <3>2, <2>1
    <3>3. QED
      BY <3>1, <3>2
  <2>4. Is(f)
    BY <2>2, <2>3 DEF IsFold
  <2>5. QED
    BY <2>4
<1>5. Is(packed)
  BY <1>4
<1> HIDE DEF packed
<1>6. packed[n] \in T
  <2>1. packed[0] = <<>>
    BY <1>1, <1>5
  <2>2. ASSUME NEW m \in 1..n, packed[m - 1] \in T PROVE packed[m] \in T
    <3>1. m \in 0..n /\ m # 0
      BY <1>1
    <3>2. packed[m] = Pack(packed[m - 1], segs[m])
      BY <3>1, <1>5
    <3>3. QED
      BY <3>2, <2>2, <1>3
  <2>3. QED
    BY <2>1, <2>2, <1>1, <1>2, FoldStays
<1>7. Datagrams(segs) = packed[n]
  BY DEF Datagrams, packed
<1>8. QED
  BY <1>6, <1>7 DEF T

\* Two buffers, one after the other.
LEMMA BufferConcat ==
  ASSUME NEW S, NEW buf \in Seq(S), NEW new \in Seq(S), NEW F,
         NEW a \in Int, NEW b \in Int, NEW c \in Int, a <= b, b <= c,
         Between(buf, a, b), InOrder(buf), Carries(buf, F),
         Between(new, b, c), InOrder(new), Carries(new, F),
         \A i \in DOMAIN buf : Pos(buf[i].sn) \in Int,
         \A i \in DOMAIN new : Pos(new[i].sn) \in Int
  PROVE  LET t == buf \o new
         IN  /\ t \in Seq(S) /\ Between(t, a, c) /\ InOrder(t) /\ Carries(t, F)
             /\ \A sn : Has(t, sn) <=> Has(buf, sn) \/ Has(new, sn)
<1> DEFINE t == buf \o new
           n == Len(buf)
<1>1. /\ t \in Seq(S) /\ Len(t) = n + Len(new)
      /\ \A i \in 1..n : t[i] = buf[i]
      /\ \A i \in n + 1..n + Len(new) : t[i] = new[i - n]
  BY ConcatIs
<1>2. /\ n \in Nat /\ Len(new) \in Nat /\ DOMAIN t = 1..n + Len(new)
      /\ DOMAIN buf = 1..n /\ DOMAIN new = 1..Len(new)
  BY <1>1
<1> HIDE DEF t, n
<1>3. ASSUME NEW i \in DOMAIN t
      PROVE  \/ i \in DOMAIN buf /\ t[i] = buf[i]
             \/ i > n /\ i - n \in DOMAIN new /\ t[i] = new[i - n]
  <2>1. CASE i <= n
    <3>1. i \in 1..n
      BY <2>1, <1>2
    <3>2. QED
      BY <3>1, <1>1, <1>2
  <2>2. CASE ~(i <= n)
    <3>1. i \in n + 1..n + Len(new) /\ i - n \in 1..Len(new) /\ i > n
      BY <2>2, <1>2
    <3>2. QED
      BY <3>1, <1>1, <1>2
  <2>3. QED
    BY <2>1, <2>2
<1>4. \A i \in DOMAIN buf : i \in DOMAIN t /\ t[i] = buf[i] /\ i <= n
  BY <1>1, <1>2
<1>5. ASSUME NEW i \in DOMAIN new PROVE n + i \in DOMAIN t /\ t[n + i] = new[i]
  <2>1. n + i \in n + 1..n + Len(new) /\ (n + i) - n = i /\ n + i \in 1..n + Len(new)
    BY <1>2
  <2>2. QED
    BY <2>1, <1>1, <1>2
<1>6. Between(t, a, c)
  <2> SUFFICES ASSUME NEW i \in DOMAIN t PROVE a <= Pos(t[i].sn) /\ Pos(t[i].sn) < c
    BY DEF Between
  <2>1. CASE i \in DOMAIN buf /\ t[i] = buf[i]
    BY <2>1 DEF Between
  <2>2. CASE i - n \in DOMAIN new /\ t[i] = new[i - n]
    BY <2>2 DEF Between
  <2>3. QED
    BY <1>3, <2>1, <2>2
<1>7. InOrder(t)
  <2> SUFFICES ASSUME NEW i \in DOMAIN t, NEW j \in DOMAIN t, i < j
               PROVE  Pos(t[i].sn) < Pos(t[j].sn)
    BY DEF InOrder
  <2>1. CASE i \in DOMAIN buf /\ t[i] = buf[i] /\ j \in DOMAIN buf /\ t[j] = buf[j]
    BY <2>1 DEF InOrder
  <2>2. CASE i \in DOMAIN buf /\ t[i] = buf[i] /\ j - n \in DOMAIN new /\ t[j] = new[j - n]
    BY <2>2 DEF Between
  <2>3. CASE /\ i - n \in DOMAIN new /\ t[i] = new[i - n]
             /\ j - n \in DOMAIN new /\ t[j] = new[j - n]
    <3>1. i - n < j - n
      BY <1>2
    <3>2. QED
      BY <2>3, <3>1 DEF InOrder
  <2>4. CASE i > n /\ j \in DOMAIN buf
    BY <2>4, <1>2
  <2>5. QED
    BY <1>3, <2>1, <2>2, <2>3, <2>4
<1>8. Carries(t, F)
  BY <1>3 DEF Carries
<1>9. \A sn : Has(t, sn) <=> Has(buf, sn) \/ Has(new, sn)
  BY <1>3, <1>4, <1>5 DEF Has
<1>10. QED
  BY <1>1, <1>6, <1>7, <1>8, <1>9 DEF t

(***************************************************************************)
(* A flush and the pair of blocks.                                         *)
(***************************************************************************)
LEMMA ProbeTimerIs ==
  ASSUME NEW k \in ControlBlocks, NEW expired, NEW q, q = ProbeTimer(k, expired)
  PROVE  q \in ControlBlocks /\ SndSame(k, q) /\ RcvSame(k, q)
<1>1. k.probe \cup {"SEND"} \subseteq {"SEND", "TELL"}
  BY BlockFields
<1>2. \/ q = k
      \/ q = [k EXCEPT !.probe_wait = FALSE]
      \/ q = [k EXCEPT !.probe_wait = TRUE]
      \/ q = [k EXCEPT !.probe = k.probe \cup {"SEND"}]
  BY DEF ProbeTimer
<1>3. CASE q = k
  BY Zenon, <1>3 DEF SndSame, RcvSame
<1>4. CASE \/ q = [k EXCEPT !.probe_wait = FALSE]
           \/ q = [k EXCEPT !.probe_wait = TRUE]
  BY <1>4 DEF ControlBlocks, SndSame, RcvSame
<1>5. CASE q = [k EXCEPT !.probe = k.probe \cup {"SEND"}]
  BY <1>1, <1>5 DEF ControlBlocks, SndSame, RcvSame
<1>6. QED
  BY Zenon, <1>2, <1>3, <1>4, <1>5

\* The fragments that find room in both windows get numbers.
LEMMA FillWindowIs ==
  ASSUME NEW k \in ControlBlocks, NEW F, SndOK(k, F), NEW q, q = FillWindow(k)
  PROVE  /\ q.snd_queue \in Seq(Fragment) /\ q.snd_buf \in Seq(SegmentsNew)
         /\ q.snd_nxt \in SeqNumber /\ q.snd_una = k.snd_una
         /\ q = [k EXCEPT !.snd_queue = q.snd_queue, !.snd_buf = q.snd_buf,
                          !.snd_nxt = q.snd_nxt]
         /\ SndOK(q, F)
         /\ Pos(k.snd_nxt) <= Pos(q.snd_nxt)
         /\ Pos(q.snd_nxt) + Len(q.snd_queue) = Pos(k.snd_nxt) + Len(k.snd_queue)
         /\ \A sn \in SeqNumber :
              Pos(sn) < Pos(q.snd_nxt) =>
                 Has(q.snd_buf, sn) \/ (Pos(sn) < Pos(k.snd_nxt) /\ ~Has(k.snd_buf, sn))
<1> DEFINE cwnd == Min({SndWnd, k.rmt_wnd})
           room == cwnd - Diff(k.snd_nxt, k.snd_una)
           queue == k.snd_queue
           n == Max({0, Min({room, Len(queue)})})
           new == [i \in 1..n |-> [sn |-> Plus(k.snd_nxt, i - 1), data |-> queue[i],
                                   fastack |-> FALSE, xmit |-> 0]]
           buf == k.snd_buf
           queue1 == SubSeq(queue, n + 1, Len(queue))
           buf1 == buf \o new
           nxt1 == Plus(k.snd_nxt, n)
           a == Pos(k.snd_una)
           b == Pos(k.snd_nxt)
<1>1. q = [k EXCEPT !.snd_queue = queue1, !.snd_buf = buf1, !.snd_nxt = nxt1]
  BY DEF FillWindow
<1>2. /\ queue \in Seq(Fragment) /\ Len(queue) \in Nat /\ DOMAIN queue = 1..Len(queue)
      /\ k.snd_nxt \in SeqNumber /\ k.snd_una \in SeqNumber /\ a \in Nat /\ b \in Nat
      /\ a <= b /\ b <= a + SndWnd /\ b + Len(queue) <= Limit
      /\ Between(buf, a, b) /\ InOrder(buf) /\ Carries(buf, F) /\ Follows(queue, b, F)
      /\ \A i \in DOMAIN buf : Pos(buf[i].sn) \in Int
  BY BlockFields DEF SndOK
<1>3. buf \in Seq(SegmentsNew)
  <2>1. buf \in Seq(SegmentsOut)
    BY BlockFields
  <2>2. SegmentsOut \subseteq SegmentsNew
    BY SizesAssumption DEF SegmentsOut, SegmentsNew
  <2>3. QED
    BY <2>1, <2>2
<1>4. n \in 0..Len(queue) /\ (n > 0 => b + n <= a + SndWnd)
  <2>1. cwnd \in Nat /\ cwnd <= SndWnd
    <3>1. k.rmt_wnd \in Nat /\ SndWnd \in Nat
      BY BlockFields, HalfIs
    <3>2. cwnd = IF SndWnd <= k.rmt_wnd THEN SndWnd ELSE k.rmt_wnd
      BY <3>1, MinTwo
    <3>3. QED
      BY <3>1, <3>2
  <2>2. Diff(k.snd_nxt, k.snd_una) = b - a
    BY <1>2, DiffPos, HalfIs
  <2> HIDE DEF cwnd, a, b
  <2>3. room \in Int /\ room <= SndWnd - (b - a)
    <3>1. cwnd \in Int /\ a \in Int /\ b \in Int /\ SndWnd \in Int /\ room = cwnd - (b - a)
      BY <2>1, <2>2, <1>2, HalfIs
    <3> HIDE DEF room
    <3>2. QED
      BY <2>1, <3>1
  <2> HIDE DEF room, queue
  <2>4. Min({room, Len(queue)}) = IF room <= Len(queue) THEN room ELSE Len(queue)
    BY <2>3, <1>2, MinTwo
  <2> DEFINE m == Min({room, Len(queue)})
  <2>5. m \in Int /\ m <= room /\ m <= Len(queue)
    BY <2>3, <2>4, <1>2
  <2> HIDE DEF m
  <2>6. n = IF 0 >= m THEN 0 ELSE m
    <3>1. n = Max({0, m})
      BY DEF m
    <3> HIDE DEF n
    <3>2. QED
      BY <2>5, <3>1, MaxTwo
  <2>7. QED
    BY <2>3, <2>5, <2>6, <1>2, HalfIs
<1> HIDE DEF n, cwnd, room
<1>5. ASSUME NEW i \in 1..n
      PROVE  /\ Plus(k.snd_nxt, i - 1) \in SeqNumber
             /\ Pos(Plus(k.snd_nxt, i - 1)) = b + (i - 1)
  <2>1. n \in Nat /\ n <= Len(queue) /\ b + Len(queue) < Modulus
    BY <1>2, <1>4, HalfIs
  <2> HIDE DEF b, queue
  <2>2. i - 1 \in Nat /\ b + (i - 1) < Modulus
    BY <2>1, <1>2, HalfIs
  <2>3. QED
    BY <2>2, <1>2, PosPlus DEF b
<1>6. nxt1 \in SeqNumber /\ Pos(nxt1) = b + n
  <2>1. n \in Nat /\ b + n < Modulus
    BY <1>2, <1>4, HalfIs
  <2>2. QED
    BY <2>1, <1>2, PosPlus
<1>7. /\ new \in Seq(SegmentsNew) /\ Len(new) = n /\ DOMAIN new = 1..n
      /\ \A i \in 1..n : /\ new[i].sn = Plus(k.snd_nxt, i - 1)
                         /\ Pos(new[i].sn) = b + (i - 1)
                         /\ new[i].data = queue[i]
  <2>1. ASSUME NEW i \in 1..n
        PROVE  new[i] \in SegmentsNew /\ new[i].sn = Plus(k.snd_nxt, i - 1)
               /\ new[i].data = queue[i]
    <3>1. queue[i] \in Fragment /\ 0 \in 0..FastLimit + 1
      BY <1>2, <1>4, SizesAssumption
    <3>2. new[i] = [sn |-> Plus(k.snd_nxt, i - 1), data |-> queue[i],
                    fastack |-> FALSE, xmit |-> 0]
      OBVIOUS
    <3>3. QED
      BY <3>1, <3>2, <1>5 DEF SegmentsNew
  <2>2. DOMAIN new = 1..n /\ n \in Nat /\ new = [i \in 1..n |-> new[i]]
    BY <1>4
  <2> HIDE DEF new
  <2>3. new \in Seq(SegmentsNew) /\ Len(new) = n
    <3>1. \A i \in 1..n : new[i] \in SegmentsNew
      BY <2>1
    <3>2. QED
      BY <2>2, <3>1
  <2>4. QED
    BY <2>1, <2>2, <2>3, <1>5
<1> HIDE DEF new, queue, buf, a, b, nxt1
<1>8. /\ Between(new, b, b + n) /\ InOrder(new) /\ Carries(new, F)
      /\ \A i \in DOMAIN new : Pos(new[i].sn) \in Int
  <2>1. \A i \in DOMAIN new : Pos(new[i].sn) = b + (i - 1) /\ i \in Nat /\ i >= 1 /\ i <= n
    BY <1>4, <1>7
  <2>2. Between(new, b, b + n) /\ InOrder(new)
    BY <2>1, <1>2, <1>4 DEF Between, InOrder
  <2>3. ASSUME NEW i \in DOMAIN new PROVE new[i].data = F[Pos(new[i].sn)]
    <3>1. i \in 1..n /\ i \in DOMAIN queue
      BY <1>2, <1>4, <1>7
    <3>2. new[i].data = queue[i] /\ queue[i] = F[b + i - 1] /\ b + i - 1 = b + (i - 1)
      BY <3>1, <1>2, <1>7 DEF Follows
    <3>3. QED
      BY <3>1, <3>2, <1>7
  <2>4. QED
    BY <2>1, <2>2, <2>3, <1>2 DEF Carries
<1>9. /\ buf1 \in Seq(SegmentsNew) /\ Between(buf1, a, b + n) /\ InOrder(buf1)
      /\ Carries(buf1, F)
      /\ \A sn : Has(buf1, sn) <=> Has(buf, sn) \/ Has(new, sn)
  <2>1. a \in Int /\ b \in Int /\ b + n \in Int /\ b <= b + n
    BY <1>2, <1>4
  <2> DEFINE c == b + n
  <2>2. c \in Int /\ b <= c /\ Between(new, b, c)
    BY <2>1, <1>8
  <2> HIDE DEF c
  <2>3. /\ buf1 \in Seq(SegmentsNew) /\ Between(buf1, a, c) /\ InOrder(buf1)
        /\ Carries(buf1, F)
        /\ \A sn : Has(buf1, sn) <=> Has(buf, sn) \/ Has(new, sn)
    BY <1>2, <1>3, <1>7, <1>8, <2>1, <2>2, BufferConcat
  <2>4. QED
    BY <2>3 DEF c
<1>10. /\ queue1 \in Seq(Fragment) /\ Len(queue1) = Len(queue) - n
       /\ \A i \in 1..Len(queue) - n : queue1[i] = queue[n + i]
  BY <1>2, <1>4, CutIs
<1>11. Follows(queue1, b + n, F)
  <2> SUFFICES ASSUME NEW i \in 1..Len(queue) - n
               PROVE  queue1[i] = F[(b + n) + i - 1]
    BY <1>10 DEF Follows
  <2>1. n + i \in 1..Len(queue) /\ b + (n + i) - 1 = (b + n) + i - 1
    BY <1>2, <1>4
  <2>2. queue[n + i] = F[b + (n + i) - 1]
    BY <2>1, <1>2 DEF Follows
  <2>3. QED
    BY <2>1, <2>2, <1>10
<1> HIDE DEF buf1, queue1
<1>12. /\ q.snd_queue = queue1 /\ q.snd_buf = buf1 /\ q.snd_nxt = nxt1
       /\ q.snd_una = k.snd_una
  BY <1>1 DEF ControlBlocks
<1>13. /\ a <= b + n /\ b + n <= a + SndWnd /\ (b + n) + Len(queue1) = b + Len(queue)
       /\ b <= b + n
  BY <1>2, <1>4, <1>10, HalfIs
<1>14. SndOK(q, F)
  <2>1. Pos(q.snd_una) = a /\ Pos(q.snd_nxt) = b + n
    BY <1>6, <1>12 DEF a
  <2>2. (b + n) + Len(queue1) <= Limit
    BY <1>2, <1>13
  <2>3. QED
    BY <2>1, <2>2, <1>9, <1>11, <1>12, <1>13 DEF SndOK
<1>15. ASSUME NEW sn \in SeqNumber, Pos(sn) < Pos(q.snd_nxt)
       PROVE  Has(q.snd_buf, sn) \/ (Pos(sn) < b /\ ~Has(buf, sn))
  <2>1. Pos(sn) \in Nat /\ Pos(sn) < b + n
    BY <1>6, <1>12, <1>15, PosType
  <2>2. CASE Pos(sn) < b
    BY <2>2, <1>9, <1>12
  <2>3. CASE ~(Pos(sn) < b)
    <3> DEFINE i == (Pos(sn) - b) + 1
    <3>1. i \in 1..n /\ Pos(sn) = b + (i - 1)
      BY <2>1, <2>3, <1>2, <1>4
    <3> HIDE DEF i
    <3>2. i \in DOMAIN new /\ new[i].sn \in SeqNumber /\ Pos(new[i].sn) = Pos(sn)
      BY <3>1, <1>5, <1>7
    <3>3. new[i].sn = sn
      BY <3>2, PosInjective
    <3>4. Has(new, sn)
      BY <3>2, <3>3 DEF Has
    <3>5. QED
      BY <3>4, <1>9, <1>12
  <2>4. QED
    BY <2>2, <2>3
<1>16. QED
  BY <1>1, <1>6, <1>9, <1>10, <1>12, <1>13, <1>14, <1>15 DEF a, b, buf, queue

LEMMA ResentIs ==
  ASSUME NEW seg \in SegmentsNew, NEW expired
  PROVE  /\ Resent(seg, expired).sn = seg.sn /\ Resent(seg, expired).data = seg.data
         /\ Resent(seg, expired) \in SegmentsOut
<1> DEFINE s == Resent(seg, expired)
<1>1. /\ seg.sn \in SeqNumber /\ seg.data \in Fragment /\ seg.fastack \in BOOLEAN
      /\ seg.xmit \in 0..FastLimit + 1 /\ FastLimit \in Nat
  BY SizesAssumption DEF SegmentsNew
<1>2. CASE ~NeedSend(seg, expired)
  <2>1. s = seg /\ seg.xmit # 0
    BY <1>2 DEF Resent, NeedSend
  <2>2. seg.xmit \in 1..FastLimit + 1
    BY <2>1, <1>1
  <2>3. seg \in SegmentsOut
    BY <2>2 DEF SegmentsNew, SegmentsOut
  <2>4. QED
    BY <2>1, <2>3
<1>3. CASE NeedSend(seg, expired)
  <2> DEFINE x == Min({seg.xmit + 1, FastLimit + 1})
             y == seg.fastack /\ (seg.xmit = 0 \/ seg.sn \in expired)
  <2>1. s = [seg EXCEPT !.xmit = x, !.fastack = y]
    BY <1>3 DEF Resent
  <2>2. x \in 1..FastLimit + 1
    <3>1. x = IF seg.xmit + 1 <= FastLimit + 1 THEN seg.xmit + 1 ELSE FastLimit + 1
      BY <1>1, MinTwo
    <3>2. QED
      BY <3>1, <1>1
  <2>3. y \in BOOLEAN
    OBVIOUS
  <2> HIDE DEF x, y, s
  <2>4. s \in SegmentsOut /\ s.sn = seg.sn /\ s.data = seg.data
    BY <2>1, <2>2, <2>3 DEF SegmentsNew, SegmentsOut
  <2>5. QED
    BY <2>4 DEF s
<1>4. QED
  BY <1>2, <1>3

LEMMA FlushIs ==
  ASSUME NEW k \in ControlBlocks, NEW F, SndOK(k, F), AcksOK(k),
         Len(k.rcv_queue) <= RcvWnd, NEW expired, NEW probe_expired
  PROVE  LET f == ikcp_flush(k, expired, probe_expired)
         IN  Flushed(k, f.k, F) /\ f.out \in Seq(Seq(Valid(f.k, F)))
<1> DEFINE f == ikcp_flush(k, expired, probe_expired)
           kp == ProbeTimer(k, probe_expired)
           k1 == FillWindow(kp)
           probe == kp.probe
           acks == [i \in DOMAIN k.acklist |-> Segment(k, "ACK", k.acklist[i], NoData)]
           Cmd(ask, cmd) == IF ask \in probe THEN <<Segment(k, cmd, 0, NoData)>> ELSE <<>>
           due == Due(k1.snd_buf, expired)
           data == [i \in DOMAIN due |-> Segment(k, "PUSH", due[i].sn, due[i].data)]
           buf == [i \in DOMAIN k1.snd_buf |-> Resent(k1.snd_buf[i], expired)]
           q == [k1 EXCEPT !.acklist = <<>>, !.probe = {}, !.snd_buf = buf]
           V == Valid(q, F)
<1>1. CASE ~k.updated
  <2>1. f.k = k /\ f.out = <<>>
    BY <1>1 DEF ikcp_flush
  <2>2. Flushed(k, k, F)
    BY BlockFields DEF Flushed
  <2>3. QED
    BY <2>1, <2>2
<1>2. CASE k.updated
  <2>1. /\ f.k = q
        /\ f.out = Datagrams(acks \o Cmd("SEND", "WASK") \o Cmd("TELL", "WINS") \o data)
    BY <1>2 DEF ikcp_flush
  <2>2. kp \in ControlBlocks /\ SndSame(k, kp) /\ RcvSame(k, kp)
    BY ProbeTimerIs
  <2>3. SndOK(kp, F)
    BY <2>2, SameBlock
  <2> HIDE DEF kp
  <2>4. /\ k1.snd_queue \in Seq(Fragment) /\ k1.snd_buf \in Seq(SegmentsNew)
        /\ k1.snd_nxt \in SeqNumber /\ k1.snd_una = kp.snd_una
        /\ k1 = [kp EXCEPT !.snd_queue = k1.snd_queue, !.snd_buf = k1.snd_buf,
                           !.snd_nxt = k1.snd_nxt]
        /\ SndOK(k1, F)
        /\ Pos(kp.snd_nxt) <= Pos(k1.snd_nxt)
        /\ Pos(k1.snd_nxt) + Len(k1.snd_queue) = Pos(kp.snd_nxt) + Len(kp.snd_queue)
        /\ \A sn \in SeqNumber :
             Pos(sn) < Pos(k1.snd_nxt) =>
               Has(k1.snd_buf, sn) \/ (Pos(sn) < Pos(kp.snd_nxt) /\ ~Has(kp.snd_buf, sn))
    BY <2>2, <2>3, FillWindowIs
  <2> HIDE DEF k1
  <2>5. /\ buf \in Seq(SegmentsOut) /\ Len(buf) = Len(k1.snd_buf)
        /\ \A i \in DOMAIN k1.snd_buf :
             buf[i].sn = k1.snd_buf[i].sn /\ buf[i].data = k1.snd_buf[i].data
    <3> DEFINE old == k1.snd_buf
    <3>1. /\ Len(old) \in Nat /\ DOMAIN old = 1..Len(old)
          /\ \A i \in 1..Len(old) : old[i] \in SegmentsNew
      BY <2>4
    <3>2. buf = [i \in 1..Len(old) |-> Resent(old[i], expired)]
      BY <3>1
    <3> HIDE DEF old, buf
    <3>3. \A i \in 1..Len(old) : /\ Resent(old[i], expired) \in SegmentsOut
                                 /\ Resent(old[i], expired).sn = old[i].sn
                                 /\ Resent(old[i], expired).data = old[i].data
      BY <3>1, ResentIs
    <3>4. buf \in Seq(SegmentsOut) /\ Len(buf) = Len(old)
      BY <3>1, <3>2, <3>3
    <3>5. \A i \in 1..Len(old) : buf[i].sn = old[i].sn /\ buf[i].data = old[i].data
      BY <3>2, <3>3
    <3>6. QED
      BY <3>1, <3>4, <3>5 DEF old
  <2> HIDE DEF buf
  <2>6. /\ q \in ControlBlocks
        /\ q.snd_queue = k1.snd_queue /\ q.snd_buf = buf /\ q.snd_nxt = k1.snd_nxt
        /\ q.snd_una = kp.snd_una /\ q.acklist = <<>>
        /\ q.rcv_nxt = kp.rcv_nxt /\ q.rcv_buf = kp.rcv_buf /\ q.rcv_queue = kp.rcv_queue
    <3>1. q = [kp EXCEPT !.snd_queue = k1.snd_queue, !.snd_buf = buf, !.snd_nxt = k1.snd_nxt,
                         !.acklist = <<>>, !.probe = {}]
      BY <2>2, <2>4 DEF ControlBlocks
    <3> HIDE DEF q
    <3>2. <<>> \in Seq(SeqNumber) /\ {} \in SUBSET {"SEND", "TELL"}
      OBVIOUS
    <3>3. QED
      BY <3>1, <3>2, <2>2, <2>4, <2>5 DEF ControlBlocks
  <2> HIDE DEF q
  <2>7. /\ q.rcv_nxt = k.rcv_nxt /\ q.rcv_buf = k.rcv_buf /\ q.rcv_queue = k.rcv_queue
        /\ kp.snd_nxt = k.snd_nxt /\ kp.snd_queue = k.snd_queue /\ kp.snd_buf = k.snd_buf
    BY <2>2, <2>6 DEF SndSame, RcvSame
  <2>8. \A sn : Got(q, sn) <=> Got(k, sn)
    BY <2>7 DEF Got
  <2>9. /\ SndOK(q, F) /\ \A sn : Has(k1.snd_buf, sn) => Has(q.snd_buf, sn)
    <3> DEFINE a == Pos(k1.snd_una)
               b == Pos(k1.snd_nxt)
    <3>1. Between(k1.snd_buf, a, b) /\ InOrder(k1.snd_buf) /\ Carries(k1.snd_buf, F)
      BY <2>4 DEF SndOK
    <3>2. a \in Int /\ b \in Int
      BY <2>2, <2>4, BlockFields, PosType
    <3> HIDE DEF a, b
    <3>3. /\ Between(buf, a, b) /\ InOrder(buf) /\ Carries(buf, F)
          /\ \A sn : Has(k1.snd_buf, sn) => Has(buf, sn)
      BY <2>4, <2>5, <3>1, <3>2, BufferKept
    <3>4. q.snd_una = k1.snd_una
      BY <2>4, <2>6
    <3>5. QED
      BY <2>4, <2>6, <3>3, <3>4 DEF SndOK, a, b
  <2>10. Flushed(k, q, F)
    BY <2>4, <2>6, <2>7, <2>9 DEF Flushed, AcksOK
  <2>11. /\ k.rcv_nxt \in SeqNumber /\ ikcp_wnd_unused(k) \in 0..RcvWnd
         /\ Pos(k.rcv_nxt) \in Nat /\ Pos(k.rcv_nxt) <= Pos(q.rcv_nxt)
    BY <2>7, BlockFields, HalfIs DEF ikcp_wnd_unused
  <2>12. NoData \in Fragment /\ 0 \in SeqNumber
    BY HalfIs DEF NoData, Fragment, SeqNumber
  <2>13. ASSUME NEW cmd \in {"ACK", "PUSH", "WASK", "WINS"}, NEW sn \in SeqNumber,
                NEW d \in Fragment,
                cmd = "ACK" => Got(k, sn),
                cmd = "PUSH" => Pos(sn) < Pos(q.snd_nxt) /\ d = F[Pos(sn)]
         PROVE  Segment(k, cmd, sn, d) \in V
    <3> DEFINE s == Segment(k, cmd, sn, d)
    <3>1. s \in Segments /\ s.cmd = cmd /\ s.sn = sn /\ s.data = d /\ s.una = k.rcv_nxt
      BY <2>11 DEF Segment, Segments
    <3> HIDE DEF s
    <3>2. s \in V
      BY <3>1, <2>8, <2>11, <2>13 DEF Valid
    <3>3. QED
      BY <3>2 DEF s
  <2>14. acks \in Seq(V)
    <3> DEFINE l == k.acklist
    <3>1. Len(l) \in Nat /\ DOMAIN l = 1..Len(l) /\ \A i \in 1..Len(l) : l[i] \in SeqNumber
      BY BlockFields
    <3>2. \A i \in 1..Len(l) : Got(k, l[i])
      BY <3>1 DEF AcksOK
    <3>3. acks = [i \in 1..Len(l) |-> Segment(k, "ACK", l[i], NoData)]
      BY <3>1
    <3> HIDE DEF l, acks, V
    <3>4. \A i \in 1..Len(l) : Segment(k, "ACK", l[i], NoData) \in V
      BY <3>1, <3>2, <2>12, <2>13
    <3>5. QED
      BY <3>1, <3>3, <3>4
  <2>15. Cmd("SEND", "WASK") \in Seq(V) /\ Cmd("TELL", "WINS") \in Seq(V)
    <3> HIDE DEF V
    <3>1. Segment(k, "WASK", 0, NoData) \in V /\ Segment(k, "WINS", 0, NoData) \in V
      BY <2>12, <2>13
    <3>2. QED
      BY <3>1
  <2>16. data \in Seq(V)
    <3> DEFINE D == {s \in SegmentsNew : Pos(s.sn) < Pos(q.snd_nxt) /\ s.data = F[Pos(s.sn)]}
    <3>1. ASSUME NEW i \in DOMAIN k1.snd_buf PROVE k1.snd_buf[i] \in D
      <4>1. k1.snd_buf[i] \in SegmentsNew
        BY <2>4
      <4>2. QED
        BY <4>1, <2>4, <2>6 DEF SndOK, Between, Carries
    <3>2. k1.snd_buf \in Seq(D)
      BY <2>4, <3>1
    <3>3. due \in Seq(D)
      BY <3>2, DueIs
    <3> HIDE DEF due, V
    <3>4. ASSUME NEW s \in D PROVE Segment(k, "PUSH", s.sn, s.data) \in V
      BY <2>13 DEF SegmentsNew
    <3> HIDE DEF D
    <3>5. Len(due) \in Nat /\ DOMAIN due = 1..Len(due) /\ \A i \in 1..Len(due) : due[i] \in D
      BY <3>3
    <3>6. data = [i \in 1..Len(due) |-> Segment(k, "PUSH", due[i].sn, due[i].data)]
      BY <3>5
    <3> HIDE DEF data
    <3>7. \A i \in 1..Len(due) : Segment(k, "PUSH", due[i].sn, due[i].data) \in V
      BY <3>4, <3>5
    <3>8. QED
      BY <3>5, <3>6, <3>7
  <2> HIDE DEF acks, Cmd, data, V
  <2>17. f.out \in Seq(Seq(V))
    <3>1. acks \o Cmd("SEND", "WASK") \o Cmd("TELL", "WINS") \o data \in Seq(V)
      BY <2>14, <2>15, <2>16
    <3>2. QED
      BY <2>1, <3>1, DatagramsIs
  <2>18. QED
    BY <2>1, <2>10, <2>17 DEF V
<1>3. QED
  BY <1>1, <1>2

\* The peer of a block that was flushed has lost nothing.
LEMMA FlushedPair ==
  ASSUME NEW k, NEW p, NEW F, NEW G, Pair(k, p, F, G), NEW q, Flushed(k, q, F)
  PROVE  Pair(q, p, F, G)
<1>1. /\ q \in ControlBlocks /\ SndOK(q, F) /\ AcksOK(q)
      /\ q.rcv_nxt = k.rcv_nxt /\ q.rcv_buf = k.rcv_buf /\ q.rcv_queue = k.rcv_queue
      /\ Pos(k.snd_nxt) <= Pos(q.snd_nxt)
  BY DEF Flushed, Pair
<1>2. RcvOK(q, G, Pos(p.snd_nxt)) /\ \A sn : Got(k, sn) <=> Got(q, sn)
  BY <1>1 DEF Pair, RcvOK, Got
<1>3. RcvOK(p, F, Pos(q.snd_nxt))
  <2>1. RcvOK(p, F, Pos(k.snd_nxt)) /\ p \in ControlBlocks /\ k \in ControlBlocks
    BY DEF Pair
  <2>2. /\ Pos(p.rcv_nxt) \in Nat /\ Pos(k.snd_nxt) \in Nat /\ Pos(q.snd_nxt) \in Nat
        /\ \A i \in DOMAIN p.rcv_buf : Pos(p.rcv_buf[i].sn) \in Nat
    BY <1>1, <2>1, BlockFields
  <2>3. Between(p.rcv_buf, Pos(p.rcv_nxt), Pos(q.snd_nxt)) /\ Pos(p.rcv_nxt) <= Pos(q.snd_nxt)
    BY <1>1, <2>1, <2>2 DEF RcvOK, Between
  <2>4. QED
    BY <2>1, <2>3 DEF RcvOK
<1>4. NoneLost(p, q)
  BY <1>2 DEF Pair, NoneLost
<1>5. NoneLost(q, p)
  BY DEF Flushed, Pair, NoneLost
<1>6. QED
  BY <1>1, <1>2, <1>3, <1>4, <1>5 DEF Pair

(***************************************************************************)
(* Messages and the stream of their fragments.                             *)
(***************************************************************************)
LEMMA NextInside ==
  ASSUME NEW n \in Nat, NEW i \in 1..n
  PROVE  i \in Nat /\ i \in 1..n + 1 /\ i + 1 \in 1..n + 1
OBVIOUS

LEMMA StreamAt ==
  ASSUME NEW messages \in Seq(Seq(Fragment)), NEW first \in Seq(Nat),
         Laid(messages, first), NEW m \in DOMAIN messages, NEW a \in Nat,
         first[m] <= a, a < first[m + 1]
  PROVE  Fragm(messages, first, a) = messages[m][a - first[m] + 1]
<1> DEFINE Is(i) == first[i] <= a /\ a < first[i] + Len(messages[i])
<1>1. /\ DOMAIN messages = 1..Len(messages) /\ Len(messages) \in Nat
      /\ DOMAIN first = 1..Len(messages) + 1
      /\ \A i \in DOMAIN first : first[i] \in Nat
      /\ \A i \in DOMAIN messages : first[i + 1] = first[i] + Len(messages[i])
      /\ \A i, j \in DOMAIN first : i < j => first[i] < first[j]
  <2>1. DOMAIN messages = 1..Len(messages) /\ Len(messages) \in Nat
        /\ DOMAIN first = 1..Len(first) /\ \A i \in DOMAIN first : first[i] \in Nat
    OBVIOUS
  <2>2. /\ Len(first) = Len(messages) + 1
        /\ \A i \in DOMAIN messages : first[i + 1] = first[i] + Len(messages[i])
        /\ \A i, j \in DOMAIN first : i < j => first[i] < first[j]
    BY DEF Laid
  <2>3. QED
    BY <2>1, <2>2
<1>2. Is(m)
  BY <1>1
<1>3. ASSUME NEW i \in DOMAIN messages, Is(i) PROVE i = m
  <2>1. i \in Nat /\ m \in Nat /\ i + 1 \in DOMAIN first /\ m + 1 \in DOMAIN first
        /\ i \in DOMAIN first /\ m \in DOMAIN first
    <3>1. i \in 1..Len(messages) /\ m \in 1..Len(messages) /\ Len(messages) \in Nat
      BY <1>1
    <3> DEFINE all == Len(messages)
    <3>2. /\ i \in Nat /\ m \in Nat
          /\ i + 1 \in 1..all + 1 /\ m + 1 \in 1..all + 1
          /\ i \in 1..all + 1 /\ m \in 1..all + 1
      <4>1. i \in 1..all /\ m \in 1..all /\ all \in Nat
        BY Zenon, <3>1
      <4> HIDE DEF all
      <4>2. QED
        BY Zenon, <4>1, NextInside
    <3> HIDE DEF all
    <3>3. DOMAIN first = 1..all + 1
      BY Zenon, <1>1 DEF all
    <3>4. QED
      BY Zenon, <3>2, <3>3
  <2>2. first[i] <= a /\ a < first[i + 1]
    BY <1>1, <1>3
  <2>3. \A x \in DOMAIN first : first[x] \in Nat
    BY <1>1
  <2>4. \A x, y \in DOMAIN first : x < y => first[x] < first[y]
    BY <1>1
  <2>5. ASSUME NEW x \in Nat, NEW y \in Nat, x \in DOMAIN first, y \in DOMAIN first,
               x + 1 \in DOMAIN first, first[y] <= a, a < first[x + 1]
        PROVE  ~(x < y)
    <3> DEFINE fx == first[x + 1]
               fy == first[y]
    <3>1. fx \in Nat /\ fy \in Nat /\ fy <= a /\ a < fx
      BY Zenon, <2>3, <2>5
    <3>2. x + 1 < y => fx < fy
      BY Zenon, <2>4, <2>5
    <3>3. x + 1 = y => fx = fy
      OBVIOUS
    <3> HIDE DEF fx, fy
    <3>4. ~(x + 1 < y) /\ ~(x + 1 = y)
      BY <3>1, <3>2, <3>3
    <3>5. QED
      BY <3>4
  <2>6. ~(i < m)
    BY Zenon, <2>1, <2>2, <2>5
  <2>7. first[m] <= a /\ a < first[m + 1]
    OBVIOUS
  <2>8. ~(m < i)
    BY Zenon, <2>1, <2>2, <2>5, <2>7
  <2>9. QED
    BY <2>1, <2>6, <2>8
<1> DEFINE c == CHOOSE i \in DOMAIN messages : Is(i)
<1>4. c = m
  BY <1>2, <1>3
<1>5. Fragm(messages, first, a) = messages[c][a - first[c] + 1]
  BY DEF Fragm
<1>6. QED
  BY <1>4, <1>5

LEMMA StreamFind ==
  ASSUME NEW messages \in Seq(Seq(Fragment)), NEW first \in Seq(Nat),
         Laid(messages, first), NEW a \in Nat, a < Last(first)
  PROVE  \E m \in DOMAIN messages : first[m] <= a /\ a < first[m + 1]
<1>1. /\ DOMAIN messages = 1..Len(messages) /\ Len(messages) \in Nat
      /\ DOMAIN first = 1..Len(messages) + 1 /\ first[1] = 0
      /\ \A i \in DOMAIN first : first[i] \in Nat
      /\ Last(first) = first[Len(messages) + 1]
  BY DEF Laid, Last
<1> DEFINE T == {i \in DOMAIN first : a < first[i]}
<1>2. T \in SUBSET Nat /\ T # {}
  <2>1. T \in SUBSET Nat
    BY <1>1
  <2>2. Len(messages) + 1 \in 1..Len(messages) + 1
    BY <1>1
  <2>3. Len(messages) + 1 \in T
    BY Zenon, <1>1, <2>2
  <2>4. QED
    BY Zenon, <2>1, <2>3
<1>3. PICK j \in T : \A i \in T : j <= i
  BY <1>2, Smallest
<1>4. j \in DOMAIN first /\ a < first[j] /\ j # 1
  BY <1>1, <1>3
<1>5. j - 1 \in DOMAIN messages /\ j - 1 \in DOMAIN first /\ (j - 1) + 1 = j
  BY <1>1, <1>4
<1>6. j - 1 \notin T
  BY <1>1, <1>3, <1>4
<1>7. first[j - 1] <= a
  BY <1>1, <1>5, <1>6
<1>8. QED
  BY <1>4, <1>5, <1>7

\* A message more: the stream grows at its end.
LEMMA StreamAppend ==
  ASSUME NEW messages \in Seq(Seq(Fragment)), NEW first \in Seq(Nat),
         Laid(messages, first), NEW n \in Fragments
  PROVE  LET msg == Message(Len(messages) + 1, n)
             messages2 == Append(messages, msg)
             first2 == Append(first, Last(first) + n)
         IN  /\ msg \in Seq(Fragment) /\ Len(msg) = n
             /\ messages2 \in Seq(Seq(Fragment)) /\ first2 \in Seq(Nat)
             /\ Laid(messages2, first2) /\ Last(first2) = Last(first) + n
             /\ Last(first) \in Nat
             /\ \A i \in 1..n : Fragm(messages2, first2, Last(first) + i - 1) = msg[i]
             /\ \A a \in Nat :
                  a < Last(first) => Fragm(messages2, first2, a) = Fragm(messages, first, a)
<1> DEFINE l == Len(messages)
           top == Last(first)
           msg == Message(Len(messages) + 1, n)
           messages2 == Append(messages, msg)
           first2 == Append(first, Last(first) + n)
<1>1. /\ DOMAIN messages = 1..l /\ l \in Nat /\ Len(first) = l + 1
      /\ DOMAIN first = 1..l + 1 /\ first[1] = 0
      /\ \A i \in DOMAIN first : first[i] \in Nat
      /\ \A i \in DOMAIN messages :
           /\ Len(messages[i]) \in Fragments /\ messages[i] = Message(i, Len(messages[i]))
           /\ first[i + 1] = first[i] + Len(messages[i])
      /\ \A i, j \in DOMAIN first : i < j => first[i] < first[j]
      /\ top = first[l + 1]
  BY DEF Laid, Last
<1>2. n \in Nat /\ n >= 1 /\ n < RcvWnd /\ top \in Nat
  BY <1>1, HalfIs DEF Fragments
<1>3. msg \in Seq(Fragment) /\ Len(msg) = n
  <2>1. \A i \in 1..n : [id |-> l + 1, frg |-> n - i] \in Fragment
    BY <1>1, <1>2, HalfIs DEF Fragment
  <2>2. msg = [i \in 1..n |-> [id |-> l + 1, frg |-> n - i]]
    BY DEF Message
  <2> HIDE DEF l, msg
  <2>3. msg \in [1..n -> Fragment]
    BY <2>1, <2>2
  <2>4. QED
    BY <1>2, <2>3
<1> HIDE DEF msg
<1>4. /\ messages2 \in Seq(Seq(Fragment)) /\ Len(messages2) = l + 1
      /\ messages2[l + 1] = msg /\ \A i \in 1..l : messages2[i] = messages[i]
  BY <1>1, <1>3
<1> HIDE DEF top, messages2
<1>5. /\ first2 \in Seq(Nat) /\ Len(first2) = l + 2
      /\ first2[l + 2] = top + n /\ \A i \in 1..l + 1 : first2[i] = first[i]
  BY <1>1, <1>2 DEF top
<1> HIDE DEF l, first2
<1>6. Laid(messages2, first2)
  <2>1. Len(first2) = Len(messages2) + 1 /\ first2[1] = 0
    BY <1>1, <1>4, <1>5
  <2>2. ASSUME NEW i \in DOMAIN messages2
        PROVE  /\ Len(messages2[i]) \in Fragments
               /\ messages2[i] = Message(i, Len(messages2[i]))
               /\ first2[i + 1] = first2[i] + Len(messages2[i])
    <3>1. i \in 1..l + 1
      BY <1>4
    <3>2. CASE i = l + 1
      <4>1. messages2[i] = msg /\ first2[i + 1] = top + n /\ first2[i] = top
        BY <3>2, <1>1, <1>4, <1>5
      <4>2. msg = Message(i, n)
        BY <3>2 DEF l, msg
      <4>3. QED
        BY <4>1, <4>2, <1>3
    <3>3. CASE i # l + 1
      <4>1. i \in 1..l /\ i \in DOMAIN messages /\ i \in 1..l + 1 /\ i + 1 \in 1..l + 1
        BY <3>1, <3>3, <1>1
      <4>2. messages2[i] = messages[i] /\ first2[i] = first[i] /\ first2[i + 1] = first[i + 1]
        BY <4>1, <1>4, <1>5
      <4>3. QED
        BY <4>1, <4>2, <1>1
    <3>4. QED
      BY <3>2, <3>3
  <2>3. ASSUME NEW i \in DOMAIN first2, NEW j \in DOMAIN first2, i < j
        PROVE  first2[i] < first2[j]
    <3>1. i \in 1..l + 1 /\ j \in 1..l + 2 /\ first2[i] = first[i] /\ i \in DOMAIN first
      <4>1. i \in 1..l + 2 /\ j \in 1..l + 2
        BY <1>1, <1>5
      <4>2. i \in 1..l + 1
        BY <4>1, <2>3, <1>1
      <4>3. QED
        BY <4>1, <4>2, <1>1, <1>5
    <3>2. first[i] <= top
      <4>1. l + 1 \in DOMAIN first /\ (i = l + 1 \/ i < l + 1)
        BY <3>1, <1>1
      <4>2. first[l + 1] \in Nat /\ first[i] \in Nat
        BY <3>1, <4>1, <1>1
      <4>3. i < l + 1 => first[i] < first[l + 1]
        BY <3>1, <4>1, <1>1
      <4>4. QED
        BY <4>1, <4>2, <4>3, <1>1
    <3>3. CASE j = l + 2
      BY <3>1, <3>2, <3>3, <1>1, <1>2, <1>5
    <3>4. CASE j # l + 2
      <4>1. j \in 1..l + 1 /\ j \in DOMAIN first
        BY <3>1, <3>4, <1>1
      <4>2. QED
        BY <3>1, <4>1, <2>3, <1>1, <1>5
    <3>5. QED
      BY <3>3, <3>4
  <2>4. QED
    BY <2>1, <2>2, <2>3 DEF Laid
<1>7. Last(first2) = top + n
  BY <1>5, <1>1 DEF Last
<1>8. ASSUME NEW i \in 1..n PROVE Fragm(messages2, first2, top + i - 1) = msg[i]
  <2>1. l + 1 \in DOMAIN messages2 /\ first2[l + 1] = top /\ first2[(l + 1) + 1] = top + n
    BY <1>1, <1>4, <1>5
  <2> DEFINE a == top + i - 1
  <2>2. a \in Nat /\ top <= a /\ a < top + n /\ a - top + 1 = i
    BY <1>2
  <2> HIDE DEF a
  <2>3. Fragm(messages2, first2, a) = messages2[l + 1][a - top + 1]
    BY <2>1, <2>2, <1>4, <1>5, <1>6, StreamAt
  <2>4. QED
    BY <2>2, <2>3, <1>4 DEF a
<1>9. ASSUME NEW a \in Nat, a < top
      PROVE  Fragm(messages2, first2, a) = Fragm(messages, first, a)
  <2>1. PICK m \in DOMAIN messages : first[m] <= a /\ a < first[m + 1]
    BY <1>9, StreamFind DEF top
  <2>2. Fragm(messages, first, a) = messages[m][a - first[m] + 1]
    BY <2>1, StreamAt
  <2>3. /\ m \in 1..l /\ m + 1 \in 1..l + 1 /\ m \in 1..l + 1 /\ m \in DOMAIN messages2
    BY <1>1, <1>4
  <2>4. messages2[m] = messages[m] /\ first2[m] = first[m] /\ first2[m + 1] = first[m + 1]
    BY <2>3, <1>4, <1>5
  <2>5. Fragm(messages2, first2, a) = messages2[m][a - first2[m] + 1]
    BY <2>1, <2>3, <2>4, <1>4, <1>5, <1>6, StreamAt
  <2>6. QED
    BY <2>2, <2>4, <2>5
<1>10. QED
  BY <1>2, <1>3, <1>4, <1>5, <1>6, <1>7, <1>8, <1>9 DEF top, msg, messages2, first2


(***************************************************************************)
(* The two ends and what is on the way between them.                       *)
(***************************************************************************)
LEMMA PeerIs ==
  ASSUME NEW e \in Ends
  PROVE  /\ Peer(e) \in Ends /\ Peer(e) # e /\ Peer(Peer(e)) = e
         /\ \A x \in Ends : x = e \/ x = Peer(e)
<1>1. PICK a \in Ends, b \in Ends : a # b /\ Ends = {a, b}
  BY EndsAssumption
<1>2. \A x \in Ends : Peer(x) \in Ends /\ Peer(x) # x
  BY <1>1 DEF Peer
<1>3. QED
  BY <1>1, <1>2

LEMMA PairSym ==
  ASSUME NEW k, NEW p, NEW F, NEW G, Pair(k, p, F, G)
  PROVE  Pair(p, k, G, F)
BY DEF Pair

LEMMA DatagramsLater ==
  ASSUME NEW A, NEW B, A \subseteq B, NEW s \in Seq(Seq(A))
  PROVE  s \in Seq(Seq(B))
<1>1. ASSUME NEW t \in Seq(A) PROVE t \in Seq(B)
  OBVIOUS
<1> DEFINE SA == Seq(A)
           SB == Seq(B)
<1>2. SA \subseteq SB
  BY <1>1
<1>3. s \in Seq(SA)
  OBVIOUS
<1> HIDE DEF SA, SB
<1>4. s \in Seq(SB)
  BY <1>2, <1>3
<1>5. QED
  BY <1>4 DEF SB

\* What was true when a datagram was sent is true when it arrives.
LEMMA ValidLater ==
  ASSUME NEW p, NEW q, NEW G, NEW H,
         Pos(p.rcv_nxt) \in Nat, Pos(q.rcv_nxt) \in Nat, Pos(p.rcv_nxt) <= Pos(q.rcv_nxt),
         Pos(p.snd_nxt) \in Nat, Pos(q.snd_nxt) \in Nat, Pos(p.snd_nxt) <= Pos(q.snd_nxt),
         \A sn \in SeqNumber : Got(p, sn) => Got(q, sn),
         Agree(H, G, Pos(p.snd_nxt))
  PROVE  Valid(p, G) \subseteq Valid(q, H)
<1> SUFFICES ASSUME NEW seg \in Valid(p, G) PROVE seg \in Valid(q, H)
  OBVIOUS
<1>1. /\ seg \in Segments /\ Pos(seg.una) <= Pos(p.rcv_nxt)
      /\ seg.cmd = "ACK" => Got(p, seg.sn)
      /\ seg.cmd = "PUSH" => Pos(seg.sn) < Pos(p.snd_nxt) /\ seg.data = G[Pos(seg.sn)]
  BY DEF Valid
<1>2. seg.sn \in SeqNumber /\ seg.una \in SeqNumber
  BY <1>1 DEF Segments
<1>3. Pos(seg.una) \in Nat /\ Pos(seg.sn) \in Nat
  BY <1>2, PosType
<1>4. Pos(seg.una) <= Pos(q.rcv_nxt)
  BY <1>1, <1>3
<1>5. seg.cmd = "ACK" => Got(q, seg.sn)
  BY <1>1, <1>2
<1>6. seg.cmd = "PUSH" => Pos(seg.sn) < Pos(q.snd_nxt) /\ seg.data = H[Pos(seg.sn)]
  BY <1>1, <1>3 DEF Agree
<1>7. QED
  BY <1>1, <1>4, <1>5, <1>6 DEF Valid

\* A stream that has grown is as good for a pair as the one it grew from.
LEMMA StreamLonger ==
  ASSUME NEW k, NEW p, NEW F, NEW G, Pair(k, p, F, G), NEW H,
         Agree(H, F, Pos(k.snd_nxt) + Len(k.snd_queue))
  PROVE  Pair(k, p, H, G)
<1>1. k \in ControlBlocks /\ p \in ControlBlocks /\ SndOK(k, F) /\ RcvOK(p, F, Pos(k.snd_nxt))
  BY DEF Pair
<1>2. /\ Pos(k.snd_nxt) \in Nat /\ Pos(p.rcv_nxt) \in Nat
      /\ Len(k.snd_queue) \in Nat /\ Len(p.rcv_queue) \in Nat
      /\ DOMAIN k.snd_queue = 1..Len(k.snd_queue)
      /\ DOMAIN p.rcv_queue = 1..Len(p.rcv_queue)
      /\ \A i \in DOMAIN k.snd_buf : Pos(k.snd_buf[i].sn) \in Nat
      /\ \A i \in DOMAIN p.rcv_buf : Pos(p.rcv_buf[i].sn) \in Nat
  BY <1>1, BlockFields
<1>3. SndOK(k, H)
  <2>1. Carries(k.snd_buf, H)
    BY <1>1, <1>2 DEF SndOK, Carries, Between, Agree
  <2>2. Follows(k.snd_queue, Pos(k.snd_nxt), H)
    <3>1. ASSUME NEW i \in DOMAIN k.snd_queue
          PROVE  k.snd_queue[i] = H[Pos(k.snd_nxt) + i - 1]
      <4> DEFINE a == Pos(k.snd_nxt) + i - 1
      <4>1. k.snd_queue[i] = F[a]
        BY <1>1 DEF SndOK, Follows
      <4>2. a \in Nat /\ a < Pos(k.snd_nxt) + Len(k.snd_queue)
        BY <1>2
      <4>3. QED
        BY <4>1, <4>2 DEF Agree
    <3>2. QED
      BY <3>1 DEF Follows
  <2>3. QED
    BY <1>1, <2>1, <2>2 DEF SndOK
<1>4. RcvOK(p, H, Pos(k.snd_nxt))
  <2>1. Carries(p.rcv_buf, H)
    BY <1>1, <1>2 DEF RcvOK, Carries, Between, Agree
  <2>2. Follows(p.rcv_queue, Pos(p.rcv_nxt) - Len(p.rcv_queue), H)
    <3>1. ASSUME NEW i \in DOMAIN p.rcv_queue
          PROVE  p.rcv_queue[i] = H[(Pos(p.rcv_nxt) - Len(p.rcv_queue)) + i - 1]
      <4> DEFINE a == (Pos(p.rcv_nxt) - Len(p.rcv_queue)) + i - 1
      <4>1. p.rcv_queue[i] = F[a]
        BY <1>1 DEF RcvOK, Follows
      <4>2. Pos(p.rcv_nxt) <= Pos(k.snd_nxt) /\ Len(p.rcv_queue) <= Pos(p.rcv_nxt)
        BY <1>1 DEF RcvOK
      <4>3. a \in Nat /\ a < Pos(k.snd_nxt) + Len(k.snd_queue)
        BY <1>2, <4>2
      <4>4. QED
        BY <4>1, <4>3 DEF Agree
    <3>2. QED
      BY <3>1 DEF Follows
  <2>3. QED
    BY <1>1, <2>1, <2>2 DEF RcvOK
<1>5. QED
  BY <1>3, <1>4 DEF Pair

\* ikcp_send: what comes next in the stream goes to the end of snd_queue.
LEMMA SendIs ==
  ASSUME NEW k, NEW p, NEW F, NEW G, Pair(k, p, F, G), NEW m \in Seq(Fragment),
         Follows(m, Pos(k.snd_nxt) + Len(k.snd_queue), F),
         Pos(k.snd_nxt) + Len(k.snd_queue) + Len(m) <= Limit
  PROVE  LET q == ikcp_send(k, m)
         IN  /\ Pair(q, p, F, G) /\ RcvSame(k, q) /\ q.snd_nxt = k.snd_nxt
             /\ Len(q.snd_queue) = Len(k.snd_queue) + Len(m)
<1> DEFINE q == ikcp_send(k, m)
           queue == k.snd_queue \o m
           l == Len(k.snd_queue)
           nxt == Pos(k.snd_nxt)
<1>1. k \in ControlBlocks /\ p \in ControlBlocks /\ SndOK(k, F)
  BY DEF Pair
<1>2. /\ k.snd_queue \in Seq(Fragment) /\ l \in Nat /\ nxt \in Nat /\ Limit \in Nat
      /\ DOMAIN k.snd_queue = 1..l
  BY <1>1, BlockFields, HalfIs
<1>3. /\ queue \in Seq(Fragment) /\ Len(queue) = l + Len(m)
      /\ \A i \in 1..l : queue[i] = k.snd_queue[i]
      /\ \A i \in l + 1..l + Len(m) : queue[i] = m[i - l]
  BY <1>2, ConcatIs
<1> HIDE DEF queue
<1>4. q = [k EXCEPT !.snd_queue = queue]
  BY DEF ikcp_send, queue
<1> HIDE DEF q
<1>5. /\ q \in ControlBlocks /\ RcvSame(k, q) /\ q.snd_queue = queue
      /\ q.snd_una = k.snd_una /\ q.snd_nxt = k.snd_nxt /\ q.snd_buf = k.snd_buf
  BY <1>1, <1>3, <1>4 DEF ControlBlocks, RcvSame
<1>6. Follows(queue, nxt, F)
  <2>1. ASSUME NEW i \in DOMAIN queue PROVE queue[i] = F[nxt + i - 1]
    <3>1. i \in 1..l + Len(m) /\ i \in Nat /\ Len(m) \in Nat
      BY <1>2, <1>3
    <3>2. CASE i <= l
      <4>1. i \in 1..l
        BY <1>2, <3>1, <3>2
      <4>2. k.snd_queue[i] = F[nxt + i - 1]
        BY <1>1, <1>2, <4>1 DEF SndOK, Follows
      <4>3. QED
        BY <1>3, <4>1, <4>2
    <3>3. CASE i > l
      <4> DEFINE j == i - l
      <4>1. j \in 1..Len(m) /\ i \in l + 1..l + Len(m)
        BY <1>2, <3>1, <3>3
      <4>2. j \in 1..Len(m) /\ i \in l + 1..l + Len(m) /\ nxt + l + j - 1 = nxt + i - 1
        <5>1. l \in Nat /\ nxt \in Nat /\ i \in Nat /\ j = i - l
          BY <1>2, <3>1
        <5> HIDE DEF l, nxt, j
        <5>2. QED
          BY <4>1, <5>1
      <4>3. F[nxt + l + j - 1] = m[j]
        BY <4>2 DEF Follows
      <4>4. queue[i] = m[j]
        BY <1>3, <4>2
      <4>5. QED
        BY <4>2, <4>3, <4>4
    <3>4. QED
      BY <1>2, <3>1, <3>2, <3>3
  <2>2. QED
    BY <2>1 DEF Follows
<1>7. SndOK(q, F)
  <2>1. nxt + Len(queue) <= Limit
    BY <1>2, <1>3
  <2>2. QED
    BY <1>1, <1>5, <1>6, <2>1 DEF SndOK
<1>8. \A sn : Got(q, sn) <=> Got(k, sn)
  BY <1>5 DEF RcvSame, Got
<1>9. RcvOK(q, G, Pos(p.snd_nxt)) /\ AcksOK(q)
  BY <1>5, <1>8 DEF Pair, RcvOK, AcksOK, RcvSame
<1>10. RcvOK(p, F, Pos(q.snd_nxt)) /\ NoneLost(q, p) /\ NoneLost(p, q)
  BY <1>5, <1>8 DEF Pair, NoneLost
<1>11. QED
  BY <1>3, <1>5, <1>7, <1>9, <1>10 DEF Pair, q

(***************************************************************************)
(* What a step at an end e must keep for the invariant to hold after it.   *)
(***************************************************************************)
LEMMA StepInv ==
  ASSUME Inv, NEW e \in Ends, NEW q, kcp' = [kcp EXCEPT ![e] = q],
         OnEnds(pc'), OnEnds(net'), OnEnds(sent'), OnEnds(starts'), OnEnds(received'),
         Pair(q, kcp[Peer(e)], Stream(e)', Stream(Peer(e))),
         net'[e] \in Seq(Seq(Valid(kcp[Peer(e)], Stream(Peer(e))))),
         net'[Peer(e)] \in Seq(Seq(Valid(q, Stream(e)'))),
         sent'[Peer(e)] = sent[Peer(e)], starts'[Peer(e)] = starts[Peer(e)],
         SentAt(e)', ReceivedAt(e)', ReceivedAt(Peer(e))'
  PROVE  Inv'
<1> DEFINE p == Peer(e)
<1>1. p \in Ends /\ p # e /\ Peer(p) = e /\ \A x \in Ends : x = e \/ x = p
  BY PeerIs
<1>2. kcp \in [Ends -> ControlBlocks] /\ SentAt(p)
  BY <1>1 DEF Inv
<1>3. q \in ControlBlocks
  BY DEF Pair
<1>4. kcp' \in [Ends -> ControlBlocks] /\ kcp'[e] = q /\ kcp'[p] = kcp[p]
  BY <1>1, <1>2, <1>3
<1>5. Stream(p)' = Stream(p)
  BY DEF Stream
<1>6. PairAt(e)'
  BY <1>4, <1>5 DEF PairAt
<1>7. Pair(kcp[p], q, Stream(p), Stream(e)')
  BY PairSym
<1>8. PairAt(p)'
  <2>1. Pair(kcp'[p], kcp'[e], Stream(p)', Stream(e)')
    BY <1>4, <1>5, <1>7
  <2>2. net'[p] \in Seq(Seq(Valid(kcp'[e], Stream(e)')))
    BY <1>4
  <2>3. QED
    BY <1>1, <2>1, <2>2 DEF PairAt
<1>9. SentAt(p)'
  BY <1>2, <1>4 DEF SentAt
<1>10. \A x \in Ends : PairAt(x)' /\ SentAt(x)' /\ ReceivedAt(x)'
  BY <1>1, <1>6, <1>8, <1>9
<1>11. QED
  BY <1>4, <1>10 DEF Inv

\* What a flush of k, whose stream is F, leaves behind when q is the block after it.
After(e, k, q, F) ==
    /\ kcp' = [kcp EXCEPT ![e] = q]
    /\ OnEnds(net') /\ net'[e] = net[e]
    /\ net'[Peer(e)] \in Seq(Seq(Valid(q, F)))
    /\ Pair(q, kcp[Peer(e)], F, Stream(Peer(e)))
    /\ q.rcv_nxt = kcp[e].rcv_nxt /\ q.rcv_queue = kcp[e].rcv_queue
    /\ Pos(q.snd_nxt) + Len(q.snd_queue) = Pos(k.snd_nxt) + Len(k.snd_queue)

\* A flush of a block k that is as good as the one at e.
LEMMA FlushStep ==
  ASSUME Inv, NEW e \in Ends, NEW k, NEW expired, NEW probe_expired,
         FlushFrom(e, k, expired, probe_expired), NEW F,
         Pair(k, kcp[Peer(e)], F, Stream(Peer(e))), RcvSame(kcp[e], k),
         k.snd_nxt = kcp[e].snd_nxt,
         Agree(F, Stream(e), Pos(k.snd_nxt))
  PROVE  \E q : After(e, k, q, F)
<1> DEFINE p == Peer(e)
           f == ikcp_flush(k, expired, probe_expired)
           q == f.k
<1>1. p \in Ends /\ p # e /\ Peer(p) = e
  BY PeerIs
<1>2. /\ k \in ControlBlocks /\ SndOK(k, F) /\ AcksOK(k) /\ Len(k.rcv_queue) <= RcvWnd
  BY DEF Pair, RcvOK
<1>3. Flushed(k, q, F) /\ f.out \in Seq(Seq(Valid(q, F)))
  BY <1>2, FlushIs
<1>4. kcp' = [kcp EXCEPT ![e] = q] /\ net' = [net EXCEPT ![p] = @ \o f.out]
  BY DEF FlushFrom, ikcp_output
<1> HIDE DEF q, f
<1>5. Pair(q, kcp[p], F, Stream(p))
  BY <1>3, FlushedPair
<1>6. /\ q.rcv_nxt = k.rcv_nxt /\ q.rcv_buf = k.rcv_buf /\ q.rcv_queue = k.rcv_queue
      /\ Pos(k.snd_nxt) <= Pos(q.snd_nxt)
      /\ Pos(q.snd_nxt) + Len(q.snd_queue) = Pos(k.snd_nxt) + Len(k.snd_queue)
      /\ q \in ControlBlocks
  BY <1>3 DEF Flushed
<1>7. /\ k.rcv_nxt = kcp[e].rcv_nxt /\ k.rcv_buf = kcp[e].rcv_buf
      /\ k.rcv_queue = kcp[e].rcv_queue
  BY DEF RcvSame
<1>8. /\ Pos(k.snd_nxt) \in Nat /\ Pos(q.snd_nxt) \in Nat
      /\ Pos(k.rcv_nxt) \in Nat /\ Pos(q.rcv_nxt) \in Nat
  BY <1>2, <1>6, BlockFields
<1>9. Valid(kcp[e], Stream(e)) \subseteq Valid(q, F)
  <2>1. \A sn \in SeqNumber : Got(kcp[e], sn) => Got(q, sn)
    BY <1>6, <1>7 DEF Got
  <2>2. Pos(kcp[e].rcv_nxt) = Pos(q.rcv_nxt) /\ Pos(kcp[e].snd_nxt) = Pos(k.snd_nxt)
    BY <1>6, <1>7
  <2>3. /\ Pos(kcp[e].rcv_nxt) \in Nat /\ Pos(kcp[e].rcv_nxt) <= Pos(q.rcv_nxt)
        /\ Pos(kcp[e].snd_nxt) \in Nat /\ Pos(kcp[e].snd_nxt) <= Pos(q.snd_nxt)
        /\ Agree(F, Stream(e), Pos(kcp[e].snd_nxt))
    BY <1>6, <1>8, <2>2
  <2>4. QED
    BY <1>8, <2>1, <2>3, ValidLater
<1>10. /\ net = [x \in Ends |-> net[x]]
       /\ net[p] \in Seq(Seq(Valid(kcp[e], Stream(e))))
  BY <1>1 DEF Inv, OnEnds, PairAt
<1>11. net[p] \in Seq(Seq(Valid(q, F)))
  BY <1>9, <1>10, DatagramsLater
<1>12. OnEnds(net') /\ net'[e] = net[e] /\ net'[p] = net[p] \o f.out
  BY <1>1, <1>4, <1>10 DEF OnEnds
<1>13. net'[p] \in Seq(Seq(Valid(q, F)))
  <2> DEFINE S == Seq(Valid(q, F))
  <2>1. net[p] \in Seq(S) /\ f.out \in Seq(S)
    BY <1>3, <1>11
  <2> HIDE DEF S
  <2>2. net[p] \o f.out \in Seq(S)
    BY <2>1, ConcatIs
  <2>3. QED
    BY <1>12, <2>2 DEF S
<1>14. After(e, k, q, F)
  BY <1>4, <1>5, <1>6, <1>7, <1>12, <1>13 DEF After
<1>15. QED
  BY <1>14

\* ReceivedAt depends on nothing else.
LEMMA ReceivedSame ==
  ASSUME NEW e \in Ends, ReceivedAt(e),
         received'[e] = received[e], sent'[Peer(e)] = sent[Peer(e)],
         starts'[Peer(e)] = starts[Peer(e)],
         Pos(kcp'[e].rcv_nxt) - Len(kcp'[e].rcv_queue)
            = Pos(kcp[e].rcv_nxt) - Len(kcp[e].rcv_queue)
  PROVE  ReceivedAt(e)'
BY DEF ReceivedAt

LEMMA SentSame ==
  ASSUME NEW e \in Ends, SentAt(e), sent'[e] = sent[e], starts'[e] = starts[e],
         Pos(kcp'[e].snd_nxt) + Len(kcp'[e].snd_queue)
            = Pos(kcp[e].snd_nxt) + Len(kcp[e].snd_queue)
  PROVE  SentAt(e)'
BY DEF SentAt

\* A flush of what is there already.
LEMMA FlushStable ==
  ASSUME Inv, NEW e \in Ends, NEW k \in ControlBlocks, NEW expired, NEW probe_expired,
         FlushFrom(e, k, expired, probe_expired),
         SndSame(kcp[e], k), RcvSame(kcp[e], k),
         UNCHANGED <<pc, sent, starts, received>>
  PROVE  Inv'
<1> DEFINE p == Peer(e)
           F == Stream(e)
<1>1. p \in Ends /\ p # e /\ Peer(p) = e
  BY PeerIs
<1>2. /\ Pair(kcp[e], kcp[p], F, Stream(p)) /\ SentAt(e) /\ ReceivedAt(e) /\ ReceivedAt(p)
      /\ kcp \in [Ends -> ControlBlocks]
      /\ OnEnds(pc) /\ OnEnds(sent) /\ OnEnds(starts) /\ OnEnds(received)
      /\ net[e] \in Seq(Seq(Valid(kcp[p], Stream(p))))
  BY <1>1 DEF Inv, PairAt
<1>3. k.snd_nxt = kcp[e].snd_nxt /\ k.snd_queue = kcp[e].snd_queue
  BY DEF SndSame
<1>4. Pair(k, kcp[p], F, Stream(p))
  BY <1>2, SamePair
<1>5. PICK q : After(e, k, q, F)
  <2> HIDE DEF F
  <2>1. Agree(F, Stream(e), Pos(k.snd_nxt))
    BY DEF F, Agree
  <2>2. QED
    BY <1>3, <1>4, <2>1, FlushStep
<1>6. /\ kcp' = [kcp EXCEPT ![e] = q]
      /\ OnEnds(net') /\ net'[e] = net[e]
      /\ net'[p] \in Seq(Seq(Valid(q, F)))
      /\ Pair(q, kcp[p], F, Stream(p))
      /\ q.rcv_nxt = kcp[e].rcv_nxt /\ q.rcv_queue = kcp[e].rcv_queue
      /\ Pos(q.snd_nxt) + Len(q.snd_queue) = Pos(k.snd_nxt) + Len(k.snd_queue)
  BY <1>5 DEF After
<1>7. kcp'[e] = q /\ kcp'[p] = kcp[p]
  BY <1>1, <1>2, <1>6
<1>8. Stream(e)' = F
  BY DEF Stream
<1>9. SentAt(e)' /\ ReceivedAt(e)' /\ ReceivedAt(p)'
  <2>1. SentAt(e)'
    BY <1>2, <1>3, <1>6, <1>7, SentSame
  <2>2. ReceivedAt(e)'
    BY <1>2, <1>6, <1>7, ReceivedSame
  <2>3. ReceivedAt(p)'
    BY <1>1, <1>2, <1>7, ReceivedSame
  <2>4. QED
    BY <2>1, <2>2, <2>3
<1>10. OnEnds(pc') /\ OnEnds(sent') /\ OnEnds(starts') /\ OnEnds(received')
  BY <1>2
<1> HIDE DEF F
<1>11. QED
  BY <1>2, <1>6, <1>8, <1>9, <1>10, StepInv

(***************************************************************************)
(* The steps.                                                              *)
(***************************************************************************)
LEMMA UpdateStep ==
  ASSUME Inv, NEW e \in Ends, Update(e)
  PROVE  Inv'
<1> DEFINE k == [kcp[e] EXCEPT !.updated = TRUE]
<1>1. kcp[e] \in ControlBlocks
  BY DEF Inv
<1>2. k \in ControlBlocks /\ SndSame(kcp[e], k) /\ RcvSame(kcp[e], k)
  BY <1>1 DEF ControlBlocks, SndSame, RcvSame
<1>3. FlushFrom(e, k, {}, FALSE) /\ UNCHANGED <<pc, sent, starts, received>>
  BY DEF Update
<1> HIDE DEF k
<1>4. QED
  BY <1>2, <1>3, FlushStable

LEMMA RetransmitStep ==
  ASSUME Inv, NEW e \in Ends, NEW expired, NEW probe_expired,
         Retransmit(e, expired, probe_expired)
  PROVE  Inv'
<1> DEFINE k == kcp[e]
<1>1. k \in ControlBlocks /\ SndSame(kcp[e], k) /\ RcvSame(kcp[e], k)
  BY DEF Inv, SndSame, RcvSame
<1>2. FlushFrom(e, k, expired, probe_expired) /\ UNCHANGED <<pc, sent, starts, received>>
  BY DEF Retransmit
<1> HIDE DEF k
<1>3. QED
  BY <1>1, <1>2, FlushStable

\* A step that hands nothing over and takes at most a datagram from the net.
LEMMA ArriveStep ==
  ASSUME Inv, NEW e \in Ends, NEW q, kcp' = [kcp EXCEPT ![e] = q],
         Pair(q, kcp[Peer(e)], Stream(e), Stream(Peer(e))), Kept(kcp[e], q),
         NEW dgrams, net' = [net EXCEPT ![e] = dgrams],
         dgrams \in Seq(Seq(Valid(kcp[Peer(e)], Stream(Peer(e))))),
         OnEnds(pc'), UNCHANGED <<sent, starts, received>>
  PROVE  Inv'
<1> DEFINE p == Peer(e)
           F == Stream(e)
<1>1. p \in Ends /\ p # e /\ Peer(p) = e
  BY PeerIs
<1>2. /\ SentAt(e) /\ ReceivedAt(e) /\ ReceivedAt(p)
      /\ kcp \in [Ends -> ControlBlocks]
      /\ OnEnds(sent) /\ OnEnds(starts) /\ OnEnds(received)
      /\ net = [x \in Ends |-> net[x]]
      /\ net[p] \in Seq(Seq(Valid(kcp[e], F)))
  BY <1>1 DEF Inv, PairAt, OnEnds
<1>3. q \in ControlBlocks /\ kcp'[e] = q /\ kcp'[p] = kcp[p]
  BY <1>1, <1>2 DEF Pair
<1>4. Stream(e)' = F
  BY DEF Stream
<1>5. OnEnds(net') /\ net'[e] = dgrams /\ net'[p] = net[p]
  BY <1>1, <1>2 DEF OnEnds
<1>6. /\ q.snd_nxt = kcp[e].snd_nxt /\ q.snd_queue = kcp[e].snd_queue
      /\ Pos(kcp[e].rcv_nxt) <= Pos(q.rcv_nxt)
      /\ Pos(q.rcv_nxt) - Len(q.rcv_queue) = Pos(kcp[e].rcv_nxt) - Len(kcp[e].rcv_queue)
      /\ \A sn \in SeqNumber : Got(kcp[e], sn) => Got(q, sn)
  BY DEF Kept
<1>7. SentAt(e)' /\ ReceivedAt(e)' /\ ReceivedAt(p)'
  <2>1. SentAt(e)'
    BY <1>2, <1>3, <1>6, SentSame
  <2>2. ReceivedAt(e)'
    BY <1>2, <1>3, <1>6, ReceivedSame
  <2>3. ReceivedAt(p)'
    BY <1>1, <1>2, <1>3, ReceivedSame
  <2>4. QED
    BY <2>1, <2>2, <2>3
<1>8. net'[p] \in Seq(Seq(Valid(q, F)))
  <2>1. /\ Pos(kcp[e].rcv_nxt) \in Nat /\ Pos(q.rcv_nxt) \in Nat
        /\ Pos(kcp[e].snd_nxt) \in Nat /\ Pos(q.snd_nxt) \in Nat
    BY <1>2, <1>3, BlockFields
  <2>2. Pos(kcp[e].snd_nxt) <= Pos(q.snd_nxt)
    BY <1>6, <2>1
  <2> HIDE DEF F
  <2>3. Agree(F, F, Pos(kcp[e].snd_nxt))
    BY DEF Agree
  <2>4. Valid(kcp[e], F) \subseteq Valid(q, F)
    BY <1>6, <2>1, <2>2, <2>3, ValidLater
  <2>5. QED
    BY <1>2, <1>5, <2>4, DatagramsLater
<1>9. OnEnds(sent') /\ OnEnds(starts') /\ OnEnds(received')
  BY <1>2
<1>10. Pair(q, kcp[p], Stream(e)', Stream(p)) /\ net'[p] \in Seq(Seq(Valid(q, Stream(e)')))
  BY <1>4, <1>8
<1>11. QED
  BY <1>1, <1>5, <1>7, <1>9, <1>10, StepInv

LEMMA InputStep ==
  ASSUME Inv, NEW e \in Ends, Input(e)
  PROVE  Inv'
<1> DEFINE p == Peer(e)
           S == Seq(Valid(kcp[p], Stream(p)))
<1>1. /\ net[e] \in Seq(S) /\ Pair(kcp[e], kcp[p], Stream(e), Stream(p))
      /\ pc = [x \in Ends |-> pc[x]] /\ net = [x \in Ends |-> net[x]]
      /\ kcp \in [Ends -> ControlBlocks]
  BY DEF Inv, PairAt, OnEnds
<1>2. /\ pc' = [pc EXCEPT ![e] = "recv"] /\ UNCHANGED <<sent, starts, received>>
  BY DEF Input
<1>3. PICK i \in DOMAIN net[e], copies \in {0, 1} :
        /\ kcp' = [kcp EXCEPT ![e] = ikcp_input(@, net[e][i])]
        /\ net' = [net EXCEPT ![e] = IF copies = 1 THEN @ ELSE RemoveAt(@, i)]
  BY DEF Input
<1> DEFINE q == ikcp_input(kcp[e], net[e][i])
           t == RemoveAt(net[e], i)
           dgrams == IF copies = 1 THEN net[e] ELSE t
<1>4. kcp' = [kcp EXCEPT ![e] = q] /\ net' = [net EXCEPT ![e] = dgrams]
  BY <1>1, <1>3
<1>5. net[e][i] \in S
  BY <1>1, <1>3
<1>6. Pair(q, kcp[p], Stream(e), Stream(p)) /\ Kept(kcp[e], q)
  BY <1>1, <1>5, InputIs
<1>7. dgrams \in Seq(S)
  <2> HIDE DEF S
  <2>1. t \in Seq(S)
    <3> DEFINE u == t
    <3>1. u = RemoveAt(net[e], i)
      OBVIOUS
    <3> HIDE DEF u
    <3>2. u \in Seq(S)
      BY <1>1, <3>1, RemoveAtIs
    <3>3. QED
      BY <3>2 DEF u
  <2>2. QED
    BY <1>1, <2>1
<1>8. OnEnds(pc')
  BY <1>1, <1>2 DEF OnEnds
<1> HIDE DEF q, dgrams, t
<1>9. QED
  BY <1>2, <1>4, <1>6, <1>7, <1>8, ArriveStep

LEMMA LoseStep ==
  ASSUME Inv, NEW e \in Ends, Lose(e)
  PROVE  Inv'
<1> DEFINE p == Peer(e)
           S == Seq(Valid(kcp[p], Stream(p)))
           q == kcp[e]
<1>1. /\ net[e] \in Seq(S) /\ Pair(kcp[e], kcp[p], Stream(e), Stream(p))
      /\ OnEnds(pc) /\ net = [x \in Ends |-> net[x]]
      /\ kcp \in [Ends -> ControlBlocks]
  BY DEF Inv, PairAt, OnEnds
<1>2. UNCHANGED <<kcp, pc, sent, starts, received>>
  BY DEF Lose
<1>3. PICK i \in DOMAIN net[e] : net' = [net EXCEPT ![e] = RemoveAt(@, i)]
  BY DEF Lose
<1> DEFINE t == RemoveAt(net[e], i)
<1>4. t = RemoveAt(net[e], i) /\ net' = [net EXCEPT ![e] = t]
  BY <1>1, <1>3
<1> HIDE DEF t
<1>5. t \in Seq(S)
  <2> HIDE DEF S
  <2>1. QED
    BY <1>1, <1>4, RemoveAtIs
<1>6. kcp' = [kcp EXCEPT ![e] = q] /\ OnEnds(pc')
  BY <1>1, <1>2
<1>7. Kept(kcp[e], q)
  <2>1. Pos(q.rcv_nxt) \in Nat
    BY <1>1, BlockFields
  <2>2. QED
    BY <2>1 DEF Kept
<1>8. Pair(q, kcp[p], Stream(e), Stream(p))
  BY <1>1
<1> HIDE DEF q
<1>9. QED
  BY <1>2, <1>4, <1>5, <1>6, <1>7, <1>8, ArriveStep

(***************************************************************************)
(* ikcp_recv.                                                              *)
(***************************************************************************)
\* ikcp_peeksize finds the first message of a queue that starts with one.
LEMMA PeekIs ==
  ASSUME NEW messages \in Seq(Seq(Fragment)), NEW first \in Seq(Nat), Laid(messages, first),
         NEW k, k.rcv_queue \in Seq(Fragment),
         NEW c \in 0..Len(messages),
         Follows(k.rcv_queue, first[c + 1], [a \in Nat |-> Fragm(messages, first, a)]),
         first[c + 1] + Len(k.rcv_queue) <= Last(first),
         ikcp_peeksize(k) # 0
  PROVE  /\ c < Len(messages)
         /\ ikcp_peeksize(k) \in DOMAIN k.rcv_queue
         /\ ikcp_peeksize(k) = Len(messages[c + 1])
         /\ SubSeq(k.rcv_queue, 1, ikcp_peeksize(k)) = messages[c + 1]
<1> DEFINE queue == k.rcv_queue
           m == c + 1
           base == first[m]
           l == Len(messages[m])
           Is(n) == queue[n].frg = 0 /\ \A i \in 1..n - 1 : queue[i].frg # 0
           n == ikcp_peeksize(k)
<1>1. /\ queue # <<>> /\ Len(queue) >= Head(queue).frg + 1
      /\ n = CHOOSE j \in DOMAIN queue : Is(j)
  <2>1. /\ ~(queue = <<>> \/ Len(queue) < Head(queue).frg + 1)
        /\ n = CHOOSE j \in DOMAIN queue : Is(j)
    BY DEF ikcp_peeksize
  <2>2. Head(queue) \in Fragment /\ Len(queue) \in Nat
    BY <2>1
  <2>3. Head(queue).frg \in Nat
    BY <2>2, HalfIs DEF Fragment
  <2> DEFINE have == Len(queue)
             later == Head(queue).frg
  <2>4. have \in Nat /\ later \in Nat /\ ~(have < later + 1)
    BY Zenon, <2>1, <2>2, <2>3
  <2> HIDE DEF have, later
  <2>5. have >= later + 1
    BY <2>4
  <2> HIDE DEF n, queue
  <2>6. QED
    BY <2>1, <2>5 DEF have, later
<1>2. /\ queue \in Seq(Fragment) /\ Len(queue) \in Nat /\ DOMAIN queue = 1..Len(queue)
      /\ 1 \in DOMAIN queue /\ Head(queue) = queue[1] /\ Len(queue) >= 1
  BY <1>1
<1>3. /\ DOMAIN messages = 1..Len(messages) /\ Len(messages) \in Nat
      /\ Len(first) = Len(messages) + 1 /\ DOMAIN first = 1..Len(messages) + 1
      /\ \A i \in DOMAIN first : first[i] \in Nat
      /\ Last(first) = first[Len(messages) + 1]
      /\ c \in Nat /\ c <= Len(messages) /\ m \in DOMAIN first
  <2>1. Len(first) = Len(messages) + 1
    BY DEF Laid
  <2>2. /\ DOMAIN messages = 1..Len(messages) /\ Len(messages) \in Nat
        /\ DOMAIN first = 1..Len(first) /\ \A i \in DOMAIN first : first[i] \in Nat
    OBVIOUS
  <2>3. QED
    BY <2>1, <2>2 DEF Last
<1>4. /\ m \in Nat /\ base = first[m] /\ base \in Nat
      /\ Follows(queue, base, [a \in Nat |-> Fragm(messages, first, a)])
  BY <1>3
<1> HIDE DEF queue, base
<1> DEFINE all == Len(messages)
           top == Last(first)
<1>5. c < Len(messages) /\ m \in DOMAIN messages
  <2>1. /\ all \in Nat /\ c \in Nat /\ c <= all /\ top = first[all + 1] /\ m = c + 1
        /\ DOMAIN messages = 1..all
    BY <1>3
  <2>2. base + Len(queue) <= top /\ Len(queue) \in Nat /\ Len(queue) >= 1
    BY <1>2 DEF base, queue
  <2>3. base \in Nat /\ base = first[m]
    BY <1>4
  <2> HIDE DEF all, top, m
  <2>4. c = all => base = top
    BY <2>1, <2>3
  <2>5. base # top
    BY <2>2, <2>3
  <2>6. c < all
    BY <2>1, <2>4, <2>5
  <2>7. m \in 1..all
    BY <2>1, <2>6
  <2>8. QED
    BY <2>1, <2>6, <2>7 DEF all
<1> HIDE DEF m
<1>6. /\ l \in Fragments /\ messages[m] = Message(m, l) /\ first[m + 1] = base + l
      /\ messages[m] \in Seq(Fragment)
  <2>1. messages[m] \in Seq(Fragment)
    BY <1>5
  <2>2. /\ Len(messages[m]) \in Fragments /\ messages[m] = Message(m, Len(messages[m]))
        /\ first[m + 1] = first[m] + Len(messages[m])
    BY <1>5 DEF Laid
  <2>3. QED
    BY <1>4, <2>1, <2>2
<1> HIDE DEF l
<1>7. l \in Nat /\ l >= 1
  BY <1>6, HalfIs DEF Fragments
<1>8. \A i \in 1..l : messages[m][i].frg = l - i
  BY <1>6 DEF Message
<1>9. ASSUME NEW i \in 1..l, i \in DOMAIN queue PROVE queue[i] = messages[m][i]
  <2> DEFINE a == base + i - 1
  <2>1. a \in Nat /\ base <= a /\ a < base + l /\ a - base + 1 = i
    <3>1. base \in Nat /\ l \in Nat
      BY <1>4, <1>7
    <3>2. QED
      BY <3>1
  <2>2. queue[i] = Fragm(messages, first, a)
    BY <1>4, <1>9, <2>1 DEF Follows
  <2> HIDE DEF a
  <2>3. first[m] <= a /\ a < first[m + 1]
    BY <1>4, <1>6, <2>1
  <2>4. Fragm(messages, first, a) = messages[m][a - first[m] + 1]
    BY <1>5, <2>1, <2>3, StreamAt
  <2>5. QED
    BY <1>4, <2>1, <2>2, <2>4
<1>10. Len(queue) >= l
  <2>1. 1 \in 1..l
    BY <1>7
  <2>2. queue[1] = messages[m][1] /\ messages[m][1].frg = l - 1
    BY <1>2, <1>8, <1>9, <2>1
  <2>3. Head(queue).frg = l - 1
    BY <1>2, <2>2
  <2>4. QED
    BY <1>1, <1>2, <1>7, <2>3
<1>11. l \in DOMAIN queue
  BY <1>2, <1>7, <1>10
<1>12. \A i \in 1..l : i \in DOMAIN queue /\ queue[i].frg = l - i /\ queue[i] = messages[m][i]
  <2>1. \A i \in 1..l : i \in DOMAIN queue
    BY <1>2, <1>7, <1>10
  <2>2. QED
    BY <1>8, <1>9, <2>1
<1>13. Is(l)
  <2>1. l \in 1..l /\ \A i \in 1..l - 1 : i \in 1..l /\ l - i # 0
    BY <1>7
  <2>2. QED
    BY <1>12, <2>1
<1>14. n \in DOMAIN queue /\ Is(n)
  <2> HIDE DEF Is, n
  <2>1. QED
    BY <1>1, <1>11, <1>13
<1>15. n = l
  <2>1. n \in Nat /\ n >= 1
    BY <1>2, <1>14
  <2>2. queue[n].frg = 0 /\ \A i \in 1..n - 1 : queue[i].frg # 0
    BY <1>14
  <2> HIDE DEF n
  <2>3. ~(n < l)
    <3>1. n < l => n \in 1..l /\ l - n # 0
      BY <1>7, <2>1
    <3>2. QED
      BY <1>12, <2>2, <3>1
  <2>4. ~(l < n)
    <3>1. l < n => l \in 1..n - 1
      BY <1>7, <2>1
    <3>2. QED
      BY <1>13, <2>2, <3>1
  <2>5. QED
    BY <1>7, <2>1, <2>3, <2>4
<1> HIDE DEF n
<1>16. SubSeq(queue, 1, n) = messages[m]
  <2>1. /\ SubSeq(queue, 1, n) \in Seq(Fragment) /\ Len(SubSeq(queue, 1, n)) = n
        /\ \A i \in 1..n : SubSeq(queue, 1, n)[i] = queue[i]
    <3>1. queue \in Seq(Fragment) /\ n \in 1..Len(queue)
      BY <1>2, <1>14
    <3>2. QED
      BY <3>1
  <2>2. Len(messages[m]) = n
    BY <1>15 DEF l
  <2> DEFINE s == SubSeq(queue, 1, n)
             u == messages[m]
  <2>3. \A i \in 1..n : s[i] = u[i]
    BY <1>12, <1>15, <2>1
  <2>4. s \in Seq(Fragment) /\ u \in Seq(Fragment) /\ Len(s) = n /\ Len(u) = n
    BY <1>6, <2>1, <2>2
  <2> HIDE DEF s, u
  <2>5. s = u
    BY <2>3, <2>4
  <2>6. QED
    BY <2>5 DEF s, u
<1>17. QED
  BY <1>5, <1>14, <1>15, <1>16 DEF l, m, n, queue

\* A message taken from rcv_queue makes room for what is ready in rcv_buf.
LEMMA TakeIs ==
  ASSUME NEW k, NEW p, NEW F, NEW G, Pair(k, p, F, G),
         ikcp_peeksize(k) \in DOMAIN k.rcv_queue, NEW q, q = ikcp_recv(k)
  PROVE  /\ Pair(q, p, F, G) /\ SndSame(k, q)
         /\ Pos(k.rcv_nxt) <= Pos(q.rcv_nxt)
         /\ Pos(q.rcv_nxt) - Len(q.rcv_queue)
               = (Pos(k.rcv_nxt) - Len(k.rcv_queue)) + ikcp_peeksize(k)
         /\ \A sn \in SeqNumber : Got(k, sn) => Got(q, sn)
<1> DEFINE n == ikcp_peeksize(k)
           queue == k.rcv_queue
           t == SubSeq(queue, n + 1, Len(queue))
           k0 == [k EXCEPT !.rcv_queue = t]
           k1 == MoveReady(k0)
           top == Pos(p.snd_nxt)
<1>1. /\ k \in ControlBlocks /\ p \in ControlBlocks /\ SndOK(p, G)
      /\ RcvOK(k, G, top) /\ AcksOK(k)
  BY DEF Pair
<1>2. /\ queue \in Seq(Fragment) /\ Len(queue) \in Nat /\ Pos(k.rcv_nxt) \in Nat
      /\ top \in Nat /\ Len(p.snd_queue) \in Nat /\ DOMAIN queue = 1..Len(queue)
  <2>1. queue \in Seq(Fragment) /\ Pos(k.rcv_nxt) \in Nat
    BY Zenon, <1>1, BlockFields
  <2>2. top \in Nat /\ p.snd_queue \in Seq(Fragment)
    BY Zenon, <1>1, BlockFields
  <2> HIDE DEF queue, top
  <2>3. Len(queue) \in Nat /\ DOMAIN queue = 1..Len(queue) /\ Len(p.snd_queue) \in Nat
    BY <2>1, <2>2
  <2>4. QED
    BY Zenon, <2>1, <2>2, <2>3
<1>3. top <= Limit
  BY <1>1, <1>2, HalfIs DEF SndOK
<1>4. n \in 0..Len(queue) /\ n \in Nat
  <2>1. n \in DOMAIN queue
    OBVIOUS
  <2>2. n \in 1..Len(queue) /\ Len(queue) \in Nat
    BY Zenon, <1>2, <2>1
  <2> DEFINE all == Len(queue)
  <2>3. n \in 1..all /\ all \in Nat
    BY Zenon, <2>2
  <2> HIDE DEF n, all
  <2>4. n \in 0..all /\ n \in Nat
    BY <2>3
  <2>5. QED
    BY Zenon, <2>4 DEF all
<1>5. /\ t \in Seq(Fragment) /\ Len(t) = Len(queue) - n
      /\ \A i \in 1..Len(queue) - n : t[i] = queue[n + i]
  <2> HIDE DEF n, queue
  <2>1. QED
    BY <1>2, <1>4, CutIs
<1> HIDE DEF t, n
<1>6. /\ k0 \in ControlBlocks /\ SndSame(k, k0) /\ k0.rcv_queue = t
      /\ k0.rcv_nxt = k.rcv_nxt /\ k0.rcv_buf = k.rcv_buf /\ k0.acklist = k.acklist
  BY <1>1, <1>5 DEF ControlBlocks, SndSame
<1>7. RcvOK(k0, G, top)
  <2> DEFINE base == Pos(k.rcv_nxt) - Len(queue)
             base0 == Pos(k.rcv_nxt) - Len(t)
  <2>1. Len(t) \in Nat /\ Len(t) <= Len(queue) /\ base0 = base + n /\ base \in Int
    BY <1>2, <1>4, <1>5
  <2>2. Len(queue) <= RcvWnd /\ Len(queue) <= Pos(k.rcv_nxt) /\ Follows(queue, base, G)
    BY <1>1 DEF RcvOK
  <2>3. Len(t) <= RcvWnd /\ Len(t) <= Pos(k.rcv_nxt)
    BY <1>2, <2>1, <2>2, HalfIs
  <2> HIDE DEF base, base0
  <2>4. Follows(t, base0, G)
    <3>1. ASSUME NEW i \in DOMAIN t PROVE t[i] = G[base0 + i - 1]
      <4>1. i \in 1..Len(queue) - n
        BY <1>5
      <4>2. t[i] = queue[n + i] /\ n + i \in DOMAIN queue
        <5>1. n + i \in 1..Len(queue)
          BY <1>2, <1>4, <4>1
        <5>2. QED
          BY <1>2, <1>5, <4>1, <5>1
      <4>3. base + (n + i) - 1 = base0 + i - 1
        BY <1>4, <2>1, <4>1
      <4>4. queue[n + i] = G[base + (n + i) - 1]
        BY <2>2, <4>2 DEF Follows
      <4>5. QED
        BY <4>2, <4>4, <4>3
    <3>2. QED
      BY <3>1 DEF Follows
  <2>5. QED
    BY <1>1, <1>6, <2>3, <2>4 DEF RcvOK, base0
<1> HIDE DEF k0
<1>8. \A sn : Got(k, sn) <=> Got(k0, sn)
  BY <1>6 DEF Got
<1>9. Pair(k0, p, F, G)
  <2>1. SndOK(k0, F) /\ AcksOK(k0)
    BY <1>6, <1>8 DEF Pair, SndOK, SndSame, AcksOK
  <2>2. RcvOK(p, F, Pos(k0.snd_nxt)) /\ NoneLost(k0, p) /\ NoneLost(p, k0)
    BY <1>6, <1>8 DEF Pair, SndSame, NoneLost
  <2>3. QED
    BY <1>6, <1>7, <2>1, <2>2 DEF Pair
<1>10. Advanced(k0, k1, G, top) /\ k1.acklist = k0.acklist
  BY <1>2, <1>3, <1>6, <1>7, MoveReadyIs
<1> HIDE DEF k1
<1>11. \A sn \in SeqNumber : Got(k0, sn) => Got(k1, sn)
  BY <1>10 DEF Advanced
<1>12. AcksOK(k1)
  <2>1. k0.acklist \in Seq(SeqNumber) /\ AcksOK(k0)
    BY <1>6, <1>9, BlockFields DEF Pair
  <2>2. \A i \in DOMAIN k0.acklist : k0.acklist[i] \in SeqNumber
    BY <2>1
  <2>3. QED
    BY <1>10, <1>11, <2>1, <2>2 DEF AcksOK
<1>13. Pair(k1, p, F, G) /\ Kept(k0, k1)
  BY <1>9, <1>10, <1>12, AdvancedPair
<1>14. k1 \in ControlBlocks
  BY <1>13 DEF Pair
<1>15. q = k1 \/ q = [k1 EXCEPT !.probe = @ \cup {"TELL"}]
  BY DEF ikcp_recv, k1, k0, t, n
<1>16. q \in ControlBlocks /\ SndSame(k1, q) /\ RcvSame(k1, q)
  <2>1. CASE q = k1
    BY <1>14, <2>1 DEF SndSame, RcvSame
  <2>2. CASE q = [k1 EXCEPT !.probe = @ \cup {"TELL"}]
    BY <1>14, <2>2 DEF ControlBlocks, SndSame, RcvSame
  <2>3. QED
    BY <1>15, <2>1, <2>2
<1>17. Pair(q, p, F, G)
  BY <1>13, <1>16, SamePair
<1>18. SndSame(k, q)
  BY <1>6, <1>10, <1>16 DEF SndSame, Advanced
<1>19. /\ q.rcv_nxt = k1.rcv_nxt /\ q.rcv_queue = k1.rcv_queue
       /\ \A sn : Got(k1, sn) <=> Got(q, sn)
  BY <1>16 DEF RcvSame, Got
<1>20. /\ Pos(k.rcv_nxt) <= Pos(q.rcv_nxt)
       /\ Pos(q.rcv_nxt) - Len(q.rcv_queue) = Pos(k.rcv_nxt) - Len(t)
  BY <1>6, <1>10, <1>19 DEF Advanced
<1>21. Pos(k.rcv_nxt) - Len(t) = (Pos(k.rcv_nxt) - Len(queue)) + n
  BY <1>2, <1>4, <1>5
<1>22. QED
  BY <1>8, <1>11, <1>17, <1>18, <1>19, <1>20, <1>21 DEF n

\* What ikcp_recv is about to return is the next message of the peer.
LEMMA PeekAt ==
  ASSUME Inv, NEW e \in Ends, ikcp_peeksize(kcp[e]) # 0
  PROVE  LET n == ikcp_peeksize(kcp[e])
             c == Len(received[e])
             messages == sent[Peer(e)]
         IN  /\ c < Len(messages) /\ n \in DOMAIN kcp[e].rcv_queue
             /\ n = Len(messages[c + 1])
             /\ SubSeq(kcp[e].rcv_queue, 1, n) = messages[c + 1]
<1> DEFINE p == Peer(e)
           k == kcp[e]
           n == ikcp_peeksize(k)
           G == Stream(p)
           messages == sent[p]
           first == starts[p]
           c == Len(received[e])
           base == Pos(k.rcv_nxt) - Len(k.rcv_queue)
<1>1. /\ ReceivedAt(e) /\ SentAt(p) /\ Pair(k, kcp[p], Stream(e), G)
      /\ k \in ControlBlocks /\ kcp[p] \in ControlBlocks
  BY PeerIs DEF Inv, PairAt
<1>2. /\ messages \in Seq(Seq(Fragment)) /\ first \in Seq(Nat) /\ Laid(messages, first)
      /\ Last(first) = Pos(kcp[p].snd_nxt) + Len(kcp[p].snd_queue)
  BY <1>1 DEF SentAt
<1>3. /\ received[e] \in Seq(Seq(Fragment)) /\ c \in 0..Len(messages)
      /\ first[c + 1] = base
  BY <1>1 DEF ReceivedAt
<1>4. k.rcv_queue \in Seq(Fragment) /\ Len(k.rcv_queue) \in Nat /\ Pos(k.rcv_nxt) \in Nat
  BY <1>1, BlockFields
<1>5. Follows(k.rcv_queue, base, G) /\ Pos(k.rcv_nxt) <= Pos(kcp[p].snd_nxt)
  BY <1>1 DEF Pair, RcvOK
<1>6. Follows(k.rcv_queue, first[c + 1], [a \in Nat |-> Fragm(messages, first, a)])
  BY <1>3, <1>5 DEF Stream
<1>7. first[c + 1] + Len(k.rcv_queue) <= Last(first)
  <2>1. Pos(kcp[p].snd_nxt) \in Nat /\ Len(kcp[p].snd_queue) \in Nat
    BY <1>1, BlockFields
  <2>2. base + Len(k.rcv_queue) = Pos(k.rcv_nxt)
    BY <1>4
  <2> HIDE DEF base, first
  <2>3. QED
    BY <1>2, <1>3, <1>4, <1>5, <2>1, <2>2
<1> HIDE DEF messages, first, c
<1>8. /\ c < Len(messages) /\ n \in DOMAIN k.rcv_queue
      /\ n = Len(messages[c + 1]) /\ SubSeq(k.rcv_queue, 1, n) = messages[c + 1]
  BY <1>2, <1>3, <1>4, <1>6, <1>7, PeekIs
<1>9. QED
  BY <1>8 DEF messages, c

LEMMA RecvStep ==
  ASSUME Inv, NEW e \in Ends, Recv(e)
  PROVE  Inv'
<1> DEFINE p == Peer(e)
           k == kcp[e]
           n == ikcp_peeksize(k)
           F == Stream(e)
           G == Stream(p)
           S == Seq(Valid(kcp[p], G))
<1>1. p \in Ends /\ p # e /\ Peer(p) = e
  BY PeerIs
<1>2. /\ SentAt(e) /\ ReceivedAt(e) /\ ReceivedAt(p) /\ SentAt(p)
      /\ Pair(k, kcp[p], F, G) /\ net[e] \in Seq(S)
      /\ net[p] \in Seq(Seq(Valid(k, F)))
      /\ kcp \in [Ends -> ControlBlocks]
      /\ OnEnds(sent) /\ OnEnds(starts)
      /\ received = [x \in Ends |-> received[x]]
      /\ net = [x \in Ends |-> net[x]] /\ pc = [x \in Ends |-> pc[x]]
  BY <1>1 DEF Inv, PairAt, OnEnds
<1>3. UNCHANGED <<net, sent, starts>>
  BY DEF Recv
<1>4. k \in ControlBlocks /\ kcp[p] \in ControlBlocks
  BY <1>1, <1>2
<1>5. CASE n = 0
  <2>1. pc' = [pc EXCEPT ![e] = "wait"] /\ UNCHANGED <<kcp, received>>
    BY <1>5 DEF Recv
  <2>2. OnEnds(pc')
    BY <1>2, <2>1 DEF OnEnds
  <2>3. kcp' = [kcp EXCEPT ![e] = k] /\ net' = [net EXCEPT ![e] = net[e]]
    BY <1>2, <1>3, <2>1
  <2>4. Kept(kcp[e], k)
    <3>1. Pos(k.rcv_nxt) \in Nat
      BY <1>4, BlockFields
    <3>2. QED
      BY <3>1 DEF Kept
  <2>5. UNCHANGED <<sent, starts, received>>
    BY <1>3, <2>1
  <2> HIDE DEF k
  <2>6. QED
    BY <1>2, <2>2, <2>3, <2>4, <2>5, ArriveStep
<1>6. CASE n # 0
  <2> DEFINE q == ikcp_recv(k)
             got == SubSeq(k.rcv_queue, 1, n)
             messages == sent[p]
             first == starts[p]
             c == Len(received[e])
             base == Pos(k.rcv_nxt) - Len(k.rcv_queue)
  <2>1. /\ kcp' = [kcp EXCEPT ![e] = q] /\ pc' = pc
        /\ received' = [received EXCEPT ![e] = Append(@, got)]
    BY <1>2, <1>6 DEF Recv
  <2>2. /\ messages \in Seq(Seq(Fragment)) /\ first \in Seq(Nat) /\ Laid(messages, first)
        /\ Last(first) = Pos(kcp[p].snd_nxt) + Len(kcp[p].snd_queue)
    BY <1>2 DEF SentAt
  <2>3. /\ received[e] \in Seq(Seq(Fragment)) /\ c \in 0..Len(messages)
        /\ received[e] = SubSeq(messages, 1, c)
        /\ first[c + 1] = base
    BY <1>2 DEF ReceivedAt
  <2>4. /\ c < Len(messages) /\ n \in DOMAIN k.rcv_queue
        /\ n = Len(messages[c + 1]) /\ got = messages[c + 1]
    BY <1>6, PeekAt
  <2> HIDE DEF messages, first, c
  <2>5. /\ Pair(q, kcp[p], F, G) /\ SndSame(k, q)
        /\ Pos(k.rcv_nxt) <= Pos(q.rcv_nxt)
        /\ Pos(q.rcv_nxt) - Len(q.rcv_queue) = base + n
        /\ \A sn \in SeqNumber : Got(k, sn) => Got(q, sn)
    BY <1>2, <2>4, TakeIs
  <2> HIDE DEF q, n, got, base
  <2>6. q \in ControlBlocks /\ kcp'[e] = q /\ kcp'[p] = kcp[p]
    BY <1>1, <1>2, <2>1, <2>5 DEF Pair
  <2>7. /\ OnEnds(received') /\ received'[e] = Append(received[e], got)
         /\ received'[p] = received[p]
    BY <1>1, <1>2, <2>1 DEF OnEnds
  <2>8. OnEnds(pc') /\ OnEnds(net') /\ OnEnds(sent') /\ OnEnds(starts')
    BY <1>2, <1>3, <2>1 DEF OnEnds
  <2>9. Stream(e)' = F
    BY <1>3 DEF Stream
  <2>10. SentAt(e)'
    BY <1>2, <1>3, <2>5, <2>6, SentSame DEF SndSame
  <2>11. ReceivedAt(p)'
    BY <1>1, <1>2, <1>3, <2>6, <2>7, ReceivedSame
  <2>12. ReceivedAt(e)'
    <3>1. /\ messages \in Seq(Seq(Fragment)) /\ Len(messages) \in Nat /\ c \in Nat
          /\ c + 1 \in DOMAIN messages
      BY <2>2, <2>3, <2>4
    <3> DEFINE S1 == Seq(Fragment)
    <3>2. messages \in Seq(S1) /\ messages[c + 1] \in S1 /\ received[e] \in Seq(S1)
      BY <2>3, <3>1
    <3> HIDE DEF S1
    <3>3. /\ received'[e] \in Seq(S1) /\ Len(received'[e]) = c + 1
          /\ received'[e] = SubSeq(messages, 1, c + 1)
      <4>1. received'[e] = Append(SubSeq(messages, 1, c), messages[c + 1])
        BY <2>3, <2>4, <2>7
      <4>2. Append(SubSeq(messages, 1, c), messages[c + 1]) = SubSeq(messages, 1, c + 1)
        BY <3>1, <3>2, <2>4
      <4>3. SubSeq(messages, 1, c + 1) \in Seq(S1) /\ Len(SubSeq(messages, 1, c + 1)) = c + 1
        BY <3>1, <3>2, <2>4
      <4>4. QED
        BY <4>1, <4>2, <4>3
    <3>4. first[(c + 1) + 1] = base + n
      BY <2>2, <2>3, <2>4, <3>1 DEF Laid
    <3>5. sent'[p] = messages /\ starts'[p] = first
      BY <1>3 DEF messages, first
    <3>6. c + 1 <= Len(messages)
      BY <2>4, <3>1
    <3>7. QED
      BY <2>5, <2>6, <3>3, <3>4, <3>5, <3>6 DEF ReceivedAt, S1
  <2>13. net'[e] \in Seq(S) /\ net'[p] \in Seq(Seq(Valid(q, F)))
    <3>1. /\ Pos(k.rcv_nxt) \in Nat /\ Pos(q.rcv_nxt) \in Nat
          /\ Pos(k.snd_nxt) \in Nat /\ Pos(q.snd_nxt) \in Nat
      BY <1>4, <2>6, BlockFields
    <3>2. Pos(k.snd_nxt) <= Pos(q.snd_nxt)
      BY <2>5, <3>1 DEF SndSame
    <3> HIDE DEF F
    <3>3. Agree(F, F, Pos(k.snd_nxt))
      BY DEF Agree
    <3>4. Valid(k, F) \subseteq Valid(q, F)
      BY <2>5, <3>1, <3>2, <3>3, ValidLater
    <3>5. net'[p] \in Seq(Seq(Valid(q, F)))
      BY <1>2, <1>3, <3>4, DatagramsLater
    <3>6. QED
      BY <1>2, <1>3, <3>5
  <2>14. /\ Pair(q, kcp[p], Stream(e)', Stream(p))
         /\ net'[p] \in Seq(Seq(Valid(q, Stream(e)')))
    BY <2>5, <2>9, <2>13
  <2>15. QED
    BY <1>3, <2>1, <2>7, <2>8, <2>10, <2>11, <2>12, <2>13, <2>14, StepInv
<1>7. QED
  BY <1>5, <1>6

\* One more message leaves the stream within half the numbers.
LEMMA RoomForMessage ==
  ASSUME NEW e \in Ends, NEW s \in Nat, s < MaxSent[e], NEW top \in Nat,
         top <= (RcvWnd - 1) * s, NEW n \in Fragments
  PROVE  top + n <= (RcvWnd - 1) * (s + 1) /\ top + n <= Limit
<1> DEFINE w == RcvWnd - 1
           most == MaxSent[e]
<1>1. RcvWnd \in Nat /\ n \in Nat /\ 1 <= n /\ n <= w /\ w \in Nat
  BY HalfIs DEF Fragments
<1>2. most \in Nat /\ s + 1 <= most
  BY BoundsAssumption
<1>3. most * w + RcvWnd <= Half
  BY LifetimeAssumption DEF Half
<1> HIDE DEF w, most
<1>4. w * (s + 1) = w * s + w
  BY <1>1
<1>5. w * (s + 1) <= most * w
  <2> DEFINE d == (most - s) - 1
  <2>1. d \in Nat /\ most = (s + 1) + d
    BY <1>2
  <2> HIDE DEF d
  <2>2. most * w = w * (s + 1) + w * d /\ w * d \in Nat /\ w * (s + 1) \in Nat
    BY <1>1, <2>1
  <2>3. QED
    BY <2>2
<1>6. w * s \in Nat /\ most * w \in Nat /\ w * (s + 1) \in Nat
  BY <1>1, <1>2
<1>7. top <= w * s
  BY DEF w
<1>8. top + n <= w * (s + 1)
  BY <1>1, <1>4, <1>6, <1>7
<1>9. top + n <= Half - RcvWnd
  BY <1>1, <1>3, <1>5, <1>6, <1>8, HalfIs
<1>10. QED
  BY <1>8, <1>9 DEF w, Limit

LEMMA SendPktStep ==
  ASSUME Inv, NEW e \in Ends, SendPkt(e)
  PROVE  Inv'
<1> DEFINE p == Peer(e)
           s == Len(sent[e])
           F == Stream(e)
           G == Stream(p)
           H == Stream(e)'
           top == Last(starts[e])
<1>1. p \in Ends /\ p # e /\ Peer(p) = e
  BY PeerIs
<1>2. /\ SentAt(e) /\ ReceivedAt(e) /\ ReceivedAt(p)
      /\ Pair(kcp[e], kcp[p], F, G) /\ net[e] \in Seq(Seq(Valid(kcp[p], G)))
      /\ kcp \in [Ends -> ControlBlocks]
      /\ sent = [x \in Ends |-> sent[x]] /\ starts = [x \in Ends |-> starts[x]]
      /\ OnEnds(pc) /\ OnEnds(received)
  BY <1>1 DEF Inv, PairAt, OnEnds
<1>3. PICK n \in Fragments :
        LET m == Message(Len(sent[e]) + 1, n)
        IN  /\ Len(sent[e]) < MaxSent[e]
            /\ FlushFrom(e, ikcp_send(kcp[e], m), {}, FALSE)
            /\ sent' = [sent EXCEPT ![e] = Append(@, m)]
            /\ starts' = [starts EXCEPT ![e] = Append(@, Last(@) + n)]
            /\ UNCHANGED <<pc, faults, received>>
  BY DEF SendPkt
<1> DEFINE m == Message(s + 1, n)
           k == ikcp_send(kcp[e], m)
<1>4. /\ s < MaxSent[e] /\ FlushFrom(e, k, {}, FALSE)
      /\ sent' = [sent EXCEPT ![e] = Append(sent[e], m)]
      /\ starts' = [starts EXCEPT ![e] = Append(starts[e], top + n)]
      /\ UNCHANGED <<pc, received>>
  BY <1>3
<1>5. /\ OnEnds(sent') /\ OnEnds(starts') /\ OnEnds(pc') /\ OnEnds(received')
      /\ sent'[e] = Append(sent[e], m) /\ starts'[e] = Append(starts[e], top + n)
      /\ sent'[p] = sent[p] /\ starts'[p] = starts[p]
      /\ received'[e] = received[e] /\ received'[p] = received[p]
  BY <1>1, <1>2, <1>4 DEF OnEnds
<1>6. /\ sent[e] \in Seq(Seq(Fragment)) /\ starts[e] \in Seq(Nat) /\ Laid(sent[e], starts[e])
      /\ s \in Nat /\ top <= (RcvWnd - 1) * s
      /\ top = Pos(kcp[e].snd_nxt) + Len(kcp[e].snd_queue)
  BY <1>2 DEF SentAt
<1> HIDE DEF m
<1>7. /\ m \in Seq(Fragment) /\ Len(m) = n
      /\ sent'[e] \in Seq(Seq(Fragment)) /\ starts'[e] \in Seq(Nat)
      /\ Laid(sent'[e], starts'[e]) /\ Last(starts'[e]) = top + n
      /\ top \in Nat
      /\ \A i \in 1..n : Fragm(sent'[e], starts'[e], top + i - 1) = m[i]
      /\ \A a \in Nat : a < top
            => Fragm(sent'[e], starts'[e], a) = Fragm(sent[e], starts[e], a)
  <2> DEFINE messages == sent[e]
             first == starts[e]
             messages2 == sent'[e]
             first2 == starts'[e]
  <2>1. /\ messages \in Seq(Seq(Fragment)) /\ first \in Seq(Nat) /\ Laid(messages, first)
        /\ m = Message(Len(messages) + 1, n)
        /\ messages2 = Append(messages, m) /\ first2 = Append(first, Last(first) + n)
    BY <1>5, <1>6 DEF m
  <2> HIDE DEF messages, first, messages2, first2
  <2>2. n \in Fragments
    BY <1>3
  <2>3. /\ m \in Seq(Fragment) /\ Len(m) = n
        /\ messages2 \in Seq(Seq(Fragment)) /\ first2 \in Seq(Nat)
        /\ Laid(messages2, first2) /\ Last(first2) = Last(first) + n
        /\ Last(first) \in Nat
        /\ \A i \in 1..n : Fragm(messages2, first2, Last(first) + i - 1) = m[i]
        /\ \A a \in Nat :
             a < Last(first) => Fragm(messages2, first2, a) = Fragm(messages, first, a)
    BY <2>1, <2>2, StreamAppend
  <2>4. QED
    BY <2>3 DEF messages, first, messages2, first2
<1>8. top + n <= (RcvWnd - 1) * (s + 1) /\ top + n <= Limit
  BY <1>4, <1>6, <1>7, RoomForMessage
<1>9. n \in Nat /\ n >= 1
  BY HalfIs DEF Fragments
<1>10. /\ H = [a \in Nat |-> Fragm(sent'[e], starts'[e], a)]
       /\ F = [a \in Nat |-> Fragm(sent[e], starts[e], a)]
  BY DEF Stream
<1> HIDE DEF H, F
<1>11. Agree(H, F, top)
  BY <1>7, <1>10 DEF Agree
<1> HIDE DEF top
<1>12. \A i \in 1..n : H[top + i - 1] = m[i]
  <2>1. ASSUME NEW i \in 1..n PROVE H[top + i - 1] = m[i]
    <3> DEFINE a == top + i - 1
    <3>1. a \in Nat
      BY <1>7, <1>9
    <3>2. Fragm(sent'[e], starts'[e], a) = m[i]
      BY <1>7
    <3> HIDE DEF a
    <3>3. H[a] = m[i]
      BY <1>10, <3>1, <3>2
    <3>4. QED
      BY <3>3 DEF a
  <2>2. QED
    BY <2>1
<1>13. kcp[e] \in ControlBlocks /\ Pos(kcp[e].snd_nxt) \in Nat /\ Len(kcp[e].snd_queue) \in Nat
  <2>1. kcp[e] \in ControlBlocks
    BY <1>2
  <2>2. QED
    BY <2>1, BlockFields
<1>14. Pair(kcp[e], kcp[p], H, G)
  BY <1>2, <1>6, <1>11, StreamLonger
<1>15. /\ Pair(k, kcp[p], H, G) /\ RcvSame(kcp[e], k) /\ k.snd_nxt = kcp[e].snd_nxt
       /\ Len(k.snd_queue) = Len(kcp[e].snd_queue) + n
  <2>1. Follows(m, Pos(kcp[e].snd_nxt) + Len(kcp[e].snd_queue), H)
    <3>1. DOMAIN m = 1..n
      BY <1>7
    <3>2. \A i \in DOMAIN m : m[i] = H[top + i - 1]
      BY <1>12, <3>1
    <3>3. QED
      BY <1>6, <3>2 DEF Follows
  <2>2. Pos(kcp[e].snd_nxt) + Len(kcp[e].snd_queue) + Len(m) <= Limit
    BY <1>6, <1>7, <1>8
  <2>3. m \in Seq(Fragment) /\ Len(m) = n
    BY <1>7
  <2>4. QED
    BY <1>14, <2>1, <2>2, <2>3, SendIs
<1> HIDE DEF k
<1>16. PICK q : After(e, k, q, H)
  <2>1. Agree(H, Stream(e), Pos(k.snd_nxt))
    <3>1. \A a \in Nat : a < Pos(k.snd_nxt) => a < top
      BY <1>6, <1>13, <1>15
    <3>2. QED
      BY <1>11, <3>1 DEF F, Agree
  <2>2. FlushFrom(e, k, {}, FALSE)
    BY <1>4
  <2>3. Pair(k, kcp[p], H, G) /\ RcvSame(kcp[e], k) /\ k.snd_nxt = kcp[e].snd_nxt
    BY <1>15
  <2> HIDE DEF H
  <2>4. QED
    BY <2>1, <2>2, <2>3, FlushStep
<1>17. /\ kcp' = [kcp EXCEPT ![e] = q]
       /\ OnEnds(net') /\ net'[e] = net[e]
       /\ net'[p] \in Seq(Seq(Valid(q, H)))
       /\ Pair(q, kcp[p], H, G)
       /\ q.rcv_nxt = kcp[e].rcv_nxt /\ q.rcv_queue = kcp[e].rcv_queue
       /\ Pos(q.snd_nxt) + Len(q.snd_queue) = Pos(k.snd_nxt) + Len(k.snd_queue)
  BY <1>16 DEF After
<1>18. kcp'[e] = q /\ kcp'[p] = kcp[p]
  BY <1>1, <1>2, <1>17
<1>19. SentAt(e)'
  <2>1. Len(sent'[e]) = s + 1 /\ s + 1 <= MaxSent[e]
    <3>1. Len(sent'[e]) = s + 1
      BY <1>5, <1>6, <1>7
    <3>2. MaxSent[e] \in Nat
      BY BoundsAssumption
    <3>3. QED
      BY <1>4, <1>6, <3>1, <3>2
  <2>2. Last(starts'[e]) <= (RcvWnd - 1) * Len(sent'[e])
    BY <1>7, <1>8, <2>1
  <2>3. Last(starts'[e]) = Pos(kcp'[e].snd_nxt) + Len(kcp'[e].snd_queue)
    BY <1>6, <1>7, <1>9, <1>13, <1>15, <1>17, <1>18
  <2>4. QED
    BY <1>7, <2>1, <2>2, <2>3 DEF SentAt
<1>20. ReceivedAt(e)'
  BY <1>1, <1>2, <1>5, <1>17, <1>18, ReceivedSame
<1>21. ReceivedAt(p)'
  <2> DEFINE c == Len(received[p])
  <2>1. /\ received[p] \in Seq(Seq(Fragment)) /\ c <= s /\ c \in Nat
        /\ received[p] = SubSeq(sent[e], 1, c)
        /\ starts[e][c + 1] = Pos(kcp[p].rcv_nxt) - Len(kcp[p].rcv_queue)
    BY <1>1, <1>2 DEF ReceivedAt
  <2>2. Len(starts[e]) = s + 1
    BY <1>6 DEF Laid
  <2> DEFINE S1 == Seq(Fragment)
  <2>3. sent[e] \in Seq(S1) /\ m \in S1
    BY <1>6, <1>7
  <2> HIDE DEF c, S1
  <2>4. SubSeq(sent'[e], 1, c) = SubSeq(sent[e], 1, c) /\ Len(sent'[e]) = s + 1
    BY <1>5, <1>6, <2>1, <2>3
  <2>5. starts'[e][c + 1] = starts[e][c + 1]
    BY <1>5, <1>6, <1>7, <1>9, <2>1, <2>2
  <2>6. c <= s + 1
    BY <1>6, <2>1
  <2>7. QED
    BY <1>1, <1>5, <1>18, <2>1, <2>4, <2>5, <2>6 DEF ReceivedAt, c
<1>22. Pair(q, kcp[p], Stream(e)', G) /\ net'[p] \in Seq(Seq(Valid(q, Stream(e)')))
  BY <1>17 DEF H
<1>23. QED
  BY <1>2, <1>5, <1>17, <1>19, <1>20, <1>21, <1>22, StepInv

(***************************************************************************)
(* The theorems.                                                           *)
(***************************************************************************)
LEMMA InitInv == Init => Inv
<1> SUFFICES ASSUME Init PROVE Inv
  OBVIOUS
<1>1. /\ FirstSn \in SeqNumber /\ Pos(FirstSn) = 0 /\ RcvWnd \in Nat /\ SndWnd \in Nat
      /\ Limit \in Nat /\ FirstSn \in Int
  BY PosFirst, HalfIs
<1> DEFINE k == ikcp_create
<1>2. /\ k \in ControlBlocks /\ k.snd_queue = <<>> /\ k.snd_buf = <<>> /\ k.rcv_buf = <<>>
      /\ k.rcv_queue = <<>> /\ k.acklist = <<>>
      /\ k.snd_una = FirstSn /\ k.snd_nxt = FirstSn /\ k.rcv_nxt = FirstSn
  BY <1>1 DEF ikcp_create, ControlBlocks
<1> HIDE DEF k
<1>3. ASSUME NEW F PROVE SndOK(k, F) /\ RcvOK(k, F, 0) /\ AcksOK(k)
  BY <1>1, <1>2 DEF SndOK, RcvOK, AcksOK, Between, InOrder, Carries, Follows
<1>4. NoneLost(k, k)
  BY <1>1, <1>2, PosType DEF NoneLost
<1>5. ASSUME NEW F, NEW G PROVE Pair(k, k, F, G)
  BY <1>1, <1>2, <1>3, <1>4 DEF Pair
<1>6. ASSUME NEW e \in Ends PROVE PairAt(e) /\ SentAt(e) /\ ReceivedAt(e)
  <2>1. /\ Peer(e) \in Ends
        /\ kcp[e] = k /\ kcp[Peer(e)] = k /\ net[e] = <<>>
        /\ sent[e] = <<>> /\ sent[Peer(e)] = <<>>
        /\ starts[e] = <<0>> /\ starts[Peer(e)] = <<0>> /\ received[e] = <<>>
    BY PeerIs DEF Init, k
  <2>2. PairAt(e)
    BY <1>5, <2>1 DEF PairAt
  <2>3. Laid(<<>>, <<0>>)
    BY DEF Laid
  <2>4. SentAt(e)
    <3>1. MaxSent[e] \in Nat /\ (RcvWnd - 1) * 0 = 0
      BY <1>1, BoundsAssumption
    <3>2. Last(<<0>>) = 0
      BY DEF Last
    <3>3. Pos(k.snd_nxt) + Len(k.snd_queue) = 0
      BY <1>1, <1>2
    <3>4. QED
      BY <2>1, <2>3, <3>1, <3>2, <3>3 DEF SentAt
  <2>5. ReceivedAt(e)
    <3>1. Pos(k.rcv_nxt) - Len(k.rcv_queue) = 0
      BY <1>1, <1>2
    <3>2. QED
      BY <2>1, <3>1 DEF ReceivedAt
  <2>6. QED
    BY <2>2, <2>4, <2>5
<1>7. kcp \in [Ends -> ControlBlocks]
  BY <1>2 DEF Init, k
<1>8. OnEnds(pc) /\ OnEnds(net) /\ OnEnds(sent) /\ OnEnds(starts) /\ OnEnds(received)
  BY DEF Init, OnEnds
<1>9. QED
  BY <1>6, <1>7, <1>8 DEF Inv

LEMMA StutterInv == Inv /\ UNCHANGED vars => Inv'
BY DEF Inv, vars, OnEnds, PairAt, SentAt, ReceivedAt, Stream

LEMMA NextInv == Inv /\ [Next]_vars => Inv'
<1>1. ASSUME Inv, NEW e \in Ends, UpdateThread(e) PROVE Inv'
  BY <1>1, UpdateStep, RetransmitStep DEF UpdateThread
<1>2. ASSUME Inv, Next PROVE Inv'
  BY <1>1, <1>2, SendPktStep, InputStep, RecvStep, LoseStep DEF Next
<1>3. QED
  BY <1>2, StutterInv

\* For any windows, sizes and bounds: each end holds in its buffers exactly what
\* the other end still needs, and what was received is a part of what was sent.
THEOREM KcpInvariant == Spec => []Inv
BY InitInv, NextInv, PTL DEF Spec

\* As long as positions stay in half the numbers the comparison is the one of
\* the positions.
LEMMA DiffSmall ==
  ASSUME NEW x \in SeqNumber, NEW y \in SeqNumber, Pos(x) <= Limit, Pos(y) <= Limit
  PROVE  Diff(x, y) = Pos(x) - Pos(y)
<1>1. Pos(x) \in Nat /\ Pos(y) \in Nat
  BY PosType
<1>2. Pos(x) <= Half /\ Pos(y) <= Half /\ Pos(x) < Half
  BY <1>1, HalfIs
<1>3. QED
  BY <1>2, DiffPos

LEMMA PairAgrees ==
  ASSUME NEW s, NEW r, NEW F, NEW G, Pair(s, r, F, G)
  PROVE  /\ Diff(s.snd_nxt, s.snd_una) \in 0..SndWnd
         /\ Diff(s.snd_nxt, r.rcv_nxt) >= 0
         /\ \A n \in 0..Diff(s.snd_nxt, r.rcv_nxt) - 1 :
               \/ Has(s.snd_buf, Plus(r.rcv_nxt, n))
               \/ Has(r.rcv_buf, Plus(r.rcv_nxt, n))
         /\ \A i \in DOMAIN s.snd_buf : Outstanding(s, s.snd_buf[i].sn)
         /\ \A i \in DOMAIN r.rcv_buf :
               Diff(r.rcv_buf[i].sn, r.rcv_nxt) \in 0..Diff(s.snd_nxt, r.rcv_nxt) - 1
         /\ \A i \in 2..Len(s.snd_buf) : Diff(s.snd_buf[i].sn, s.snd_buf[i - 1].sn) > 0
         /\ \A i \in 2..Len(r.rcv_buf) : Diff(r.rcv_buf[i].sn, r.rcv_buf[i - 1].sn) > 0
<1> DEFINE nxt == Pos(s.snd_nxt)
           una == Pos(s.snd_una)
           rcv == Pos(r.rcv_nxt)
<1>1. /\ s \in ControlBlocks /\ r \in ControlBlocks /\ SndOK(s, F)
      /\ RcvOK(r, F, nxt) /\ NoneLost(s, r)
  BY DEF Pair
<1>2. /\ s.snd_nxt \in SeqNumber /\ s.snd_una \in SeqNumber /\ r.rcv_nxt \in SeqNumber
      /\ nxt \in Nat /\ una \in Nat /\ rcv \in Nat
      /\ s.snd_buf \in Seq(SegmentsOut) /\ r.rcv_buf \in Seq(SegmentsIn)
      /\ Len(s.snd_queue) \in Nat
      /\ \A i \in DOMAIN s.snd_buf :
           s.snd_buf[i].sn \in SeqNumber /\ Pos(s.snd_buf[i].sn) \in Nat
      /\ \A i \in DOMAIN r.rcv_buf :
           r.rcv_buf[i].sn \in SeqNumber /\ Pos(r.rcv_buf[i].sn) \in Nat
  BY <1>1, BlockFields
<1>3. una <= nxt /\ nxt <= una + SndWnd /\ nxt + Len(s.snd_queue) <= Limit
      /\ Between(s.snd_buf, una, nxt) /\ InOrder(s.snd_buf)
  BY <1>1 DEF SndOK
<1>4. rcv <= nxt /\ Between(r.rcv_buf, rcv, nxt) /\ InOrder(r.rcv_buf)
  BY <1>1 DEF RcvOK
<1>5. Limit \in Nat /\ SndWnd \in Nat /\ Limit < Modulus /\ nxt <= Limit
      /\ una <= Limit /\ rcv <= Limit
  BY <1>2, <1>3, <1>4, HalfIs
<1>6. Diff(s.snd_nxt, s.snd_una) = nxt - una /\ Diff(s.snd_nxt, r.rcv_nxt) = nxt - rcv
  BY <1>2, <1>5, DiffSmall
<1> HIDE DEF nxt, una, rcv
<1>7. Diff(s.snd_nxt, s.snd_una) \in 0..SndWnd /\ Diff(s.snd_nxt, r.rcv_nxt) >= 0
  BY <1>2, <1>3, <1>4, <1>5, <1>6
<1>8. ASSUME NEW n \in 0..Diff(s.snd_nxt, r.rcv_nxt) - 1
      PROVE  Has(s.snd_buf, Plus(r.rcv_nxt, n)) \/ Has(r.rcv_buf, Plus(r.rcv_nxt, n))
  <2> DEFINE sn == Plus(r.rcv_nxt, n)
  <2>1. n \in Nat /\ rcv + n < nxt /\ rcv + n < Modulus
    BY <1>2, <1>5, <1>6, HalfIs
  <2>2. sn \in SeqNumber /\ Pos(sn) = rcv + n
    BY <1>2, <2>1, PosPlus DEF rcv
  <2> HIDE DEF sn
  <2>3. Has(s.snd_buf, sn) \/ Got(r, sn)
    BY <1>1, <2>1, <2>2 DEF NoneLost, nxt
  <2>4. ~(Pos(sn) < Pos(r.rcv_nxt))
    BY <1>2, <2>1, <2>2 DEF rcv
  <2>5. QED
    BY <2>3, <2>4 DEF Got, sn
<1>9. ASSUME NEW i \in DOMAIN s.snd_buf PROVE Outstanding(s, s.snd_buf[i].sn)
  <2>1. /\ s.snd_buf[i].sn \in SeqNumber /\ Pos(s.snd_buf[i].sn) \in Nat
        /\ una <= Pos(s.snd_buf[i].sn) /\ Pos(s.snd_buf[i].sn) < nxt
    BY <1>2, <1>3 DEF Between
  <2>2. Pos(s.snd_buf[i].sn) <= Limit
    BY <1>2, <1>5, <2>1
  <2>3. QED
    BY <1>1, <2>1, <2>2, OutstandingIs DEF nxt, una
<1>10. ASSUME NEW i \in DOMAIN r.rcv_buf
       PROVE  Diff(r.rcv_buf[i].sn, r.rcv_nxt) \in 0..Diff(s.snd_nxt, r.rcv_nxt) - 1
  <2> DEFINE sn == r.rcv_buf[i].sn
  <2>1. sn \in SeqNumber /\ Pos(sn) \in Nat /\ rcv <= Pos(sn) /\ Pos(sn) < nxt
    BY <1>2, <1>4 DEF Between
  <2> HIDE DEF sn
  <2>2. Diff(sn, r.rcv_nxt) = Pos(sn) - rcv
    BY <1>2, <1>5, <2>1, DiffSmall DEF rcv
  <2>3. Diff(sn, r.rcv_nxt) \in 0..(nxt - rcv) - 1
    BY <1>2, <2>1, <2>2
  <2>4. QED
    BY <1>6, <2>3 DEF sn
<1>11. ASSUME NEW i \in 2..Len(s.snd_buf)
       PROVE  Diff(s.snd_buf[i].sn, s.snd_buf[i - 1].sn) > 0
  <2> DEFINE x == s.snd_buf[i].sn
             y == s.snd_buf[i - 1].sn
  <2>1. i \in DOMAIN s.snd_buf /\ i - 1 \in DOMAIN s.snd_buf /\ i - 1 < i
    BY <1>2
  <2>2. /\ x \in SeqNumber /\ y \in SeqNumber /\ Pos(x) \in Nat /\ Pos(y) \in Nat
        /\ Pos(x) < nxt /\ Pos(y) < nxt /\ Pos(y) < Pos(x)
    BY <1>2, <1>3, <2>1 DEF Between, InOrder
  <2> HIDE DEF x, y
  <2>3. Diff(x, y) = Pos(x) - Pos(y)
    BY <1>2, <1>5, <2>2, DiffSmall
  <2>4. QED
    BY <2>2, <2>3 DEF x, y
<1>12. ASSUME NEW i \in 2..Len(r.rcv_buf)
       PROVE  Diff(r.rcv_buf[i].sn, r.rcv_buf[i - 1].sn) > 0
  <2> DEFINE x == r.rcv_buf[i].sn
             y == r.rcv_buf[i - 1].sn
  <2>1. i \in DOMAIN r.rcv_buf /\ i - 1 \in DOMAIN r.rcv_buf /\ i - 1 < i
    BY <1>2
  <2>2. /\ x \in SeqNumber /\ y \in SeqNumber /\ Pos(x) \in Nat /\ Pos(y) \in Nat
        /\ Pos(x) < nxt /\ Pos(y) < nxt /\ Pos(y) < Pos(x)
    BY <1>2, <1>4, <2>1 DEF Between, InOrder
  <2> HIDE DEF x, y
  <2>3. Diff(x, y) = Pos(x) - Pos(y)
    BY <1>2, <1>5, <2>2, DiffSmall
  <2>4. QED
    BY <2>2, <2>3 DEF x, y
<1>13. QED
  BY <1>7, <1>8, <1>9, <1>10, <1>11, <1>12

LEMMA InvAgrees == Inv => WindowsAgree
<1> SUFFICES ASSUME Inv PROVE WindowsAgree
  OBVIOUS
<1>1. TypeOK
  BY DEF Inv, PairAt, Pair, RcvOK, TypeOK
<1>2. \A e \in Ends : Pair(kcp[e], kcp[Peer(e)], Stream(e), Stream(Peer(e)))
  BY DEF Inv, PairAt
<1>3. QED
  BY <1>1, <1>2, PairAgrees DEF WindowsAgree

\* Whatever the network does to the datagrams, at most SndWnd segments are
\* outstanding, what a receiver has was sent, and what it has not is with the
\* sender: for any windows, any modulus and any number of messages and faults.
THEOREM KcpWindowsAgree == Spec => []WindowsAgree
BY KcpInvariant, InvAgrees, PTL

(***************************************************************************)
(* Each direction is a channel of messages.                                *)
(***************************************************************************)
Payloads ==
    {Message(id, n) : id \in 1..Max({MaxSent[e] : e \in Ends}), n \in Fragments}
Delivered == [e \in Ends |-> received[Peer(e)]]

LEMMA MostSent ==
  ASSUME NEW e \in Ends
  PROVE  /\ Max({MaxSent[x] : x \in Ends}) \in Nat
         /\ MaxSent[e] <= Max({MaxSent[x] : x \in Ends})
<1> DEFINE T == {MaxSent[x] : x \in Ends}
           n == MaxSent[e] + MaxSent[Peer(e)]
<1>1. /\ MaxSent \in [Ends -> Nat] /\ Peer(e) \in Ends
      /\ \A x \in Ends : x = e \/ x = Peer(e)
  BY BoundsAssumption, PeerIs
<1>2. MaxSent[e] \in Nat /\ MaxSent[Peer(e)] \in Nat
  BY <1>1
<1>3. n \in Nat /\ T \in SUBSET (0..n) /\ T # {} /\ MaxSent[e] \in T
  BY <1>1, <1>2
<1> HIDE DEF T, n
<1>4. Max(T) \in T /\ \A y \in T : Max(T) >= y
  BY <1>3, MaxIs
<1>5. Max(T) \in Nat /\ MaxSent[e] <= Max(T)
  <2>1. Max(T) \in 0..n
    BY <1>3, <1>4
  <2>2. Max(T) \in Nat
    BY <1>3, <2>1
  <2>3. QED
    BY <1>2, <1>3, <1>4, <2>2
<1>6. QED
  BY <1>5 DEF T

LEMMA PayloadIs ==
  ASSUME NEW id \in 1..Max({MaxSent[x] : x \in Ends}), NEW n \in Fragments
  PROVE  Message(id, n) \in Payloads
<1> DEFINE most == Max({MaxSent[x] : x \in Ends})
<1>1. Payloads = {Message(i, j) : i \in 1..most, j \in Fragments}
  BY DEF Payloads
<1>2. id \in 1..most
  OBVIOUS
<1> HIDE DEF most
<1>3. QED
  BY <1>1, <1>2

LEMMA ChannelNext ==
  Channel!Next <=>
     \E x \in Ends : (\E m \in Payloads : Channel!Send(x, m)) \/ Channel!Receive(x)
BY DEF Channel!Next, Payloads

LEMMA ChannelSend ==
  ASSUME Inv, NEW e \in Ends, SendPkt(e)
  PROVE  Channel!Next
<1> DEFINE s == Len(sent[e])
<1>1. PICK n \in Fragments :
        /\ s < MaxSent[e] /\ UNCHANGED received
        /\ sent' = [sent EXCEPT ![e] = Append(@, Message(s + 1, n))]
  BY DEF SendPkt
<1>2. Message(s + 1, n) \in Payloads
  <2>1. s \in Nat
    BY DEF Inv, SentAt
  <2>2. MaxSent[e] \in Nat
    BY BoundsAssumption
  <2> DEFINE most == Max({MaxSent[x] : x \in Ends})
  <2>3. most \in Nat /\ MaxSent[e] <= most
    BY MostSent
  <2> HIDE DEF s, most
  <2>4. s + 1 \in 1..most
    BY <1>1, <2>1, <2>2, <2>3
  <2>5. QED
    BY <2>4, PayloadIs DEF most
<1> HIDE DEF s
<1>3. Channel!Send(e, Message(s + 1, n))
  <2>1. Delivered' = Delivered
    BY <1>1 DEF Delivered
  <2>2. QED
    BY <1>1, <2>1 DEF Channel!Send, Delivered
<1>4. QED
  BY <1>2, <1>3, ChannelNext

LEMMA ChannelReceive ==
  ASSUME Inv, NEW e \in Ends, Recv(e), ikcp_peeksize(kcp[e]) # 0
  PROVE  Channel!Next
<1> DEFINE p == Peer(e)
           n == ikcp_peeksize(kcp[e])
           got == SubSeq(kcp[e].rcv_queue, 1, n)
           c == Len(received[e])
<1>1. /\ p \in Ends /\ p # e /\ Peer(p) = e
      /\ \A x \in Ends : x = e \/ x = p
  BY PeerIs
<1>2. received' = [received EXCEPT ![e] = Append(@, got)] /\ UNCHANGED sent
  BY DEF Recv
<1>3. c < Len(sent[p]) /\ got = sent[p][c + 1]
  BY PeekAt
<1>4. received = [x \in Ends |-> received[x]]
  BY DEF Inv, OnEnds
<1> HIDE DEF got
<1>5. received'[e] = Append(received[e], got) /\ received'[p] = received[p]
  BY <1>1, <1>2, <1>4
<1>6. Delivered[p] = received[e]
  BY <1>1 DEF Delivered
<1>7. Delivered' = [Delivered EXCEPT ![p] = Append(@, got)]
  <2>1. Delivered' = [x \in Ends |-> received'[Peer(x)]]
    BY DEF Delivered
  <2>2. \A x \in Ends : received'[Peer(x)] =
                           IF x = p THEN Append(received[e], got) ELSE received[Peer(x)]
    BY <1>1, <1>5
  <2>3. QED
    BY <1>1, <1>6, <2>1, <2>2 DEF Delivered
<1>8. Channel!Receive(p)
  <2>1. Len(Delivered[p]) < Len(sent[p])
    BY <1>3, <1>6
  <2>2. Delivered' = [Delivered EXCEPT ![p] = Append(@, sent[p][Len(@) + 1])]
    BY <1>1, <1>3, <1>6, <1>7 DEF Delivered
  <2>3. QED
    BY <1>2, <2>1, <2>2 DEF Channel!Receive, Delivered
<1>9. QED
  BY <1>1, <1>8, ChannelNext

LEMMA ChannelStep == Inv /\ [Next]_vars => [Channel!Next]_<<sent, Delivered>>
<1> SUFFICES ASSUME Inv, [Next]_vars PROVE Channel!Next \/ UNCHANGED <<sent, Delivered>>
  OBVIOUS
<1>1. UNCHANGED <<sent, received>> => UNCHANGED <<sent, Delivered>>
  BY DEF Delivered
<1>2. CASE UNCHANGED vars
  BY <1>1, <1>2 DEF vars
<1>3. ASSUME NEW e \in Ends, SendPkt(e) PROVE Channel!Next
  BY <1>3, ChannelSend
<1>4. ASSUME NEW e \in Ends, UpdateThread(e) PROVE UNCHANGED <<sent, received>>
  BY <1>4 DEF UpdateThread, Update, Retransmit
<1>5. ASSUME NEW e \in Ends, Input(e) PROVE UNCHANGED <<sent, received>>
  BY <1>5 DEF Input
<1>6. ASSUME NEW e \in Ends, Lose(e) PROVE UNCHANGED <<sent, received>>
  BY <1>6 DEF Lose
<1>7. ASSUME NEW e \in Ends, Recv(e)
      PROVE  Channel!Next \/ UNCHANGED <<sent, received>>
  <2>1. CASE ikcp_peeksize(kcp[e]) = 0
    BY <1>7, <2>1 DEF Recv
  <2>2. CASE ikcp_peeksize(kcp[e]) # 0
    BY <1>7, <2>2, ChannelReceive
  <2>3. QED
    BY <2>1, <2>2
<1>8. CASE Next
  BY <1>1, <1>3, <1>4, <1>5, <1>6, <1>7, <1>8 DEF Next
<1>9. QED
  BY <1>2, <1>8

\* Each direction of a connection is a channel of messages, whatever is lost,
\* doubled or overtaken on the way: a message comes out whole, once and in order.
THEOREM KcpImplementsChannel == Spec => ImplementsChannel
<1>1. Init => Channel!Init
  <2> SUFFICES ASSUME Init PROVE Channel!Init
    OBVIOUS
  <2>1. /\ sent = [e \in Ends |-> <<>>]
        /\ \A e \in Ends : received[Peer(e)] = <<>>
    BY PeerIs DEF Init
  <2>2. [e \in Ends |-> received[Peer(e)]] = sent
    BY <2>1
  <2>3. QED
    BY <2>1, <2>2 DEF Channel!Init
<1>2. Inv /\ [Next]_vars => [Channel!Next]_<<sent, [e \in Ends |-> received[Peer(e)]]>>
  BY ChannelStep DEF Delivered
<1>3. QED
  BY <1>1, <1>2, KcpInvariant, PTL DEF Spec, ImplementsChannel, Channel!Spec
=============================================================================
