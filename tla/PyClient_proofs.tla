--------------------------- MODULE PyClient_proofs --------------------------
(***************************************************************************)
(* What is proved of the Python client, for any number of buffers, packets *)
(* and requests and any size of its ring: that its variables keep their    *)
(* types and its ring and counter their bounds, that the table of requests *)
(* goes bad only after a request has left it before an older one, and that *)
(* pictures reach the display in the order of the stream.                  *)
(***************************************************************************)
EXTENDS PyClient, FiniteSetTheorems, WellFoundedInduction, TLAPS

(***************************************************************************)
(* The ring of buffer ids: when two positions share a slot of a ring of m, *)
(* and where the walk over the unused slot ends.                           *)
(***************************************************************************)
\* What division with a remainder is.
LEMMA Division ==
  ASSUME NEW i \in Nat, NEW m \in Nat \ {0}
  PROVE  /\ i % m \in 0..m - 1
         /\ i \div m \in Int
         /\ i = m * (i \div m) + (i % m)
OBVIOUS

\* Multiples of m are m apart.
LEMMA Multiples ==
  ASSUME NEW m \in Nat \ {0}
  PROVE  /\ \A d \in Int : d > 1 => m * d >= 2 * m
         /\ \A d \in Int : d <= 0 => m * d <= 0
         /\ \A a, b \in Int : m * b - m * a = m * (b - a)
<1>1. \A d \in Int : d > 1 => m * d >= 2 * m
  <2> SUFFICES ASSUME NEW d \in Int, d > 1 PROVE m * d >= 2 * m
    OBVIOUS
  <2>1. m * d = 2 * m + m * (d - 2)
    OBVIOUS
  <2>2. m * (d - 2) >= 0
    OBVIOUS
  <2>3. m * d \in Int /\ m * (d - 2) \in Int
    OBVIOUS
  <2>4. QED
    BY <2>1, <2>2, <2>3
<1>2. \A d \in Int : d <= 0 => m * d <= 0
  OBVIOUS
<1>3. \A a, b \in Int : m * b - m * a = m * (b - a)
  OBVIOUS
<1>4. QED
  BY <1>1, <1>2, <1>3

\* Of the positions up to m after i, only i + m can have the slot of i.
LEMMA SameSlot ==
  ASSUME NEW m \in Nat \ {0}, NEW i \in Nat, NEW j \in Nat, i <= j, j <= i + m,
         i % m = j % m
  PROVE  i = j \/ j = i + m
<1> DEFINE a == i \div m
           b == j \div m
           r == i % m
<1>1. a \in Int /\ b \in Int /\ r \in Int
  BY Division
<1>2. i = m * a + r
  BY Division
<1>3. j = m * b + r
  BY Division
<1> HIDE DEF a, b, r
<1>4. j - i = m * (b - a) /\ b - a \in Int
  <2>1. j - i = m * b - m * a
    BY <1>1, <1>2, <1>3
  <2>2. QED
    BY <1>1, <2>1, Multiples
<1>5. CASE b - a > 1
  BY <1>4, <1>5, Multiples
<1>6. CASE b - a = 1
  BY <1>4, <1>6
<1>7. CASE b - a <= 0
  BY <1>4, <1>7, Multiples
<1>8. QED
  BY <1>1, <1>5, <1>6, <1>7

\* i + m has the slot of i.
LEMMA NextTurn ==
  ASSUME NEW m \in Nat \ {0}, NEW i \in Nat
  PROVE  (i + m) % m = i % m
<1> DEFINE a == i \div m
           b == (i + m) \div m
           r == i % m
           t == (i + m) % m
<1>1. /\ a \in Int /\ b \in Int
      /\ r \in 0..m - 1 /\ t \in 0..m - 1
      /\ i = m * a + r
  BY Division
<1>2. i + m = m * b + t
  <2>1. i + m \in Nat
    OBVIOUS
  <2>2. QED
    BY <2>1, Division
<1> HIDE DEF a, b, r, t
<1>3. m + r - t = m * (b - a) /\ b - a \in Int
  <2>1. m + r - t = m * b - m * a
    BY <1>1, <1>2
  <2>2. QED
    BY <1>1, <2>1, Multiples
<1>4. CASE b - a > 1
  BY <1>1, <1>3, <1>4, Multiples
<1>5. CASE b - a <= 0
  BY <1>1, <1>3, <1>5, Multiples
<1>6. CASE b - a = 1
  BY <1>1, <1>3, <1>6 DEF r, t
<1>7. QED
  BY <1>1, <1>4, <1>5, <1>6

\* The slot after another.
LEMMA NextSlot ==
  ASSUME NEW m \in Nat, m >= 2, NEW i \in Nat
  PROVE  (i + 1) % m = IF i % m = m - 1 THEN 0 ELSE (i % m) + 1
<1> DEFINE a == i \div m
           b == (i + 1) \div m
           r == i % m
           t == (i + 1) % m
<1>0. m \in Nat \ {0}
  OBVIOUS
<1>1. /\ a \in Int /\ b \in Int
      /\ r \in 0..m - 1 /\ t \in 0..m - 1
      /\ i = m * a + r
  BY <1>0, Division
<1>2. i + 1 = m * b + t
  <2>1. i + 1 \in Nat
    OBVIOUS
  <2>2. QED
    BY <1>0, <2>1, Division
<1> HIDE DEF a, b, r, t
<1>3. r + 1 - t = m * (b - a) /\ b - a \in Int
  <2>1. r + 1 - t = m * b - m * a
    BY <1>1, <1>2
  <2>2. QED
    BY <1>0, <1>1, <2>1, Multiples
<1>4. CASE b - a > 1
  BY <1>0, <1>1, <1>3, <1>4, Multiples
<1>5. CASE b - a < 0
  <2>1. m * (b - a) = m * (b - a + 1) - m
    BY <1>3
  <2>2. m * (b - a + 1) <= 0
    BY <1>0, <1>3, <1>5, Multiples
  <2>3. m * (b - a + 1) \in Int
    BY <1>3
  <2>4. QED
    BY <1>1, <1>3, <2>1, <2>2, <2>3
<1>6. CASE b - a = 1
  BY <1>1, <1>3, <1>6 DEF r, t
<1>7. CASE b - a = 0
  BY <1>1, <1>3, <1>7 DEF r, t
<1>8. QED
  BY <1>1, <1>4, <1>5, <1>6, <1>7

\* After slot 0 comes another one.
LEMMA AfterZero ==
  ASSUME NEW m \in Nat, m >= 2, NEW i \in Nat, i % m = 0
  PROVE  (i + 1) % m # 0
<1> SUFFICES ASSUME (i + 1) % m = i % m PROVE FALSE
  OBVIOUS
<1>1. i = i + 1 \/ i + 1 = i + m
  BY SameSlot
<1>2. QED
  BY <1>1

\* When all ids are used, the walk steps over slot 0 alone.
LEMMA NextUsedOver ==
  ASSUME NEW q, q.max_idx \in Nat, q.max_idx >= 2, q.used = 1..q.max_idx, NEW i \in Nat
  PROVE  NextUsed(q, i) = IF Slot(q, i) = 0 THEN i + 1 ELSE i
<1> DEFINE m == q.max_idx
           used == {j \in i..(i + m) : Slot(q, j) \in q.used}
           n == IF Slot(q, i) = 0 THEN i + 1 ELSE i
<1>1. \A j \in Nat : Slot(q, j) \in q.used <=> j % m # 0
  <2> TAKE j \in Nat
  <2>1. m \in Nat \ {0}
    OBVIOUS
  <2>2. j % m \in 0..m - 1
    BY <2>1, Division
  <2>3. QED
    BY <2>2 DEF Slot
<1>2. n \in i..(i + m) /\ n % m # 0
  BY AfterZero DEF Slot
<1>3. n \in used /\ used \subseteq Nat
  BY <1>1, <1>2
<1>4. \A k \in used : n <= k
  <2> TAKE k \in used
  <2>1. k >= i /\ k % m # 0 /\ k \in Nat
    BY <1>1
  <2>2. QED
    BY <2>1 DEF Slot
<1>5. \A k \in used : (\A l \in used : k <= l) => k = n
  BY <1>3, <1>4
<1>6. NextUsed(q, i) = CHOOSE j \in used : \A k \in used : j <= k
  BY DEF NextUsed
<1> HIDE DEF n, used
<1>7. NextUsed(q, i) = n
  BY <1>3, <1>4, <1>5, <1>6
<1>8. QED
  BY <1>7 DEF n
-----------------------------------------------------------------------------

\* The packets and the answers on their way to a thread, and the requests to
\* the server.
Numbers(s, type) == {s[i].n : i \in {j \in DOMAIN s : s[j].type = type}}
Elements(s) == {s[i] : i \in DOMAIN s}
Asked(t) == Elements(asked[t])
Answers(t) == Numbers(net[t], "response")
Packets(t) == Numbers(net[t], "video")

\* Every packet counted is in the ring, or with the GUI thread, which counts
\* it down later; a packet published is counted a step after.
Here(t, s) == IF pc[t] = s THEN 1 ELSE 0
ThreadsAt(s) == Here("tcp", s) + Here("kcp", s)
InGui == IF gui \in {"put", "exit"} THEN 1 ELSE 0
Counted ==
    /\ recv_pkt_count + ThreadsAt("published") <= buffer_head - buffer_tail + InGui
    /\ buffer_head - buffer_tail + ThreadsAt("copied") <= RingSize + 1
    /\ gui = "put" => recv_pkt_count > 0
    /\ \A t \in Threads :
          pc[t] \in {"enqueue", "copied", "published"} => hand[t] \in Video

\* The decoder's ring is empty until its buffers are mapped, all at once.
Mapped == buf_q.used = 1..(Buffers - 1) /\ buf_q.max_idx = Buffers - 1
Ring ==
    [used : SUBSET Nat, free : SUBSET Nat, head : Nat, tail : Nat, max_idx : Nat]
RingMapped ==
    /\ buf_q \in Ring
    /\ (Mapped /\ buf_q.free = buf_q.used) \/ buf_q = EmptyQueue
    /\ gui \in {"idle", "put", "send"} => Mapped

\* Each request is once on its way to the server or back, or with one thread.
Distinct(s) == \A i, j \in DOMAIN s : s[i] = s[j] => i = j
AnswersDistinct(s) ==
    \A i, j \in DOMAIN s :
        s[i].type = "response" /\ s[j].type = "response" /\ s[i].n = s[j].n => i = j
Once ==
    /\ \A t \in Threads : Distinct(asked[t]) /\ AnswersDistinct(net[t])
    /\ Asked("tcp") \cap Asked("kcp") = {} /\ Answers("tcp") \cap Answers("kcp") = {}
    /\ \A t, u \in Threads : Asked(t) \cap Answers(u) = {}

\* Its block is in the table as long as it is on its way.
Table == live \ InHand
OnTheWay == UNION {Asked(t) \cup Answers(t) : t \in Threads}
Kept ==
    /\ \A n \in OnTheWay : n < nextId /\ \E b \in Table : idOf[b] = n
    /\ gui = "send" => nextId < MaxRequests /\ \E b \in Table : idOf[b] = nextId
    /\ \A b \in live : /\ idOf[b] \in Ids /\ idOf[b] <= nextId
                       /\ idOf[b] = nextId => gui \in {"send", "exit"}
    /\ \A b, c \in live : idOf[b] = idOf[c] => b = c
    /\ \A t \in Threads : pc[t] = "respond" => hand[t] \in live /\ idOf[hand[t]] < nextId
    /\ \A t, u \in Threads :
          pc[t] = "respond" /\ pc[u] = "respond" /\ hand[t] = hand[u] => t = u

\* While every request has left the table after the older ones, it is a list
\* from the newest to the oldest; what the oldest points to nobody reads.
Older(b) == {c \in Table : idOf[c] < idOf[b]}
NewestOf(b, S) == b \in S /\ \A c \in S : idOf[c] <= idOf[b]
Linked ==
    ~overtaken =>
        /\ Table # {} => NewestOf(req_obj_head, Table)
        /\ \A b \in Table : Older(b) # {} => NewestOf(nxt[b], Older(b))
        /\ ~wild

ClientInv == TypeOK /\ Counted /\ RingMapped /\ Once /\ Kept /\ Linked

\* Receive threads that have a packet they have not published, or not counted,
\* which KCP's has only after TCP's last one.
Holds(t) == pc[t] \in {"enqueue", "copied"}
Uncounted(t) == pc[t] \in {"enqueue", "copied", "published"}
InHands == {hand[t] : t \in {u \in Threads : Holds(u)}}
Coming == UNION {Packets(t) : t \in Threads}
Rising(s) ==
    \A i, j \in DOMAIN s :
        s[i].type = "video" /\ s[j].type = "video" /\ i < j => s[i].n < s[j].n
Below(S, T) == \A m \in S, n \in T : m < n
InTurn ==
    /\ \A t \in Threads : Rising(net[t])
    /\ Below(Packets("tcp"), Packets("kcp"))
    /\ \A n \in Coming \cup InHands : n \in 1..streamed
    /\ Below(InHands, Coming)
    /\ Uncounted("kcp") => Packets("tcp") = {} /\ ~Holds("tcp")
    /\ Packets("kcp") # {} \/ Uncounted("kcp") => bound

\* What the ring holds between its tail and its head, in order, and after it
\* what is in hand, which is in place before it is published.
Inside == buffer_tail..(buffer_head - 1)
At(i) == slots[i % RingSize]
InRing == {At(i) : i \in Inside}
Queued ==
    /\ buffer_head - buffer_tail <= RingSize
    /\ \A t \in Threads : pc[t] = "copied" =>
           At(buffer_head) = hand[t] /\ buffer_head - buffer_tail < RingSize
    /\ \A i, j \in Inside : i < j => At(i) < At(j)
    /\ Below(InRing, Coming \cup InHands)
    /\ \A n \in InRing : n \in 1..streamed

\* The pictures decoded and not yet shown.  The head and the tail never rest
\* behind the unused slot, so neither gets past the other by stepping over it.
Last == Buffers - 1
Unshown(d) == {i \in d.q.head..(d.q.tail - 1) : i % Last # 0}
Picture(d, i) == d.pic[i % Last]
InOrder(d) ==
    /\ d.q.head <= d.q.tail /\ d.q.tail <= d.q.head + Last
    /\ d.q.head % Last # 1 /\ d.q.tail % Last # 1
    /\ \A i, j \in Unshown(d) : i < j => Picture(d, i) < Picture(d, j)
    /\ \A i \in Unshown(d) : d.shown < Picture(d, i)
Decoded == Mapped /\ ~vain => InOrder(Decoder)

\* What has been decoded is older than what has not.
Seen == {shown} \cup {pic[b] : b \in DOMAIN pic}
Rest == InRing \cup InHands \cup Coming
Ahead ==
    /\ Below(Seen, Rest)
    /\ \A n \in Seen : n <= streamed
    /\ gui = "put" => /\ Below(Seen, {recv_pkt}) /\ Below({recv_pkt}, Rest)
                      /\ recv_pkt \in 1..streamed

OrderParts == InTurn /\ Queued /\ Decoded /\ Ahead
OrderInv == ~mixed => OrderParts
-----------------------------------------------------------------------------
(* Messages on their way.                                                   *)

\* What appending to a sequence does.
LEMMA Appended ==
  ASSUME NEW S, NEW s \in Seq(S), NEW e \in S
  PROVE  /\ Append(s, e) \in Seq(S) /\ Len(s) \in Nat
         /\ DOMAIN s = 1..Len(s) /\ DOMAIN Append(s, e) = 1..(Len(s) + 1)
         /\ \A i \in 1..Len(s) : Append(s, e)[i] = s[i]
         /\ Append(s, e)[Len(s) + 1] = e
OBVIOUS

\* What taking the first element away does.
LEMMA Popped ==
  ASSUME NEW S, NEW s \in Seq(S), s # <<>>
  PROVE  /\ Tail(s) \in Seq(S) /\ Len(s) \in Nat /\ Len(s) > 0
         /\ DOMAIN s = 1..Len(s) /\ DOMAIN Tail(s) = 1..(Len(s) - 1)
         /\ \A i \in 1..(Len(s) - 1) : Tail(s)[i] = s[i + 1]
         /\ Head(s) = s[1] /\ Head(s) \in S
OBVIOUS

\* A request more, and one less, on its way to the server.
LEMMA AskedMore ==
  ASSUME NEW S, NEW s \in Seq(S), NEW e \in S
  PROVE  /\ Elements(Append(s, e)) = Elements(s) \cup {e}
         /\ Distinct(s) /\ e \notin Elements(s) => Distinct(Append(s, e))
<1> DEFINE r == Append(s, e)
<1>1. /\ r \in Seq(S) /\ Len(s) \in Nat
      /\ DOMAIN s = 1..Len(s) /\ DOMAIN r = 1..(Len(s) + 1)
      /\ \A i \in 1..Len(s) : r[i] = s[i]
      /\ r[Len(s) + 1] = e
  BY Appended
<1> HIDE DEF r
<1>2. Elements(r) = Elements(s) \cup {e}
  BY <1>1 DEF Elements
<1>3. ASSUME Distinct(s), e \notin Elements(s) PROVE Distinct(r)
  BY <1>1, <1>3 DEF Elements, Distinct
<1>4. QED
  BY <1>2, <1>3 DEF r

\* The rest of the requests.
LEMMA AskedLess ==
  ASSUME NEW S, NEW s \in Seq(S), s # <<>>, Distinct(s)
  PROVE  /\ Elements(Tail(s)) = Elements(s) \ {Head(s)}
         /\ Head(s) \in Elements(s) /\ Distinct(Tail(s))
<1> DEFINE r == Tail(s)
           h == Head(s)
<1>1. /\ r \in Seq(S) /\ Len(s) \in Nat /\ Len(s) > 0
      /\ DOMAIN s = 1..Len(s) /\ DOMAIN r = 1..(Len(s) - 1)
      /\ \A i \in 1..(Len(s) - 1) : r[i] = s[i + 1]
      /\ h = s[1]
  BY Popped
<1> HIDE DEF r, h
<1>2. h \in Elements(s)
  BY <1>1 DEF Elements
<1>3. ASSUME NEW x \in Elements(s), x # h PROVE x \in Elements(r)
  <2>1. PICK i \in DOMAIN s : s[i] = x
    BY <1>3 DEF Elements
  <2>2. i - 1 \in DOMAIN r /\ r[i - 1] = x
    BY <1>1, <1>3, <2>1
  <2>3. QED
    BY <2>2 DEF Elements
<1>4. ASSUME NEW x \in Elements(r) PROVE x \in Elements(s) /\ x # h
  <2>1. PICK i \in DOMAIN r : r[i] = x
    BY <1>4 DEF Elements
  <2>2. i + 1 \in DOMAIN s /\ s[i + 1] = x /\ i + 1 # 1
    BY <1>1, <2>1
  <2>3. QED
    BY <1>1, <2>2 DEF Elements, Distinct
<1>5. Distinct(r)
  <2> SUFFICES ASSUME NEW i \in DOMAIN r, NEW j \in DOMAIN r, r[i] = r[j] PROVE i = j
    BY DEF Distinct
  <2>1. i \in Int /\ j \in Int /\ i + 1 \in DOMAIN s /\ j + 1 \in DOMAIN s
    BY <1>1
  <2>2. s[i + 1] = s[j + 1]
    BY <1>1
  <2>3. i + 1 = j + 1
    BY <2>1, <2>2 DEF Distinct
  <2>4. QED
    BY <2>1, <2>3
<1>6. QED
  BY <1>2, <1>3, <1>4, <1>5 DEF r, h

\* A message more on its way to the client.
LEMMA SentMore ==
  ASSUME NEW s \in Seq(Message), NEW e \in Message, NEW type
  PROVE  /\ Numbers(Append(s, e), type) =
                Numbers(s, type) \cup (IF e.type = type THEN {e.n} ELSE {})
         /\ AnswersDistinct(s) /\ (e.type = "response" => e.n \notin Numbers(s, "response"))
                => AnswersDistinct(Append(s, e))
         /\ Rising(s) /\ (e.type = "video" => Below(Numbers(s, "video"), {e.n}))
                => Rising(Append(s, e))
<1> DEFINE r == Append(s, e)
<1>1. /\ r \in Seq(Message) /\ Len(s) \in Nat
      /\ DOMAIN s = 1..Len(s) /\ DOMAIN r = 1..(Len(s) + 1)
      /\ \A i \in 1..Len(s) : r[i] = s[i]
      /\ r[Len(s) + 1] = e
  BY Appended
<1> HIDE DEF r
<1>2. Numbers(r, type) = Numbers(s, type) \cup (IF e.type = type THEN {e.n} ELSE {})
  <2>1. ASSUME NEW x \in Numbers(r, type)
        PROVE  x \in Numbers(s, type) \cup (IF e.type = type THEN {e.n} ELSE {})
    BY <1>1, <2>1 DEF Numbers
  <2>2. ASSUME NEW x \in Numbers(s, type) PROVE x \in Numbers(r, type)
    BY <1>1, <2>2 DEF Numbers
  <2>3. e.type = type => e.n \in Numbers(r, type)
    BY <1>1 DEF Numbers
  <2>4. QED
    BY <2>1, <2>2, <2>3
<1>3. ASSUME AnswersDistinct(s),
             e.type = "response" => e.n \notin Numbers(s, "response")
      PROVE  AnswersDistinct(r)
  BY <1>1, <1>3 DEF Numbers, AnswersDistinct
<1>4. ASSUME Rising(s), e.type = "video" => Below(Numbers(s, "video"), {e.n})
      PROVE  Rising(r)
  BY <1>1, <1>4 DEF Numbers, Rising, Below
<1>5. QED
  BY <1>2, <1>3, <1>4 DEF r

\* The rest of the messages.
LEMMA SentLess ==
  ASSUME NEW s \in Seq(Message), s # <<>>, NEW type
  PROVE  /\ Numbers(s, type) =
                Numbers(Tail(s), type) \cup
                    (IF Head(s).type = type THEN {Head(s).n} ELSE {})
         /\ AnswersDistinct(s) => AnswersDistinct(Tail(s))
         /\ AnswersDistinct(s) /\ Head(s).type = "response"
                => Head(s).n \notin Numbers(Tail(s), "response")
         /\ Rising(s) => Rising(Tail(s))
         /\ Rising(s) /\ Head(s).type = "video"
                => Below({Head(s).n}, Numbers(Tail(s), "video"))
<1> DEFINE r == Tail(s)
           h == Head(s)
<1>1. /\ r \in Seq(Message) /\ Len(s) \in Nat /\ Len(s) > 0
      /\ DOMAIN s = 1..Len(s) /\ DOMAIN r = 1..(Len(s) - 1)
      /\ \A i \in 1..(Len(s) - 1) : r[i] = s[i + 1]
      /\ h = s[1]
  BY Popped
<1> HIDE DEF r, h
<1>2. Numbers(s, type) = Numbers(r, type) \cup (IF h.type = type THEN {h.n} ELSE {})
  <2>1. ASSUME NEW x \in Numbers(s, type)
        PROVE  x \in Numbers(r, type) \cup (IF h.type = type THEN {h.n} ELSE {})
    <3>1. PICK i \in DOMAIN s : s[i].type = type /\ s[i].n = x
      BY <2>1 DEF Numbers
    <3>2. CASE i = 1
      BY <1>1, <3>1, <3>2
    <3>3. CASE i # 1
      <4>1. i - 1 \in DOMAIN r /\ r[i - 1] = s[i]
        BY <1>1, <3>1, <3>3
      <4>2. QED
        BY <3>1, <4>1 DEF Numbers
    <3>4. QED
      BY <3>2, <3>3
  <2>2. ASSUME NEW x \in Numbers(r, type) PROVE x \in Numbers(s, type)
    <3>1. PICK i \in DOMAIN r : r[i].type = type /\ r[i].n = x
      BY <2>2 DEF Numbers
    <3>2. i + 1 \in DOMAIN s /\ s[i + 1] = r[i]
      BY <1>1, <3>1
    <3>3. QED
      BY <3>1, <3>2 DEF Numbers
  <2>3. h.type = type => h.n \in Numbers(s, type)
    BY <1>1 DEF Numbers
  <2>4. QED
    BY <2>1, <2>2, <2>3
<1>3. ASSUME NEW t, NEW x \in Numbers(r, t)
      PROVE  \E i \in DOMAIN s : i > 1 /\ s[i].type = t /\ s[i].n = x
  <2>1. PICK i \in DOMAIN r : r[i].type = t /\ r[i].n = x
    BY <1>3 DEF Numbers
  <2>2. i + 1 \in DOMAIN s /\ i + 1 > 1 /\ s[i + 1] = r[i]
    BY <1>1, <2>1
  <2>3. QED
    BY <2>1, <2>2
<1>4. \A i \in DOMAIN r : i \in Int /\ i + 1 \in DOMAIN s /\ r[i] = s[i + 1]
  BY <1>1
<1>5. ASSUME AnswersDistinct(s) PROVE AnswersDistinct(r)
  <2> SUFFICES ASSUME NEW i \in DOMAIN r, NEW j \in DOMAIN r, r[i].type = "response",
                      r[j].type = "response", r[i].n = r[j].n
               PROVE  i = j
    BY DEF AnswersDistinct
  <2>1. i + 1 = j + 1
    BY <1>5, <1>4 DEF AnswersDistinct
  <2>2. QED
    BY <1>4, <2>1
<1>6. ASSUME AnswersDistinct(s), h.type = "response"
      PROVE  h.n \notin Numbers(r, "response")
  BY <1>1, <1>3, <1>6 DEF AnswersDistinct
<1>7. ASSUME Rising(s) PROVE Rising(r)
  <2> SUFFICES ASSUME NEW i \in DOMAIN r, NEW j \in DOMAIN r, r[i].type = "video",
                      r[j].type = "video", i < j
               PROVE  r[i].n < r[j].n
    BY DEF Rising
  <2>1. i + 1 < j + 1
    BY <1>4
  <2>2. QED
    BY <1>7, <1>4, <2>1 DEF Rising
<1>8. ASSUME Rising(s), h.type = "video"
      PROVE  Below({h.n}, Numbers(r, "video"))
  BY <1>1, <1>3, <1>8 DEF Rising, Below
<1>9. QED
  BY <1>2, <1>5, <1>6, <1>7, <1>8 DEF r, h
-----------------------------------------------------------------------------
(* Walks of the table.                                                      *)

\* A set of numbers has a smallest one.
LEMMA Smallest ==
  ASSUME NEW S \in SUBSET Nat, S # {}
  PROVE  Min(S) \in S /\ \A n \in S : Min(S) <= n
<1> DEFINE Upto == {0..n : n \in S}
           R == StrictSubsetOrdering(Nat)
<1>1. IsWellFoundedOn(R, FiniteSubsetsOf(Nat))
  BY FS_StrictSubsetOrderingWellFounded
<1>2. Upto \subseteq FiniteSubsetsOf(Nat) /\ Upto # {}
  <2>1. ASSUME NEW n \in S PROVE 0..n \in FiniteSubsetsOf(Nat)
    <3>1. IsFiniteSet(0..n)
      BY FS_Interval
    <3>2. QED
      BY <3>1 DEF FiniteSubsetsOf
  <2>2. QED
    BY <2>1
<1>3. PICK x \in Upto : \A y \in Upto : ~(<<y, x>> \in R)
  <2> HIDE DEF Upto, R
  <2>1. QED
    BY <1>1, <1>2, WFMin
<1>4. PICK m \in S : x = 0..m
  OBVIOUS
<1>5. ASSUME NEW n \in S PROVE m <= n
  <2>1. SUFFICES ASSUME n < m PROVE FALSE
    OBVIOUS
  <2>2. 0..n \in SUBSET Nat /\ 0..m \in SUBSET Nat /\ 0..n \subseteq 0..m
    BY <2>1
  <2>3. m \in 0..m /\ m \notin 0..n
    BY <2>1
  <2>4. <<0..n, 0..m>> \in R
    <3> DEFINE A == 0..n
               B == 0..m
    <3>1. A \in SUBSET Nat /\ B \in SUBSET Nat /\ A \subseteq B /\ A # B
      BY <2>2, <2>3
    <3> HIDE DEF A, B
    <3>2. <<A, B>> \in R
      BY <3>1 DEF StrictSubsetOrdering
    <3>3. QED
      BY <3>2 DEF A, B
  <2>5. QED
    BY <1>3, <1>4, <2>4
<1>6. QED
  BY <1>4, <1>5 DEF Min

\* The sequence of n steps of a function from one of its arguments.
Walks(T, h, g, n) ==
    {f \in [0..n -> T] : f[0] = h /\ \A k \in 1..n : f[k] = g[f[k - 1]]}

\* There is one.
LEMMA Walk ==
  ASSUME NEW T, NEW h \in T, NEW g \in [T -> T], NEW n \in Nat
  PROVE  Walks(T, h, g, n) # {}
<1> DEFINE Is(f, m) == f[0] = h /\ \A k \in 1..m : f[k] = g[f[k - 1]]
           Bad == {m \in Nat : ~\E f \in [0..m -> T] : Is(f, m)}
<1>1. SUFFICES ASSUME Bad # {} PROVE FALSE
  BY DEF Walks
<1>2. PICK m \in Bad : \A l \in Bad : m <= l
  <2> HIDE DEF Is
  <2>1. Bad \in SUBSET Nat
    OBVIOUS
  <2> HIDE DEF Bad
  <2>2. QED
    BY <1>1, <2>1, Smallest
<1>3. CASE m = 0
  <2>1. [k \in 0..0 |-> h] \in [0..0 -> T] /\ Is([k \in 0..0 |-> h], 0)
    OBVIOUS
  <2>2. QED
    BY <1>2, <1>3, <2>1
<1>4. CASE m # 0
  <2>1. m - 1 \in Nat /\ m - 1 \notin Bad
    <3>1. m \in Nat /\ m - 1 \in Nat /\ ~(m <= m - 1)
      BY <1>2, <1>4
    <3> HIDE DEF Bad
    <3>2. QED
      BY <1>2, <3>1
  <2>2. PICK e \in [0..m - 1 -> T] : Is(e, m - 1)
    BY <2>1
  <2>3. DEFINE f == [k \in 0..m |-> IF k = m THEN g[e[m - 1]] ELSE e[k]]
  <2>4. f \in [0..m -> T]
    BY <2>1, <2>2
  <2>5. f[0] = h /\ f[m] = g[f[m - 1]]
    BY <2>1, <2>2
  <2>6. \A k \in 1..m - 1 : f[k] = g[f[k - 1]]
    BY <2>1, <2>2
  <2>7. Is(f, m)
    <3> HIDE DEF f
    <3>1. ASSUME NEW k \in 1..m PROVE k = m \/ k \in 1..m - 1
      BY <2>1
    <3>2. QED
      BY <2>5, <2>6, <3>1
  <2>8. QED
    BY <1>2, <2>4, <2>7
<1>5. QED
  BY <1>3, <1>4

Places == 0..Cardinality(Blocks)

\* What the recursive definition of Path says, which is met by some function.
LEMMA PathIs ==
  ASSUME SizesAssumption, TypeOK
  PROVE  /\ Cardinality(Blocks) \in Nat
         /\ Path \in [Places -> Blocks \cup {NULL}]
         /\ Path[0] = req_obj_head
         /\ \A k \in Places \ {0} :
               Path[k] = IF Path[k - 1] = NULL THEN NULL ELSE nxt[Path[k - 1]]
<1> DEFINE T == Blocks \cup {NULL}
           N == Cardinality(Blocks)
           g == [b \in T |-> IF b = NULL THEN NULL ELSE nxt[b]]
           Def(f) == f = [k \in 0..N |->
                             IF k = 0 THEN req_obj_head
                             ELSE IF f[k - 1] = NULL THEN NULL ELSE nxt[f[k - 1]]]
<1>1. N \in Nat
  BY FS_CardinalityType DEF SizesAssumption
<1>2. req_obj_head \in T /\ nxt \in [Blocks -> T]
  BY DEF TypeOK
<1>3. g \in [T -> T]
  BY <1>2
<1>4. PICK e \in [0..N -> T] : e[0] = req_obj_head /\ \A k \in 1..N : e[k] = g[e[k - 1]]
  <2>1. req_obj_head \in T
    BY <1>2
  <2> HIDE DEF T, g, N
  <2>2. Walks(T, req_obj_head, g, N) # {}
    BY <1>1, <1>3, <2>1, Walk
  <2>3. QED
    BY <2>2 DEF Walks
<1>5. Def(e)
  <2>1. \A k \in 1..N : k - 1 \in 0..N /\ e[k - 1] \in T
    BY <1>1, <1>4
  <2>2. \A k \in 1..N : e[k] = IF e[k - 1] = NULL THEN NULL ELSE nxt[e[k - 1]]
    BY <1>4, <2>1
  <2>3. QED
    BY <1>1, <1>4, <2>2
<1>6. Path = CHOOSE f : Def(f)
  BY DEF Path
<1>7. Def(Path)
  <2> HIDE DEF Def
  <2>1. QED
    BY <1>5, <1>6
<1>8. /\ Path[0] = req_obj_head
      /\ \A k \in 1..N : Path[k] = IF Path[k - 1] = NULL THEN NULL ELSE nxt[Path[k - 1]]
  <2> HIDE DEF Path
  <2>1. QED
    BY <1>1, <1>7
<1>9. \A k \in 0..N : Path[k] \in T
  <2> DEFINE Bad == {k \in 0..N : Path[k] \notin T}
  <2>1. SUFFICES ASSUME Bad # {} PROVE FALSE
    OBVIOUS
  <2>2. PICK m \in Bad : \A l \in Bad : m <= l
    <3>1. Bad \in SUBSET Nat
      BY <1>1
    <3> HIDE DEF Bad
    <3>2. QED
      BY <2>1, <3>1, Smallest
  <2>3. m \in 1..N
    BY <1>1, <1>2, <1>8, <2>2
  <2>4. m - 1 \in 0..N /\ Path[m - 1] \in T
    BY <1>1, <2>2, <2>3
  <2>5. QED
    BY <1>2, <1>8, <2>2, <2>3, <2>4
<1>10. QED
  <2>1. Path = [k \in 0..N |-> Path[k]]
    BY <1>7
  <2> HIDE DEF T
  <2>2. Path \in [0..N -> T]
    BY <1>9, <2>1
  <2>3. Places \ {0} = 1..N
    BY <1>1 DEF Places
  <2>4. QED
    BY <1>1, <1>8, <2>2, <2>3 DEF Places, T

\* Where a walk that finds its request stops.
LEMMA FoundIs ==
  ASSUME SizesAssumption, TypeOK, NEW n, Found(n)
  PROVE  /\ Min(Stops(n)) \in Stops(n) /\ \A k \in Stops(n) : Min(Stops(n)) <= k
         /\ Hit(n) \in live /\ idOf[Hit(n)] = n
         /\ Min(Stops(n)) # 0 => /\ Path[Min(Stops(n)) - 1] \in Blocks
                                 /\ nxt[Path[Min(Stops(n)) - 1]] = Hit(n)
         /\ Unlinked(n) \in [Blocks -> Blocks \cup {NULL}]
<1> DEFINE k == Min(Stops(n))
<1> USE PathIs
<1>1. Stops(n) \in SUBSET Nat /\ Stops(n) \subseteq Places
  BY DEF Stops, Places
<1>2. Stops(n) # {} /\ Path[k] \in live /\ Hit(n) = Path[k]
  BY DEF Found, Hit
<1>3. k \in Stops(n) /\ \A j \in Stops(n) : k <= j
  BY <1>1, <1>2, Smallest
<1> HIDE DEF k
<1>4. Path[k] # NULL /\ idOf[Path[k]] = n
  BY <1>2, <1>3 DEF Stops
<1>5. ASSUME k # 0 PROVE Path[k - 1] \in Blocks /\ nxt[Path[k - 1]] = Path[k]
  <2>1. k \in Places \ {0} /\ k - 1 \in Places
    BY <1>1, <1>3, <1>5 DEF Places
  <2>2. Path[k - 1] \in Blocks \cup {NULL}
    BY <2>1
  <2>3. QED
    BY <1>4, <2>1, <2>2
<1>6. Unlinked(n) \in [Blocks -> Blocks \cup {NULL}]
  <2>1. Path[k] \in Blocks
    BY <1>2 DEF TypeOK
  <2>2. Unlinked(n) = IF k = 0 THEN nxt ELSE [nxt EXCEPT ![Path[k - 1]] = nxt[Path[k]]]
    BY DEF Unlinked, k
  <2>3. nxt \in [Blocks -> Blocks \cup {NULL}] /\ nxt[Path[k]] \in Blocks \cup {NULL}
    BY <2>1 DEF TypeOK
  <2> HIDE DEF Path
  <2>4. QED
    BY <2>2, <2>3
<1>7. QED
  BY <1>2, <1>3, <1>4, <1>5, <1>6 DEF k

\* As long as requests have left in their order, a walk for the oldest one
\* finds it, after newer ones.
LEMMA OldestFound ==
  ASSUME SizesAssumption, TypeOK, Kept, Linked, ~overtaken, NEW b \in Table, Older(b) = {}
  PROVE  /\ Found(idOf[b]) /\ Hit(idOf[b]) = b
         /\ Min(Stops(idOf[b])) # 0 => Path[Min(Stops(idOf[b])) - 1] \in Table
<1> DEFINE n == idOf[b]
           Missed(k) == \A j \in Places : j < k => Path[j] # b
<1>1. /\ Cardinality(Blocks) \in Nat /\ IsFiniteSet(Blocks) /\ NULL \notin Blocks
      /\ Path \in [Places -> Blocks \cup {NULL}] /\ Path[0] = req_obj_head
      /\ \A k \in Places \ {0} :
            Path[k] = IF Path[k - 1] = NULL THEN NULL ELSE nxt[Path[k - 1]]
  BY PathIs DEF SizesAssumption
<1>2. /\ Table \subseteq live /\ live \subseteq Blocks
      /\ \A c \in Table : idOf[c] \in Nat
      /\ \A c, d \in Table : idOf[c] = idOf[d] => c = d
  BY DEF Table, TypeOK, Kept, Ids
<1>3. /\ req_obj_head \in Table
      /\ \A c \in Table : Older(c) # {} => nxt[c] \in Older(c)
  BY DEF Linked, NewestOf
<1>4. \A c \in Table \ {b} : idOf[c] # n /\ b \in Older(c)
  BY <1>2 DEF Older
<1>5. \A c \in Table \ {b} : c # NULL /\ nxt[c] \in Table /\ idOf[nxt[c]] < idOf[c]
  BY <1>1, <1>2, <1>3, <1>4 DEF Older
<1>6. \A k \in Places : k \in Nat /\ (k # 0 => k \in Places \ {0} /\ k - 1 \in Places)
  BY <1>1 DEF Places
<1>7. ASSUME NEW k \in Places, Missed(k) PROVE Path[k] \in Table
  <2> DEFINE Bad == {i \in Places : i <= k /\ Path[i] \notin Table}
  <2>1. SUFFICES ASSUME Bad # {} PROVE FALSE
    BY <1>6
  <2>2. PICK m \in Bad : \A l \in Bad : m <= l
    <3>1. Bad \in SUBSET Nat
      BY <1>6
    <3> HIDE DEF Bad
    <3>2. QED
      BY <2>1, <3>1, Smallest
  <2>3. m # 0
    BY <1>1, <1>3, <2>2
  <2>4. m - 1 \in Places /\ m - 1 < k /\ m - 1 \notin Bad /\ m \in Places \ {0}
    <3>1. m \in Places /\ m \in Nat /\ k \in Nat /\ m <= k
      BY <1>6, <2>2
    <3>2. m - 1 \in Places /\ m - 1 < k /\ ~(m <= m - 1) /\ m \in Places \ {0}
      BY <1>6, <2>3, <3>1
    <3> HIDE DEF Bad
    <3>3. QED
      BY <2>2, <3>2
  <2>5. Path[m - 1] \in Table \ {b}
    BY <1>6, <1>7, <2>4
  <2>6. Path[m] = nxt[Path[m - 1]]
    BY <1>1, <1>5, <2>4, <2>5
  <2>7. QED
    BY <1>5, <2>2, <2>5, <2>6
<1>8. \E k \in Places : Path[k] = b
  <2> SUFFICES ASSUME \A k \in Places : Path[k] # b PROVE FALSE
    OBVIOUS
  <2>1. \A k \in Places : Path[k] \in Table \ {b}
    BY <1>7
  <2>2. \A k \in Places \ {0} : idOf[Path[k]] < idOf[Path[k - 1]]
    BY <1>1, <1>5, <1>6, <2>1
  <2>3. ASSUME NEW i \in Places, NEW j \in Places, i < j
        PROVE  idOf[Path[j]] < idOf[Path[i]]
    <3> DEFINE Bad == {k \in Places : i < k /\ ~(idOf[Path[k]] < idOf[Path[i]])}
    <3>1. SUFFICES ASSUME Bad # {} PROVE FALSE
      BY <2>3
    <3>2. PICK m \in Bad : \A l \in Bad : m <= l
      <4>1. Bad \in SUBSET Nat
        BY <1>6
      <4> HIDE DEF Bad
      <4>2. QED
        BY <3>1, <4>1, Smallest
    <3>3. m \in Places \ {0} /\ m - 1 \in Places /\ m - 1 \notin Bad
      <4>1. m \in Places /\ m \in Nat /\ i \in Nat /\ i < m
        BY <1>6, <3>2
      <4>2. m # 0 /\ ~(m <= m - 1)
        BY <4>1
      <4> HIDE DEF Bad
      <4>3. QED
        BY <1>6, <3>2, <4>1, <4>2
    <3>4. CASE m - 1 = i
      BY <2>2, <3>2, <3>3, <3>4
    <3>5. CASE m - 1 # i
      <4>1. i < m - 1
        <5>1. i \in Nat /\ m \in Nat /\ i < m
          BY <1>6, <3>2
        <5>2. QED
          BY <3>5, <5>1
      <4>2. idOf[Path[m - 1]] < idOf[Path[i]] /\ idOf[Path[m]] < idOf[Path[m - 1]]
        BY <2>2, <3>3, <4>1
      <4>3. /\ idOf[Path[m]] \in Nat /\ idOf[Path[m - 1]] \in Nat
            /\ idOf[Path[i]] \in Nat
        BY <1>2, <2>1, <3>3
      <4>4. QED
        BY <3>2, <4>2, <4>3
    <3>6. QED
      BY <3>4, <3>5
  <2>4. Path \in [Places -> Blocks]
    BY <1>1, <1>2, <2>1
  <2>5. IsFiniteSet(Places) /\ Cardinality(Places) = Cardinality(Blocks) + 1
    BY <1>1, FS_Interval DEF Places
  <2>6. PICK i, j \in Places : i # j /\ Path[i] = Path[j]
    <3>1. Cardinality(Blocks) < Cardinality(Places)
      BY <1>1, <2>5
    <3>2. QED
      BY <1>1, <2>4, <2>5, <3>1, FS_PigeonHole
  <2>7. idOf[Path[i]] \in Nat /\ i \in Nat /\ j \in Nat
    BY <1>2, <1>6, <2>1
  <2>8. QED
    BY <2>3, <2>6, <2>7
<1>9. PICK k \in Places : Path[k] = b /\ Missed(k)
  <2> DEFINE K == {i \in Places : Path[i] = b}
  <2>1. K \in SUBSET Nat /\ K # {}
    BY <1>6, <1>8
  <2> HIDE DEF K
  <2>2. PICK i \in K : \A j \in K : i <= j
    BY <2>1, Smallest
  <2>3. QED
    BY <1>6, <2>1, <2>2 DEF K
<1>10. \A j \in Places : j < k => Path[j] \in Table \ {b}
  <2> TAKE j \in Places
  <2>1. j < k => Missed(j)
    BY <1>6, <1>9
  <2>2. QED
    BY <1>7, <1>9, <2>1
<1>11. k \in Stops(n) /\ \A j \in Stops(n) : k <= j
  <2>1. k \in Stops(n)
    BY <1>1, <1>2, <1>9 DEF Stops
  <2>2. ASSUME NEW j \in Stops(n), j < k PROVE FALSE
    <3>1. j \in Places /\ (Path[j] \notin live \/ idOf[Path[j]] = n)
      BY <1>1, <2>2 DEF Stops
    <3>2. QED
      BY <1>2, <1>4, <1>10, <2>2, <3>1
  <2>3. k \in Nat /\ \A j \in Stops(n) : j \in Nat
    BY <1>1, <1>6 DEF Stops
  <2> HIDE DEF n
  <2>4. QED
    BY <2>1, <2>2, <2>3
<1>12. Min(Stops(n)) = k
  <2>1. Stops(n) \in SUBSET Nat /\ Stops(n) # {}
    BY <1>1, <1>6, <1>11 DEF Stops
  <2>2. Min(Stops(n)) \in Stops(n) /\ Min(Stops(n)) <= k
    BY <1>11, <2>1, Smallest
  <2>3. QED
    BY <1>11, <2>1, <2>2
<1>13. k # 0 => Path[k - 1] \in Table
  <2>1. k \in Nat /\ (k # 0 => k - 1 \in Places /\ k - 1 < k)
    BY <1>6
  <2>2. QED
    BY <1>10, <2>1
<1>14. Found(n) /\ Hit(n) = b
  <2> HIDE DEF n
  <2>1. Stops(n) # {} /\ Path[Min(Stops(n))] = b /\ b \in live
    BY <1>2, <1>9, <1>11, <1>12
  <2>2. QED
    BY <2>1 DEF Found, Hit
<1>15. QED
  BY <1>12, <1>13, <1>14
-----------------------------------------------------------------------------
(* Types, the ring of packets and its counter, and the ring of buffers.     *)

USE SizesAssumption
USE DEF connVars, ringVars, decVars, reqVars, srvVars, netVars, vars

RingsInv == Counted /\ RingMapped

\* The first state is typed, and its rings are empty.
LEMMA TypeInit == Init => TypeOK /\ RingsInv
<1> SUFFICES ASSUME Init PROVE TypeOK /\ RingsInv
  OBVIOUS
<1>1. net \in [Threads -> Seq(Message)] /\ asked \in [Threads -> Seq(Ids)]
  BY DEF Init
<1>2. /\ pc \in [Threads -> {"recv", "enqueue", "copied", "published", "respond"}]
      /\ hand \in [Threads -> Video \cup Ids \cup Blocks]
      /\ slots \in [0..(RingSize - 1) -> Video]
      /\ pic \in [0..(Buffers - 1) -> Video]
  BY DEF Init, Video
<1>3. /\ idOf \in [Blocks -> Ids \cup {NoId}] /\ nxt \in [Blocks -> Blocks \cup {NULL}]
  BY DEF Init
<1>4. TypeOK
  <2>1. {mixed, early, vain, overtaken, wild, bound, kcp_enable} \subseteq BOOLEAN
    BY Zenon DEF Init
  <2>2. /\ buf_q.used = {} /\ buf_q.free = {} /\ buf_q.tail = 0 /\ buf_q.head = 0
    BY DEF Init, EmptyQueue
  <2>3. QED
    BY <1>1, <1>2, <1>3, <2>1, <2>2 DEF Init, TypeOK, Video
<1>5. RingsInv
  BY DEF Init, RingsInv, Counted, RingMapped, ThreadsAt, Here, InGui, Threads,
       EmptyQueue, Ring
<1>6. QED
  BY <1>4, <1>5

\* The setting up keeps the types and the rings.
LEMMA TypeSetup == TypeOK /\ RingsInv /\ Setup => TypeOK' /\ RingsInv'
<1> SUFFICES ASSUME TypeOK, RingsInv, Setup PROVE TypeOK' /\ RingsInv'
  OBVIOUS
<1> USE DEF TypeOK, RingsInv, Counted, RingMapped, ThreadsAt, Here, InGui, Mapped, Ring
<1>1. CASE Connect
  BY <1>1 DEF Connect
<1>2. CASE Select
  <2>1. [net EXCEPT !["tcp"] = <<>>] \in [Threads -> Seq(Message)]
    <3>1. <<>> \in Seq(Message)
      OBVIOUS
    <3>2. QED
      BY <3>1
  <2>2. QED
    BY <1>2, <2>1 DEF Select
<1>3. CASE BindCallback
  BY <1>3 DEF BindCallback
<1>4. CASE InitCount
  BY <1>4 DEF InitCount
<1>5. CASE MapBuffers
  BY <1>5 DEF MapBuffers
<1>6. QED
  BY <1>1, <1>2, <1>3, <1>4, <1>5 DEF Setup

\* What the server sends is typed.
LEMMA TypeServer == TypeOK /\ RingsInv /\ Server => TypeOK' /\ RingsInv'
<1> SUFFICES ASSUME TypeOK, RingsInv, Server PROVE TypeOK' /\ RingsInv'
  OBVIOUS
<1>1. ASSUME NEW t \in Threads, NEW e \in Message
      PROVE  [net EXCEPT ![t] = Append(@, e)] \in [Threads -> Seq(Message)]
  <2>1. net[t] \in Seq(Message)
    BY DEF TypeOK
  <2>2. Append(net[t], e) \in Seq(Message)
    BY <2>1, Appended
  <2>3. QED
    BY <2>2 DEF TypeOK
<1>2. Route \in Threads
  BY DEF Route, Threads
<1>3. CASE Settle
  BY <1>3 DEF Settle, TypeOK, RingsInv, Counted, RingMapped, ThreadsAt, Here, InGui, Mapped
<1>4. CASE Stream
  <2>1. [type |-> "video", n |-> streamed'] \in Message /\ streamed' \in Video
    BY <1>4 DEF Stream, Message, Video, TypeOK
  <2>2. net' \in [Threads -> Seq(Message)]
    BY <1>1, <1>2, <1>4, <2>1 DEF Stream
  <2>3. UNCHANGED <<connVars, gui, kcp_enable, pc, hand, mixed, ringVars, decVars,
                    reqVars, asked, bound>>
    BY <1>4 DEF Stream
  <2>4. TypeOK'
    BY <2>1, <2>2, <2>3 DEF TypeOK
  <2>5. QED
    BY <2>3, <2>4 DEF RingsInv, Counted, RingMapped, ThreadsAt, Here, InGui, Mapped
<1>5. ASSUME NEW t \in Threads, Answer(t) PROVE TypeOK' /\ RingsInv'
  <2>1. asked[t] \in Seq(Ids) /\ asked[t] # <<>>
    BY <1>5 DEF Answer, TypeOK
  <2>2. Tail(asked[t]) \in Seq(Ids) /\ Head(asked[t]) \in Ids
    BY <2>1, Popped
  <2>3. [type |-> "response", n |-> Head(asked[t])] \in Message
    BY <2>2 DEF Message
  <2>4. net' \in [Threads -> Seq(Message)] /\ asked' \in [Threads -> Seq(Ids)]
    BY <1>1, <1>2, <1>5, <2>2, <2>3 DEF Answer, TypeOK
  <2>5. UNCHANGED <<connVars, gui, kcp_enable, pc, hand, mixed, ringVars, decVars,
                    reqVars, streamed, bound>>
    BY <1>5 DEF Answer
  <2>6. TypeOK'
    BY <2>4, <2>5 DEF TypeOK
  <2>7. QED
    BY <2>5, <2>6 DEF RingsInv, Counted, RingMapped, ThreadsAt, Here, InGui, Mapped
<1>6. CASE Bind
  <2>1. /\ UNCHANGED <<connVars, gui, netVars, ringVars, decVars, reqVars, asked, streamed>>
        /\ bound' = TRUE
    BY <1>6 DEF Bind
  <2>2. TypeOK'
    BY <2>1 DEF TypeOK
  <2>3. QED
    BY <2>1, <2>2 DEF RingsInv, Counted, RingMapped, ThreadsAt, Here, InGui, Mapped
<1>7. CASE Close
  BY <1>7 DEF Close, TypeOK, RingsInv, Counted, RingMapped, ThreadsAt, Here, InGui, Mapped
<1>8. QED
  BY <1>3, <1>4, <1>5, <1>6, <1>7 DEF Server

\* Requests are kept and sent with ids that are left.
LEMMA TypeRequests == ClientInv /\ Requests => TypeOK' /\ RingsInv'
<1> SUFFICES ASSUME ClientInv, Requests PROVE TypeOK' /\ RingsInv'
  OBVIOUS
<1>1. TypeOK /\ RingsInv /\ Kept
  BY DEF ClientInv, RingsInv
<1> USE DEF RingsInv, Counted, RingMapped, ThreadsAt, Here, InGui, Mapped
<1>2. ASSUME NEW b \in Blocks, AddRequest(b) PROVE TypeOK' /\ RingsInv'
  <2>1. nextId \in Ids
    BY <1>1, <1>2 DEF AddRequest, TypeOK, Ids
  <2>2. /\ live' \subseteq Blocks /\ idOf' \in [Blocks -> Ids \cup {NoId}]
        /\ nxt' \in [Blocks -> Blocks \cup {NULL}] /\ req_obj_head' \in Blocks
    BY <1>1, <1>2, <2>1 DEF AddRequest, add_request, TypeOK
  <2>3. QED
    BY <1>1, <1>2, <2>2 DEF AddRequest, TypeOK
<1>3. CASE SendRequest
  <2>1. nextId \in Ids /\ nextId' \in 0..MaxRequests
    BY <1>1, <1>3 DEF SendRequest, NextId, TypeOK, Ids, Kept
  <2>2. ASSUME NEW t \in Threads
        PROVE  [asked EXCEPT ![t] = Append(@, nextId)] \in [Threads -> Seq(Ids)]
    <3>1. asked[t] \in Seq(Ids)
      BY <1>1 DEF TypeOK
    <3>2. Append(asked[t], nextId) \in Seq(Ids)
      BY <2>1, <3>1, Appended
    <3>3. QED
      BY <1>1, <3>2 DEF TypeOK
  <2>3. asked' \in [Threads -> Seq(Ids)]
    BY <1>3, <2>2 DEF SendRequest, Threads
  <2>4. QED
    BY <1>1, <1>3, <2>1, <2>3 DEF SendRequest, TypeOK
<1>4. CASE SendFails
  <2>1. Hit(nextId) \in live /\ Unlinked(nextId) \in [Blocks -> Blocks \cup {NULL}]
    BY <1>1, <1>4, FoundIs DEF SendFails
  <2>2. /\ live' \subseteq Blocks /\ idOf' \in [Blocks -> Ids \cup {NoId}]
        /\ nxt' \in [Blocks -> Blocks \cup {NULL}]
    BY <1>1, <1>4, <2>1 DEF SendFails, TypeOK
  <2>3. overtaken' \in BOOLEAN
    BY <1>1, <1>4, Zenon DEF SendFails, TypeOK
  <2>4. QED
    BY <1>1, <1>4, <2>2, <2>3 DEF SendFails, TypeOK
<1>5. QED
  BY <1>2, <1>3, <1>4 DEF Requests

\* A decoder's ring and its pictures, all its buffers mapped.
DecoderTyped(d) ==
    /\ d \in [q : Ring, pic : [0..(Buffers - 1) -> Video], shown : Video]
    /\ d.q.used = 1..(Buffers - 1) /\ d.q.free = d.q.used
    /\ d.q.max_idx = Buffers - 1 /\ d.q.head <= d.q.tail + 1

\* The slot of a position, and where a walk from it ends.
LEMMA Slots ==
  ASSUME NEW d, DecoderTyped(d), NEW i \in Nat
  PROVE  /\ Slot(d.q, i) = i % (Buffers - 1) /\ i % (Buffers - 1) \in 0..(Buffers - 2)
         /\ NextUsed(d.q, i) = IF i % (Buffers - 1) = 0 THEN i + 1 ELSE i
<1>1. d.q.max_idx = Buffers - 1 /\ d.q.max_idx \in Nat \ {0} /\ d.q.max_idx >= 2
  BY DEF DecoderTyped
<1>2. i % d.q.max_idx \in 0..d.q.max_idx - 1
  BY <1>1, Division
<1>3. NextUsed(d.q, i) = IF Slot(d.q, i) = 0 THEN i + 1 ELSE i
  BY <1>1, NextUsedOver DEF DecoderTyped
<1>4. QED
  BY <1>1, <1>2, <1>3 DEF Slot

\* What decoding a packet does: nothing when the ring is full, a step over the
\* unused slot, and a picture if there is one.
LEMMA Pushed ==
  ASSUME NEW d, DecoderTyped(d), NEW n \in Video, NEW ok \in BOOLEAN
  PROVE  LET m == Buffers - 1
             t == IF d.q.tail % m = 0 THEN d.q.tail + 1 ELSE d.q.tail
             r == PushPkt(d, n, ok)
         IN  /\ DecoderTyped(r) /\ r.shown = d.shown /\ r.q.head = d.q.head
             /\ r.q.tail = IF d.q.head + m <= d.q.tail THEN d.q.tail
                           ELSE IF ok THEN t + 1 ELSE t
             /\ r.pic = IF ok /\ d.q.head + m > d.q.tail
                        THEN [d.pic EXCEPT ![t % m] = n] ELSE d.pic
             /\ t % m \in 1..(m - 1)
<1> DEFINE m == Buffers - 1
           t == IF d.q.tail % m = 0 THEN d.q.tail + 1 ELSE d.q.tail
           r == PushPkt(d, n, ok)
           q == SkipTail(d.q)
<1>1. /\ d \in [q : Ring, pic : [0..(Buffers - 1) -> Video], shown : Video]
      /\ d.q \in Ring /\ d.q.used = 1..m /\ d.q.free = d.q.used /\ d.q.max_idx = m
      /\ d.q.head \in Nat /\ d.q.tail \in Nat /\ d.q.head <= d.q.tail + 1
      /\ m \in Nat /\ m >= 2
  BY DEF DecoderTyped, Ring
<1>2. t \in Nat /\ t % m \in 1..(m - 1) /\ NextUsed(d.q, d.q.tail) = t
  <2>1. t \in Nat /\ NextUsed(d.q, d.q.tail) = t
    <3>1. d.q.tail \in Nat
      BY <1>1
    <3>2. NextUsed(d.q, d.q.tail) =
              IF d.q.tail % (Buffers - 1) = 0 THEN d.q.tail + 1 ELSE d.q.tail
      BY <3>1, Slots
    <3>3. QED
      BY <3>1, <3>2
  <2>2. t % m # 0
    BY <1>1, AfterZero
  <2>3. t % m \in 0..(m - 1)
    <3>1. m \in Nat \ {0}
      BY <1>1
    <3> HIDE DEF m, t
    <3>2. QED
      BY <2>1, <3>1, Division
  <2>4. QED
    BY <1>1, <2>1, <2>2, <2>3
<1> HIDE DEF t
<1>3. q = [d.q EXCEPT !.tail = t]
  BY <1>2 DEF SkipTail
<1>4. /\ q \in Ring /\ q.tail = t /\ q.head = d.q.head /\ q.used = d.q.used
      /\ q.free = d.q.free /\ q.max_idx = m
  BY <1>1, <1>2, <1>3 DEF Ring
<1>5. TailFree(q)
  BY <1>1, <1>2, <1>4 DEF TailFree, Slot
<1>6. Full(d.q) <=> d.q.head + m <= d.q.tail
  BY <1>1 DEF Full
<1>7. CASE Full(d.q)
  <2>1. r = d
    BY <1>7 DEF PushPkt
  <2>2. QED
    BY <1>1, <1>2, <1>6, <1>7, <2>1 DEF t
<1>8. CASE ~Full(d.q) /\ ok
  <2>1. r = [d EXCEPT !.q = SubId(q), !.pic = [@ EXCEPT ![Slot(q, q.tail)] = n]]
    BY <1>5, <1>8 DEF PushPkt
  <2>2. SubId(q) = [q EXCEPT !.tail = t + 1] /\ Slot(q, q.tail) = t % m
    BY <1>4 DEF SubId, Slot
  <2>3. /\ SubId(q) \in Ring /\ SubId(q).tail = t + 1 /\ SubId(q).head = d.q.head
        /\ SubId(q).used = d.q.used /\ SubId(q).free = d.q.free /\ SubId(q).max_idx = m
    BY <1>2, <1>4, <2>2 DEF Ring
  <2> DEFINE p == [d.pic EXCEPT ![t % m] = n]
             s == SubId(q)
  <2>4. p \in [0..(Buffers - 1) -> Video]
    BY <1>1
  <2>5. r = [d EXCEPT !.q = s, !.pic = p]
    BY <2>1, <2>2
  <2>6. /\ s \in Ring /\ s.tail = t + 1 /\ s.head = d.q.head
        /\ s.used = d.q.used /\ s.free = d.q.free /\ s.max_idx = m
    BY <2>3
  <2> HIDE DEF p, s, r
  <2>7. /\ r \in [q : Ring, pic : [0..(Buffers - 1) -> Video], shown : Video]
        /\ r.q = s /\ r.pic = p /\ r.shown = d.shown
    BY <1>1, <2>4, <2>5, <2>6
  <2>8. d.q.head <= t + 1 + 1 /\ d.q.head + m > d.q.tail /\ ~(d.q.head + m <= d.q.tail)
    BY <1>1, <1>2, <1>6, <1>8 DEF t
  <2>9. DecoderTyped(r)
    BY <1>1, <2>6, <2>7, <2>8 DEF DecoderTyped
  <2>10. QED
    BY <1>1, <1>2, <1>8, <2>6, <2>7, <2>8, <2>9 DEF p, r, t
<1>9. CASE ~Full(d.q) /\ ~ok
  <2>1. r = [d EXCEPT !.q = q]
    BY <1>9 DEF PushPkt
  <2> HIDE DEF q, r
  <2>2. /\ r \in [q : Ring, pic : [0..(Buffers - 1) -> Video], shown : Video]
        /\ r.q = q /\ r.pic = d.pic /\ r.shown = d.shown
    BY <1>1, <1>4, <2>1
  <2>3. d.q.head <= t + 1 /\ d.q.head + m > d.q.tail /\ ~(d.q.head + m <= d.q.tail)
    <3>1. d.q.head \in Nat /\ d.q.tail \in Nat /\ d.q.head <= d.q.tail + 1 /\ m \in Nat
      BY <1>1
    <3>2. d.q.tail <= t
      <4>1. t = d.q.tail \/ t = d.q.tail + 1
        BY Zenon DEF t
      <4>2. QED
        BY <3>1, <4>1
    <3> HIDE DEF m
    <3>3. QED
      BY <1>2, <1>6, <1>9, <3>1, <3>2
  <2>4. DecoderTyped(r)
    BY <1>1, <1>4, <2>2, <2>3 DEF DecoderTyped
  <2>5. QED
    BY <1>1, <1>2, <1>4, <1>9, <2>2, <2>3, <2>4 DEF r, t
<1>10. QED
  BY <1>7, <1>8, <1>9

\* What showing a picture does: nothing when the ring is empty, or the step to
\* the next buffer, which comes back at once.
LEMMA Shown ==
  ASSUME NEW d, DecoderTyped(d)
  PROVE  LET m == Buffers - 1
             h == IF d.q.head % m = 0 THEN d.q.head + 1 ELSE d.q.head
             r == ShowFrame(d)
         IN  /\ DecoderTyped(r) /\ r.pic = d.pic /\ r.q.tail = d.q.tail
             /\ r.q.head = IF d.q.head >= d.q.tail THEN d.q.head ELSE h + 1
             /\ r.shown = IF d.q.head >= d.q.tail THEN d.shown ELSE d.pic[h % m]
             /\ h % m \in 1..(m - 1)
<1> DEFINE m == Buffers - 1
           h == IF d.q.head % m = 0 THEN d.q.head + 1 ELSE d.q.head
           r == ShowFrame(d)
           q == SkipHead(d.q)
<1>1. /\ d \in [q : Ring, pic : [0..(Buffers - 1) -> Video], shown : Video]
      /\ d.q \in Ring /\ d.q.used = 1..m /\ d.q.free = d.q.used /\ d.q.max_idx = m
      /\ d.q.head \in Nat /\ d.q.tail \in Nat /\ d.q.head <= d.q.tail + 1
      /\ m \in Nat /\ m >= 2
  BY DEF DecoderTyped, Ring
<1>2. h \in Nat /\ h % m \in 1..(m - 1) /\ NextUsed(d.q, d.q.head) = h
  <2>1. h \in Nat /\ NextUsed(d.q, d.q.head) = h
    <3>1. d.q.head \in Nat
      BY <1>1
    <3>2. NextUsed(d.q, d.q.head) =
              IF d.q.head % (Buffers - 1) = 0 THEN d.q.head + 1 ELSE d.q.head
      BY <3>1, Slots
    <3>3. QED
      BY <3>1, <3>2
  <2>2. h % m # 0
    BY <1>1, AfterZero
  <2>3. h % m \in 0..(m - 1)
    <3>1. m \in Nat \ {0}
      BY <1>1
    <3> HIDE DEF m, h
    <3>2. QED
      BY <2>1, <3>1, Division
  <2>4. QED
    BY <1>1, <2>1, <2>2, <2>3
<1> HIDE DEF h
<1>3. q = [d.q EXCEPT !.head = h]
  BY <1>2 DEF SkipHead
<1>4. /\ q \in Ring /\ q.head = h /\ q.tail = d.q.tail /\ q.used = 1..m
      /\ q.free = 1..m /\ q.max_idx = m
  BY <1>1, <1>2, <1>3 DEF Ring
<1>5. HeadFree(q) /\ Slot(q, q.head) = h % m
  BY <1>1, <1>2, <1>4 DEF HeadFree, Slot
<1>6. Empty(d.q) <=> d.q.head >= d.q.tail
  BY DEF Empty
<1>7. CASE Empty(d.q)
  <2>1. r = d
    BY <1>7 DEF ShowFrame
  <2>2. QED
    BY <1>1, <1>2, <1>6, <1>7, <2>1 DEF h
<1>8. CASE ~Empty(d.q)
  <2> DEFINE s == PutBuf(PassHead(TakeHead(q)), Slot(q, q.head))
  <2>1. r = [d EXCEPT !.q = s, !.shown = d.pic[h % m]]
    BY <1>5, <1>8 DEF ShowFrame
  <2> DEFINE x == PassHead(TakeHead(q))
  <2> HIDE DEF q
  <2>2. TakeHead(q) = [q EXCEPT !.free = @ \ {h % m}]
    BY <1>5 DEF TakeHead
  <2>3. x = [TakeHead(q) EXCEPT !.head = @ + 1]
    BY DEF PassHead
  <2>4. /\ x \in Ring /\ x.head = h + 1 /\ x.tail = d.q.tail /\ x.used = 1..m
        /\ x.free = 1..m \ {h % m} /\ x.max_idx = m
    <3> DEFINE a == TakeHead(q)
    <3>1. /\ a \in Ring /\ a.head = h /\ a.tail = d.q.tail /\ a.used = 1..m
          /\ a.free = 1..m \ {h % m} /\ a.max_idx = m
      <4> HIDE DEF a
      <4>1. a = [q EXCEPT !.free = @ \ {h % m}]
        BY <2>2 DEF a
      <4>2. (1..m \ {h % m}) \in SUBSET Nat
        BY <1>1
      <4>3. QED
        BY <1>4, <4>1, <4>2 DEF Ring
    <3> HIDE DEF a
    <3>2. x = [a EXCEPT !.head = @ + 1]
      BY <2>3 DEF a
    <3> HIDE DEF x
    <3>3. x = [a EXCEPT !.head = h + 1] /\ h + 1 \in Nat
      BY <1>2, <3>1, <3>2
    <3>4. a \in Ring => /\ x \in Ring /\ x.head = h + 1 /\ x.tail = a.tail
                        /\ x.used = a.used /\ x.free = a.free
                        /\ x.max_idx = a.max_idx
      BY <3>3 DEF Ring
    <3>5. QED
      BY <3>1, <3>4
  <2> HIDE DEF x
  <2>5. /\ s \in Ring /\ s.head = h + 1 /\ s.tail = d.q.tail /\ s.used = 1..m
        /\ s.free = 1..m /\ s.max_idx = m
    <3>1. s = [x EXCEPT !.free = @ \cup {h % m}]
      BY <1>2, <1>5 DEF PutBuf, x
    <3>2. (1..m \ {h % m}) \cup {h % m} = 1..m
      BY <1>1, <1>2
    <3> HIDE DEF s
    <3>3. QED
      BY <2>4, <3>1, <3>2 DEF Ring
  <2> HIDE DEF s
  <2>6. d.pic[h % m] \in Video
    BY <1>1, <1>2
  <2> HIDE DEF r
  <2>7. /\ r \in [q : Ring, pic : [0..(Buffers - 1) -> Video], shown : Video]
        /\ r.q = s /\ r.pic = d.pic /\ r.shown = d.pic[h % m]
    BY <1>1, <2>1, <2>5, <2>6
  <2>8. h + 1 <= d.q.tail + 1 /\ ~(d.q.head >= d.q.tail)
    <3>1. d.q.head \in Nat /\ d.q.tail \in Nat
      BY <1>1
    <3>2. ~(d.q.head >= d.q.tail)
      BY Zenon, <1>6, <1>8
    <3>3. h = d.q.head \/ h = d.q.head + 1
      BY Zenon DEF h
    <3>4. QED
      BY <3>1, <3>2, <3>3
  <2>9. DecoderTyped(r)
    BY <1>1, <2>5, <2>7, <2>8 DEF DecoderTyped
  <2>10. QED
    BY <1>1, <1>2, <2>5, <2>7, <2>8, <2>9 DEF r, h
<1>9. QED
  BY <1>7, <1>8

\* Once mapped, the decoder's ring is one of all its buffers.
LEMMA DecoderIs ==
  ASSUME TypeOK, RingMapped, Mapped
  PROVE  DecoderTyped(Decoder) /\ Decoder.q = buf_q /\ Decoder.pic = pic
         /\ Decoder.shown = shown
<1>1. buf_q.free = buf_q.used
  <2>1. 1 \in buf_q.used
    BY DEF Mapped
  <2>2. buf_q # EmptyQueue
    BY <2>1 DEF EmptyQueue
  <2>3. QED
    BY <2>2 DEF RingMapped
<1>2. buf_q \in Ring /\ pic \in [0..(Buffers - 1) -> Video] /\ shown \in Video
  BY DEF RingMapped, TypeOK
<1>3. buf_q.head <= buf_q.tail + 1
  BY DEF TypeOK
<1>4. QED
  BY <1>1, <1>2, <1>3 DEF Decoder, DecoderTyped, Mapped

\* And stays one.
LEMMA DecoderStays ==
  ASSUME NEW d, DecoderTyped(d), Becomes(d)
  PROVE  /\ pic' \in [0..(Buffers - 1) -> Video] /\ shown' \in Video
         /\ buf_q' \in Ring /\ buf_q'.free = buf_q'.used /\ Mapped'
         /\ buf_q'.used \subseteq 1..(Buffers - 1) /\ buf_q'.free \subseteq buf_q'.used
         /\ buf_q'.tail \in Nat /\ buf_q'.head \in 0..(buf_q'.tail + 1)
<1>1. buf_q' = d.q /\ pic' = d.pic /\ shown' = d.shown
  BY DEF Becomes
<1>2. /\ d.q \in Ring /\ d.pic \in [0..(Buffers - 1) -> Video] /\ d.shown \in Video
      /\ d.q.used = 1..(Buffers - 1) /\ d.q.free = d.q.used
      /\ d.q.max_idx = Buffers - 1 /\ d.q.head <= d.q.tail + 1
      /\ d.q.head \in Nat /\ d.q.tail \in Nat
  BY DEF DecoderTyped, Ring
<1>3. QED
  BY <1>1, <1>2 DEF Mapped

\* The GUI thread takes a packet for each one that was counted.
LEMMA TypeTimer == TypeOK /\ RingsInv /\ Timer => TypeOK' /\ RingsInv'
<1> SUFFICES ASSUME TypeOK, RingsInv, Timer PROVE TypeOK' /\ RingsInv'
  OBVIOUS
<1> USE DEF RingsInv, Counted, RingMapped, ThreadsAt, Here, InGui
<1>1. CASE DequeuePkt
  <2>1. gui = "idle" /\ recv_pkt_count > 0 /\ buffer_tail' = buffer_tail + 1 /\ gui' = "put"
    BY <1>1 DEF DequeuePkt
  <2>2. buffer_tail \in Nat /\ RingSize \in Nat \ {0}
    BY DEF TypeOK
  <2>3. buffer_tail % RingSize \in 0..(RingSize - 1)
    BY <2>2, Division
  <2>4. recv_pkt' \in Video
    BY <1>1, <2>3 DEF DequeuePkt, TypeOK
  <2>5. buffer_tail + 1 <= buffer_head
    BY <2>1 DEF TypeOK
  <2>6. QED
    BY <1>1, <2>1, <2>4, <2>5 DEF DequeuePkt, TypeOK, Mapped
<1>2. ASSUME NEW ok \in BOOLEAN, Frame(ok) PROVE TypeOK' /\ RingsInv'
  <2> DEFINE d == PushPkt(Decoder, recv_pkt, ok)
             e == IF HasInfo THEN ShowFrame(d) ELSE d
  <2>1. DecoderTyped(Decoder) /\ recv_pkt \in Video
    BY <1>2, DecoderIs DEF Frame, TypeOK
  <2>2. DecoderTyped(d)
    BY <2>1, Pushed
  <2>3. DecoderTyped(e)
    <3> HIDE DEF d
    <3>1. QED
      BY <2>2, Shown
  <2>4. Becomes(e)
    BY <1>2 DEF Frame
  <2> HIDE DEF e
  <2>5. /\ pic' \in [0..(Buffers - 1) -> Video] /\ shown' \in Video
        /\ buf_q' \in Ring /\ buf_q'.free = buf_q'.used /\ Mapped'
        /\ buf_q'.used \subseteq 1..(Buffers - 1) /\ buf_q'.free \subseteq buf_q'.used
        /\ buf_q'.tail \in Nat /\ buf_q'.head \in 0..(buf_q'.tail + 1)
    BY <2>3, <2>4, DecoderStays
  <2>6. vain' \in BOOLEAN
    BY <1>2, Zenon DEF Frame, TypeOK
  <2>7. misses' \in 0..MaxMisses
    BY <1>2 DEF Frame, TypeOK
  <2>8. /\ gui = "put" /\ gui' = "idle" /\ recv_pkt_count' = recv_pkt_count - 1
        /\ recv_pkt' = 0
        /\ UNCHANGED <<connVars, netVars, slots, buffer_head, buffer_tail, reqVars, srvVars>>
    BY <1>2 DEF Frame
  <2>9. /\ recv_pkt_count \in Nat /\ recv_pkt_count > 0
        /\ buffer_head \in Nat /\ buffer_tail \in Nat
        /\ ThreadsAt("published") \in Nat
        /\ recv_pkt_count + ThreadsAt("published") <= buffer_head - buffer_tail + 1
    BY <2>8 DEF TypeOK
  <2>10. Counted'
    BY <2>8, <2>9 DEF TypeOK
  <2>11. RingMapped'
    BY <2>5, <2>8
  <2>12. recv_pkt_count' \in 0..(buffer_head' - buffer_tail' + 0) /\ recv_pkt' \in Video
    BY <2>8, <2>9 DEF Video
  <2>13. TypeOK'
    <3> HIDE DEF ThreadsAt, Here, Counted, RingMapped
    <3>1. QED
      BY <2>5, <2>6, <2>7, <2>8, <2>12 DEF TypeOK
  <2>14. QED
    BY <2>10, <2>11, <2>13
<1>3. CASE FrameWithoutPkt
  <2>1. DecoderTyped(Decoder)
    BY <1>3, DecoderIs DEF FrameWithoutPkt
  <2>2. DecoderTyped(ShowFrame(Decoder))
    BY <2>1, Shown
  <2>3. Becomes(ShowFrame(Decoder))
    BY <1>3 DEF FrameWithoutPkt
  <2>4. /\ pic' \in [0..(Buffers - 1) -> Video] /\ shown' \in Video
        /\ buf_q' \in Ring /\ buf_q'.free = buf_q'.used /\ Mapped'
        /\ buf_q'.used \subseteq 1..(Buffers - 1) /\ buf_q'.free \subseteq buf_q'.used
        /\ buf_q'.tail \in Nat /\ buf_q'.head \in 0..(buf_q'.tail + 1)
    BY <2>2, <2>3, DecoderStays
  <2>5. UNCHANGED <<connVars, gui, netVars, ringVars, recv_pkt, misses, vain, reqVars,
                    srvVars>>
    BY <1>3 DEF FrameWithoutPkt
  <2>6. TypeOK'
    <3> HIDE DEF ThreadsAt, Here, Counted, RingMapped, RingsInv
    <3>1. QED
      BY <2>4, <2>5 DEF TypeOK
  <2>7. QED
    BY <2>4, <2>5, <2>6
<1>4. QED
  BY <1>1, <1>2, <1>3 DEF Timer

\* A thread that goes on, with something else in hand.
Steps == {"recv", "enqueue", "copied", "published", "respond"}
LEMMA GoesOn ==
  ASSUME TypeOK, NEW t \in Threads, NEW p \in Steps, NEW h \in Video \cup Ids \cup Blocks,
         pc' = [pc EXCEPT ![t] = p], hand' = [hand EXCEPT ![t] = h]
  PROVE  /\ pc' \in [Threads -> {"recv", "enqueue", "copied", "published", "respond"}]
         /\ hand' \in [Threads -> Video \cup Ids \cup Blocks]
<1>1. /\ pc \in [Threads -> Steps] /\ hand \in [Threads -> Video \cup Ids \cup Blocks]
  BY DEF TypeOK, Steps
<1>2. pc' \in [Threads -> Steps]
  BY <1>1
<1>3. hand' \in [Threads -> Video \cup Ids \cup Blocks]
  BY <1>1
<1>4. QED
  BY <1>2, <1>3 DEF Steps

\* The receive threads put as many packets into the ring as it has room for,
\* one more when both test it at once.
LEMMA TypeReceive ==
  ASSUME ClientInv, NEW t \in Threads, Receive(t)
  PROVE  TypeOK' /\ RingsInv'
<1>1. TypeOK /\ RingsInv /\ Kept
  BY DEF ClientInv, RingsInv
<1> USE DEF RingsInv, Counted, RingMapped, ThreadsAt, Here, InGui, Mapped, Threads
<1>2. ASSUME Take(t) PROVE net' \in [Threads -> Seq(Message)] /\ Head(net[t]) \in Message
  <2>1. net[t] \in Seq(Message) /\ net[t] # <<>>
    BY <1>1, <1>2 DEF Take, TypeOK
  <2>2. Tail(net[t]) \in Seq(Message) /\ Head(net[t]) \in Message
    BY <2>1, Popped
  <2>3. QED
    BY <1>1, <1>2, <2>2 DEF Take, TypeOK
<1>3. CASE Drop(t)
  <2>1. UNCHANGED <<conn, gui, kcp_enable, buffer_tail, decVars, srvVars, early, pc, hand,
                    mixed, slots, buffer_head, recv_pkt_count, reqVars>>
    BY <1>3 DEF Drop, Take
  <2>2. net' \in [Threads -> Seq(Message)]
    BY <1>2, <1>3 DEF Drop
  <2>3. TypeOK'
    <3> HIDE DEF ThreadsAt, Here, Counted, RingMapped, RingsInv
    <3>1. QED
      BY <1>1, <2>1, <2>2 DEF TypeOK
  <2>4. QED
    BY <1>1, <2>1, <2>3
<1>4. CASE RecvVideo(t)
  <2>1. Head(net[t]).n \in Video
    BY <1>2, <1>4 DEF RecvVideo, Message, Ids
  <2>2. mixed' \in BOOLEAN
    BY <1>1, <1>4, Zenon DEF RecvVideo, TypeOK
  <2>3. /\ UNCHANGED <<conn, gui, kcp_enable, buffer_tail, decVars, srvVars, early, slots,
                       buffer_head, recv_pkt_count, reqVars>>
        /\ pc[t] = "recv" /\ pc' = [pc EXCEPT ![t] = "enqueue"]
        /\ hand' = [hand EXCEPT ![t] = Head(net[t]).n]
    BY <1>4 DEF RecvVideo, Take
  <2>4. net' \in [Threads -> Seq(Message)]
    BY <1>2, <1>4 DEF RecvVideo
  <2>5. /\ pc' \in [Threads -> {"recv", "enqueue", "copied", "published", "respond"}]
        /\ hand' \in [Threads -> Video \cup Ids \cup Blocks]
    <3>1. Head(net[t]).n \in Video \cup Ids \cup Blocks /\ "enqueue" \in Steps
      BY <2>1 DEF Steps
    <3>2. QED
      BY <1>1, <2>3, <3>1, GoesOn
  <2>6. TypeOK'
    <3> HIDE DEF ThreadsAt, Here, Counted, RingMapped, RingsInv
    <3>1. QED
      BY <1>1, <2>2, <2>3, <2>4, <2>5 DEF TypeOK
  <2>7. /\ \A u \in Threads \ {t} : pc'[u] = pc[u] /\ hand'[u] = hand[u]
        /\ pc'[t] = "enqueue" /\ hand'[t] \in Video
    BY <1>1, <2>1, <2>3 DEF TypeOK
  <2>8. QED
    BY <1>1, <2>3, <2>6, <2>7
<1>5. CASE Enqueue(t)
  <2>1. buffer_head % RingSize \in 0..(RingSize - 1)
    <3>1. buffer_head \in Nat /\ RingSize \in Nat \ {0}
      BY <1>1 DEF TypeOK
    <3>2. QED
      BY <3>1, Division
  <2>2. slots' \in [0..(RingSize - 1) -> Video]
    BY <1>1, <1>5, <2>1 DEF Enqueue, TypeOK
  <2>3. QED
    BY <1>1, <1>5, <2>2 DEF Enqueue, Room, TypeOK
<1>6. CASE Publish(t)
  BY <1>1, <1>6 DEF Publish, TypeOK
<1>7. CASE Count(t)
  <2>1. early' \in BOOLEAN
    BY <1>1, <1>7, Zenon DEF Count, TypeOK
  <2>2. /\ pc[t] = "published" /\ pc' = [pc EXCEPT ![t] = "recv"]
        /\ hand' = [hand EXCEPT ![t] = 0] /\ recv_pkt_count' = recv_pkt_count + 1
        /\ UNCHANGED <<conn, gui, net, kcp_enable, mixed, slots, buffer_head, buffer_tail,
                       decVars, reqVars, srvVars>>
    BY <1>7 DEF Count, Increment
  <2>3. /\ ThreadsAt("published")' = ThreadsAt("published") - 1
        /\ ThreadsAt("copied")' = ThreadsAt("copied") /\ ThreadsAt("published") >= 1
        /\ ThreadsAt("published") \in Nat
    BY <1>1, <2>2 DEF TypeOK
  <2>4. Counted'
    BY <1>1, <2>2, <2>3 DEF TypeOK
  <2>5. recv_pkt_count' \in 0..(buffer_head' - buffer_tail' + InGui')
    BY <1>1, <2>2, <2>3 DEF TypeOK
  <2>6. /\ pc' \in [Threads -> {"recv", "enqueue", "copied", "published", "respond"}]
        /\ hand' \in [Threads -> Video \cup Ids \cup Blocks]
    <3>1. 0 \in Video \cup Ids \cup Blocks /\ "recv" \in Steps
      BY SizesAssumption DEF Video, Steps
    <3>2. QED
      BY <1>1, <2>2, <3>1, GoesOn
  <2>7. TypeOK'
    <3> HIDE DEF ThreadsAt, Here, Counted, RingMapped
    <3>1. QED
      BY <1>1, <2>1, <2>2, <2>5, <2>6 DEF TypeOK
  <2>8. QED
    BY <1>1, <2>2, <2>4, <2>7
<1>8. CASE RecvResponse(t)
  <2> DEFINE n == Head(net[t]).n
  <2>1. overtaken' \in BOOLEAN /\ wild' \in BOOLEAN
    BY <1>1, <1>8, Zenon DEF RecvResponse, TypeOK
  <2>2. /\ nxt' \in [Blocks -> Blocks \cup {NULL}]
        /\ hand' \in [Threads -> Video \cup Ids \cup Blocks]
        /\ pc' \in [Threads -> {"recv", "enqueue", "copied", "published", "respond"}]
    <3>1. CASE Found(n)
      <4>1. Hit(n) \in Blocks /\ Unlinked(n) \in [Blocks -> Blocks \cup {NULL}]
        BY <1>1, <3>1, FoundIs DEF TypeOK
      <4>2. /\ nxt' = Unlinked(n) /\ pc' = [pc EXCEPT ![t] = "respond"]
            /\ hand' = [hand EXCEPT ![t] = Hit(n)]
        BY <1>8, <3>1 DEF RecvResponse
      <4>3. Hit(n) \in Video \cup Ids \cup Blocks /\ "respond" \in Steps
        BY <4>1 DEF Steps
      <4>4. QED
        BY <1>1, <4>1, <4>2, <4>3, GoesOn
    <3>2. CASE ~Found(n)
      BY <1>1, <1>8, <3>2 DEF RecvResponse, TypeOK
    <3>3. QED
      BY <3>1, <3>2
  <2>3. /\ \A u \in Threads \ {t} : pc'[u] = pc[u] /\ hand'[u] = hand[u]
        /\ pc[t] = "recv" /\ pc'[t] \in {"recv", "respond"}
    BY <1>1, <1>8 DEF RecvResponse, Take, TypeOK
  <2>4. UNCHANGED <<conn, gui, kcp_enable, buffer_tail, decVars, srvVars, early, mixed,
                    slots, buffer_head, recv_pkt_count, live, idOf, req_obj_head,
                    nextId, answered>>
    BY <1>8 DEF RecvResponse, Take
  <2>5. net' \in [Threads -> Seq(Message)]
    BY <1>2, <1>8 DEF RecvResponse
  <2>6. TypeOK'
    <3> HIDE DEF ThreadsAt, Here, Counted, RingMapped, RingsInv
    <3>1. TypeOK
      BY <1>1
    <3>2. /\ recv_pkt_count' \in 0..(buffer_head' - buffer_tail'
                                        + IF gui' \in {"put", "exit"} THEN 1 ELSE 0)
          /\ buffer_head' \in Nat /\ buffer_tail' \in 0..buffer_head'
          /\ buffer_head' - buffer_tail' <= RingSize + 1
      BY <2>4, <3>1 DEF TypeOK
    <3>3. /\ live' \subseteq Blocks /\ idOf' \in [Blocks -> Ids \cup {NoId}]
          /\ req_obj_head' \in Blocks \cup {NULL} /\ nextId' \in 0..MaxRequests
          /\ answered' \subseteq Ids
      BY <2>4, <3>1 DEF TypeOK
    <3>4. /\ recv_pkt' \in Video /\ shown' \in Video
          /\ buf_q'.used \subseteq 1..(Buffers - 1) /\ buf_q'.free \subseteq buf_q'.used
          /\ buf_q'.tail \in Nat /\ buf_q'.head \in 0..(buf_q'.tail + 1)
          /\ pic' \in [0..(Buffers - 1) -> Video] /\ misses' \in 0..MaxMisses
          /\ slots' \in [0..(RingSize - 1) -> Video]
      BY <2>4, <3>1 DEF TypeOK
    <3>5. QED
      BY <2>1, <2>2, <2>4, <2>5, <3>1, <3>2, <3>3, <3>4 DEF TypeOK
  <2>7. QED
    BY <1>1, <2>3, <2>4, <2>6
<1>9. CASE Respond(t)
  <2>1. hand[t] \in live /\ idOf[hand[t]] \in Ids
    BY <1>1, <1>9 DEF Respond, Kept
  <2>2. kcp_enable' \in BOOLEAN
    BY <1>1, <1>9, Zenon DEF Respond, client_kcp_connect, TypeOK
  <2>3. /\ pc[t] = "respond" /\ pc' = [pc EXCEPT ![t] = "recv"]
        /\ hand' = [hand EXCEPT ![t] = 0] /\ answered' = answered \cup {idOf[hand[t]]}
        /\ live' = live \ {hand[t]} /\ idOf' = [idOf EXCEPT ![hand[t]] = NoId]
        /\ nxt' = [nxt EXCEPT ![hand[t]] = NULL]
        /\ UNCHANGED <<connVars, gui, net, mixed, ringVars, decVars, srvVars, req_obj_head,
                       nextId, overtaken, wild>>
    BY <1>9 DEF Respond
  <2>4. /\ pc' \in [Threads -> {"recv", "enqueue", "copied", "published", "respond"}]
        /\ hand' \in [Threads -> Video \cup Ids \cup Blocks]
        /\ live' \subseteq Blocks /\ idOf' \in [Blocks -> Ids \cup {NoId}]
        /\ nxt' \in [Blocks -> Blocks \cup {NULL}] /\ answered' \subseteq Ids
    <3>1. 0 \in Video \cup Ids \cup Blocks /\ "recv" \in Steps
      BY SizesAssumption DEF Video, Steps
    <3>2. /\ pc' \in [Threads -> {"recv", "enqueue", "copied", "published", "respond"}]
          /\ hand' \in [Threads -> Video \cup Ids \cup Blocks]
      BY <1>1, <2>3, <3>1, GoesOn
    <3>3. idOf' \in [Blocks -> Ids \cup {NoId}] /\ nxt' \in [Blocks -> Blocks \cup {NULL}]
      BY <1>1, <2>1, <2>3 DEF TypeOK
    <3>4. live' \subseteq Blocks /\ answered' \subseteq Ids
      BY <1>1, <2>1, <2>3 DEF TypeOK
    <3>5. QED
      BY <3>2, <3>3, <3>4
  <2>5. TypeOK'
    <3> HIDE DEF ThreadsAt, Here, Counted, RingMapped
    <3>1. QED
      BY <1>1, <2>2, <2>3, <2>4 DEF TypeOK
  <2>6. Counted'
    BY <1>1, <2>3 DEF TypeOK
  <2>7. QED
    BY <1>1, <2>3, <2>5, <2>6
<1>10. QED
  BY <1>3, <1>4, <1>5, <1>6, <1>7, <1>8, <1>9 DEF Receive

\* Every step keeps the types and the rings.
LEMMA TypeStep == ClientInv /\ [Next]_vars => TypeOK' /\ RingsInv'
<1> SUFFICES ASSUME ClientInv, [Next]_vars PROVE TypeOK' /\ RingsInv'
  OBVIOUS
<1>1. TypeOK /\ RingsInv
  BY DEF ClientInv, RingsInv
<1>2. CASE RecvEof
  <2>1. /\ gui' = "exit" /\ InGui' = 1 /\ InGui \in {0, 1}
        /\ UNCHANGED <<connVars, netVars, ringVars, decVars, reqVars, srvVars>>
    BY <1>2 DEF RecvEof, InGui
  <2>2. /\ recv_pkt_count \in Nat /\ buffer_head \in Nat /\ buffer_tail \in Nat
        /\ recv_pkt_count <= buffer_head - buffer_tail + InGui
        /\ ThreadsAt("published") \in Nat /\ ThreadsAt("published")' = ThreadsAt("published")
        /\ ThreadsAt("copied")' = ThreadsAt("copied")
    BY <1>1, <2>1 DEF TypeOK, ThreadsAt, Here, InGui
  <2>3. recv_pkt_count' \in 0..(buffer_head' - buffer_tail' + 1)
    BY <2>1, <2>2
  <2>4. TypeOK'
    BY <1>1, <2>1, <2>3 DEF TypeOK
  <2>5. RingsInv'
    BY <1>1, <2>1, <2>2 DEF RingsInv, Counted, RingMapped, Mapped
  <2>6. QED
    BY <2>4, <2>5
<1>3. CASE UNCHANGED vars
  BY <1>1, <1>3 DEF TypeOK, RingsInv, Counted, RingMapped, ThreadsAt, Here, InGui, Mapped
<1>4. QED
  BY <1>1, <1>2, <1>3, TypeSetup, TypeTimer, TypeRequests, TypeServer, TypeReceive
     DEF Next
-----------------------------------------------------------------------------
(* The table of requests.                                                   *)

\* Requests and answers that are no more than before are each there once.
LEMMA OnceKept ==
  ASSUME Once, UNCHANGED asked,
         \A t \in Threads : AnswersDistinct(net'[t]) /\ Answers(t)' \subseteq Answers(t)
  PROVE  Once' /\ OnTheWay' \subseteq OnTheWay
<1>1. \A t \in Threads : Asked(t)' = Asked(t)
  BY DEF Asked
<1>2. \A t \in Threads : Distinct(asked'[t]) /\ AnswersDistinct(net'[t])
  BY DEF Once
<1>3. {"tcp", "kcp"} = Threads
  BY DEF Threads
<1> HIDE DEF Asked, Answers
<1>4. Once'
  BY <1>1, <1>2, <1>3 DEF Once
<1>5. OnTheWay' \subseteq OnTheWay
  BY <1>1 DEF OnTheWay
<1>6. QED
  BY <1>4, <1>5

\* A thread has a request in hand, or not, as before.
SameHands ==
    \A t \in Threads : /\ pc'[t] = "respond" <=> pc[t] = "respond"
                       /\ pc[t] = "respond" => hand'[t] = hand[t]
SameTable == UNCHANGED <<live, idOf, nxt, req_obj_head, nextId, overtaken>>
\* The GUI thread does not come to a request, and stays with it.
SameSending ==
    /\ gui' = "send" => gui = "send"
    /\ gui \in {"send", "exit"} => gui' \in {"send", "exit"}

\* The requests in hand are then the same.
LEMMA HandsKept == SameHands => InHand' = InHand
  BY DEF SameHands, InHand

\* The table is what it was when no request is new on its way or in hand.
LEMMA TableKept ==
  ASSUME Kept, SameTable, SameHands, SameSending, OnTheWay' \subseteq OnTheWay
  PROVE  Kept' /\ Table' = Table /\ (Linked /\ wild' = wild => Linked')
<1>1. InHand' = InHand /\ Table' = Table
  BY HandsKept DEF Table, SameTable
<1> HIDE DEF InHand, Table, OnTheWay
<1>2. Kept'
  BY <1>1 DEF Kept, SameTable, SameHands, SameSending
<1>3. \A b : Older(b)' = Older(b)
  BY <1>1 DEF Older, SameTable
<1>4. Linked /\ wild' = wild => Linked'
  BY <1>1, <1>3 DEF Linked, NewestOf, SameTable
<1>5. QED
  BY <1>1, <1>2, <1>4

\* Nothing about requests changes.
LEMMA RequestsKept ==
  ASSUME Once, Kept, Linked, SameTable, SameHands, SameSending, UNCHANGED <<asked, wild>>,
         \A t \in Threads : AnswersDistinct(net'[t]) /\ Answers(t)' \subseteq Answers(t)
  PROVE  Once' /\ Kept' /\ Linked'
<1>1. Once' /\ OnTheWay' \subseteq OnTheWay
  BY OnceKept
<1>2. QED
  BY <1>1, TableKept

\* In most steps messages stay as they are.
LEMMA RequestsKeptNet ==
  ASSUME Once, Kept, Linked, SameTable, SameHands, SameSending,
         UNCHANGED <<asked, net, wild>>
  PROVE  Once' /\ Kept' /\ Linked'
<1>1. \A t \in Threads : AnswersDistinct(net'[t]) /\ Answers(t)' \subseteq Answers(t)
  BY DEF Once, Answers
<1>2. QED
  BY <1>1, RequestsKept

\* The thread that takes a message leaves the others as they are.
LEMMA Taken ==
  ASSUME TypeOK, Once, NEW t \in Threads, Take(t)
  PROVE  /\ \A u \in Threads : AnswersDistinct(net'[u]) /\ Answers(u)' \subseteq Answers(u)
         /\ Head(net[t]).type = "response" =>
                /\ Head(net[t]).n \in Answers(t) /\ Answers(t)' = Answers(t) \ {Head(net[t]).n}
                /\ \A u \in Threads \ {t} : Answers(u)' = Answers(u)
<1>1. /\ net' = [net EXCEPT ![t] = Tail(@)] /\ net[t] # <<>>
      /\ net \in [Threads -> Seq(Message)] /\ net[t] \in Seq(Message)
      /\ AnswersDistinct(net[t])
  BY DEF Take, TypeOK, Once
<1>2. net'[t] = Tail(net[t]) /\ \A u \in Threads \ {t} : net'[u] = net[u]
  BY <1>1
<1>3. \A u \in Threads \ {t} : Answers(u)' = Answers(u) /\ AnswersDistinct(net'[u])
  BY <1>2 DEF Answers, Once
<1>4. /\ Answers(t) = Answers(t)' \cup
             (IF Head(net[t]).type = "response" THEN {Head(net[t]).n} ELSE {})
      /\ AnswersDistinct(net'[t])
      /\ Head(net[t]).type = "response" => Head(net[t]).n \notin Answers(t)'
  BY <1>1, <1>2, SentLess DEF Answers
<1>5. QED
  BY <1>3, <1>4

\* The server answers a request.
LEMMA AnswerKeeps ==
  ASSUME TypeOK, Once, Kept, Linked, NEW t \in Threads, Answer(t)
  PROVE  Once' /\ Kept' /\ Linked'
<1>1. {"tcp", "kcp"} = Threads
  BY DEF Threads
<1>2. PICK n : n = Head(asked[t])
  OBVIOUS
<1>3. PICK r \in Threads : r = Route
  BY DEF Route, Threads
<1> DEFINE e == [type |-> "response", n |-> n]
<1>4. /\ asked[t] \in Seq(Ids) /\ asked[t] # <<>> /\ Distinct(asked[t])
      /\ asked' = [asked EXCEPT ![t] = Tail(@)] /\ net' = [net EXCEPT ![r] = Append(@, e)]
      /\ asked \in [Threads -> Seq(Ids)] /\ net \in [Threads -> Seq(Message)]
      /\ net[r] \in Seq(Message) /\ AnswersDistinct(net[r])
  BY <1>1, <1>2, <1>3 DEF Answer, TypeOK, Once
<1>5. n \in Ids /\ e \in Message
  <2>1. n \in Ids
    BY <1>4, <1>2, Popped
  <2>2. QED
    BY <2>1 DEF Message
<1>6. /\ asked'[t] = Tail(asked[t]) /\ \A u \in Threads \ {t} : asked'[u] = asked[u]
      /\ net'[r] = Append(net[r], e) /\ \A u \in Threads \ {r} : net'[u] = net[u]
  BY <1>1, <1>4
<1>7. /\ n \in Asked(t) /\ Asked(t)' = Asked(t) \ {n} /\ Distinct(asked'[t])
      /\ \A u \in Threads \ {t} : Asked(u)' = Asked(u) /\ Distinct(asked'[u])
  BY <1>4, <1>6, <1>2, AskedLess DEF Asked, Once
<1>8. \A u \in Threads : n \notin Answers(u)
  BY <1>7 DEF Once
<1>9. /\ Answers(r)' = Answers(r) \cup {n}
      /\ \A u \in Threads \ {r} : Answers(u)' = Answers(u) /\ AnswersDistinct(net'[u])
      /\ AnswersDistinct(net'[r])
  <2>1. e.type = "response" /\ e.n = n
    OBVIOUS
  <2> HIDE DEF e
  <2>2. /\ Numbers(Append(net[r], e), "response") = Numbers(net[r], "response") \cup {n}
        /\ AnswersDistinct(Append(net[r], e))
    <3>1. e.n \notin Numbers(net[r], "response")
      BY <1>1, <1>8, <2>1 DEF Answers
    <3>2. QED
      BY <1>4, <1>5, <2>1, <3>1, SentMore
  <2>3. \A u \in Threads \ {r} : Answers(u)' = Answers(u) /\ AnswersDistinct(net'[u])
    BY <1>6 DEF Answers, Once
  <2>4. QED
    BY <1>6, <2>2, <2>3 DEF Answers
<1> HIDE DEF e, Asked, Answers
<1>10. \A u \in Threads : Asked(u)' \subseteq Asked(u) /\ n \notin Asked(u)'
  BY <1>1, <1>7 DEF Once
<1>11. \A u \in Threads : Answers(u)' \subseteq Answers(u) \cup {n} /\ (u # r => n \notin Answers(u)')
  BY <1>8, <1>9
<1>12. Once'
  <2>1. \A u, v \in Threads : Asked(u)' \cap Answers(v)' = {}
    BY <1>10, <1>11 DEF Once
  <2>2. Asked("tcp")' \cap Asked("kcp")' = {}
    BY <1>1, <1>10 DEF Once
  <2>3. Answers("tcp")' \cap Answers("kcp")' = {}
    BY <1>1, <1>11 DEF Once
  <2>4. \A u \in Threads : Distinct(asked'[u]) /\ AnswersDistinct(net'[u])
    BY <1>7, <1>9
  <2>5. QED
    BY <2>1, <2>2, <2>3, <2>4 DEF Once
<1>13. OnTheWay' \subseteq OnTheWay
  <2>1. n \in OnTheWay
    BY <1>7 DEF OnTheWay
  <2>2. \A u \in Threads : Asked(u) \subseteq OnTheWay /\ Answers(u) \subseteq OnTheWay
    BY DEF OnTheWay
  <2>3. \A u \in Threads : Asked(u)' \subseteq OnTheWay /\ Answers(u)' \subseteq OnTheWay
    BY <1>10, <1>11, <2>1, <2>2
  <2>4. OnTheWay' = UNION {Asked(u)' \cup Answers(u)' : u \in Threads}
    BY DEF OnTheWay
  <2>5. QED
    BY <2>3, <2>4
<1>14. /\ SameTable /\ SameHands /\ SameSending /\ wild' = wild
  BY DEF Answer, SameTable, SameHands, SameSending
<1>15. QED
  BY <1>12, <1>13, <1>14, TableKept

\* What the invariants say of blocks and ids.
LEMMA TableIs ==
  ASSUME TypeOK, Kept
  PROVE  /\ Table \subseteq live /\ live \subseteq Blocks /\ InHand \subseteq live
         /\ nextId \in Nat /\ \A b \in live : idOf[b] \in Nat
         /\ \A b \in InHand : idOf[b] < nextId
         /\ \A n \in OnTheWay : n < nextId
<1>1. Table \subseteq live /\ live \subseteq Blocks /\ nextId \in Nat
  BY DEF TypeOK, Table
<1>2. \A b \in live : idOf[b] \in Nat
  BY DEF Kept, Ids
<1>3. InHand \subseteq live /\ \A b \in InHand : idOf[b] < nextId
  BY DEF Kept, InHand
<1>4. \A n \in OnTheWay : n < nextId
  BY DEF Kept
<1>5. QED
  BY <1>1, <1>2, <1>3, <1>4

\* A new request is the newest of the table.
LEMMA AddRequestKeeps ==
  ASSUME TypeOK, Once, Kept, Linked, NEW b \in Blocks, AddRequest(b)
  PROVE  Once' /\ Kept' /\ Linked'
<1>1. /\ gui = "idle" /\ gui' = "send" /\ nextId < MaxRequests /\ b \notin live
      /\ live' = live \cup {b} /\ idOf' = [idOf EXCEPT ![b] = nextId]
      /\ nxt' = [nxt EXCEPT ![b] = req_obj_head] /\ req_obj_head' = b
      /\ UNCHANGED <<asked, net, pc, hand, nextId, overtaken, wild>>
  BY DEF AddRequest, add_request
<1>2. /\ Table \subseteq live /\ live \subseteq Blocks /\ InHand \subseteq live
      /\ nextId \in Nat /\ \A c \in live : idOf[c] \in Nat /\ idOf[c] < nextId
      /\ nextId \in Ids
  <2>1. \A c \in live : idOf[c] <= nextId /\ idOf[c] # nextId
    BY <1>1 DEF Kept
  <2>2. nextId \in Ids
    BY <1>1, TableIs DEF TypeOK, Ids
  <2>3. QED
    BY <2>1, <2>2, TableIs
<1>3. idOf'[b] = nextId /\ \A c \in live : idOf'[c] = idOf[c] /\ nxt'[c] = nxt[c]
  BY <1>1, <1>2 DEF TypeOK
<1>4. nxt'[b] = req_obj_head
  BY <1>1 DEF TypeOK
<1>5. InHand' = InHand /\ OnTheWay' = OnTheWay
  BY <1>1 DEF InHand, OnTheWay, Asked, Answers
<1>6. Table' = Table \cup {b} /\ b \notin Table
  BY <1>1, <1>2, <1>5 DEF Table
<1>7. Once'
  BY <1>1 DEF Once, Asked, Answers
<1> HIDE DEF InHand, OnTheWay, Table
<1>8. Kept'
  <2>1. \A n \in OnTheWay' : n < nextId' /\ \E c \in Table' : idOf'[c] = n
    BY <1>1, <1>2, <1>3, <1>5, <1>6 DEF Kept
  <2>2. nextId' < MaxRequests /\ \E c \in Table' : idOf'[c] = nextId'
    BY <1>1, <1>3, <1>6
  <2>3. \A c \in live' : /\ idOf'[c] \in Ids /\ idOf'[c] <= nextId'
                         /\ idOf'[c] = nextId' => gui' \in {"send", "exit"}
    BY <1>1, <1>2, <1>3 DEF Kept
  <2>4. \A c, d \in live' : idOf'[c] = idOf'[d] => c = d
    BY <1>1, <1>2, <1>3 DEF Kept
  <2>5. \A t \in Threads : pc'[t] = "respond" => hand'[t] \in live' /\ idOf'[hand'[t]] < nextId'
    BY <1>1, <1>2, <1>3 DEF Kept
  <2>6. \A t, u \in Threads :
           pc'[t] = "respond" /\ pc'[u] = "respond" /\ hand'[t] = hand'[u] => t = u
    BY <1>1 DEF Kept
  <2>7. QED
    BY <2>1, <2>2, <2>3, <2>4, <2>5, <2>6 DEF Kept
<1>9. Linked'
  <2>1. Older(b)' = Table /\ \A c \in Table : Older(c)' = Older(c)
    BY <1>2, <1>3, <1>6 DEF Older
  <2>2. SUFFICES ASSUME ~overtaken
                 PROVE  /\ \A c \in Table' : idOf'[c] <= idOf'[b]
                        /\ \A c \in Table' : Older(c)' # {} =>
                              /\ nxt'[c] \in Older(c)'
                              /\ \A d \in Older(c)' : idOf'[d] <= idOf'[nxt'[c]]
    BY <1>1, <1>6 DEF Linked, NewestOf
  <2>3. \A c \in Table' : idOf'[c] <= idOf'[b]
    BY <1>2, <1>3, <1>6
  <2>4. ASSUME NEW c \in Table, Older(c)' # {}
        PROVE  nxt'[c] \in Older(c)' /\ \A d \in Older(c)' : idOf'[d] <= idOf'[nxt'[c]]
    BY <1>2, <1>3, <2>1, <2>2, <2>4 DEF Linked, NewestOf, Older
  <2>5. ASSUME Older(b)' # {}
        PROVE  nxt'[b] \in Older(b)' /\ \A d \in Older(b)' : idOf'[d] <= idOf'[nxt'[b]]
    BY <1>2, <1>3, <1>4, <2>1, <2>2, <2>5 DEF Linked, NewestOf
  <2>6. QED
    BY <1>6, <2>3, <2>4, <2>5
<1>10. QED
  BY <1>7, <1>8, <1>9

\* A request sent is on its way for the first time.
LEMMA SendRequestKeeps ==
  ASSUME TypeOK, Once, Kept, Linked, SendRequest
  PROVE  Once' /\ Kept' /\ Linked'
<1>1. PICK n : n = nextId
  OBVIOUS
<1>2. PICK t \in Threads : t = IF kcp_enable THEN "kcp" ELSE "tcp"
  BY DEF Threads
<1>3. /\ gui = "send" /\ gui' = "idle" /\ nextId' = n + 1
      /\ asked' = [asked EXCEPT ![t] = Append(@, n)]
      /\ UNCHANGED <<net, pc, hand, live, idOf, nxt, req_obj_head, overtaken, wild>>
  BY <1>1, <1>2 DEF SendRequest, NextId
<1>4. n \in Ids /\ n \notin OnTheWay /\ {"tcp", "kcp"} = Threads
  BY <1>1, <1>3, TableIs DEF Kept, Ids, Threads
<1>5. /\ Asked(t)' = Asked(t) \cup {n} /\ Distinct(asked'[t])
      /\ \A u \in Threads \ {t} : Asked(u)' = Asked(u) /\ Distinct(asked'[u])
  <2>1. /\ asked[t] \in Seq(Ids) /\ Distinct(asked[t]) /\ n \notin Elements(asked[t])
        /\ asked'[t] = Append(asked[t], n)
        /\ \A u \in Threads \ {t} : asked'[u] = asked[u]
    BY <1>3, <1>4 DEF TypeOK, Once, OnTheWay, Asked
  <2>2. QED
    BY <1>4, <2>1, AskedMore DEF Asked, Once
<1>6. \A u \in Threads : Answers(u)' = Answers(u) /\ AnswersDistinct(net'[u])
  BY <1>3 DEF Answers, Once
<1>7. \A u \in Threads : n \notin Asked(u) /\ n \notin Answers(u)
  BY <1>4 DEF OnTheWay
<1> HIDE DEF Asked, Answers
<1>8. \A u \in Threads : /\ Asked(u)' \subseteq Asked(u) \cup {n}
                         /\ u # t => n \notin Asked(u)'
  BY <1>5, <1>7
<1>9. Once'
  <2>1. \A u, v \in Threads : Asked(u)' \cap Answers(v)' = {}
    BY <1>6, <1>7, <1>8 DEF Once
  <2>2. Asked("tcp")' \cap Asked("kcp")' = {}
    BY <1>4, <1>8 DEF Once
  <2>3. Answers("tcp")' \cap Answers("kcp")' = {}
    BY <1>4, <1>6 DEF Once
  <2>4. \A u \in Threads : Distinct(asked'[u]) /\ AnswersDistinct(net'[u])
    BY <1>5, <1>6
  <2>5. QED
    BY <2>1, <2>2, <2>3, <2>4 DEF Once
<1>10. OnTheWay' \subseteq OnTheWay \cup {n}
  <2>1. \A u \in Threads : Asked(u) \subseteq OnTheWay /\ Answers(u) \subseteq OnTheWay
    BY DEF OnTheWay
  <2>2. \A u \in Threads : /\ Asked(u)' \subseteq OnTheWay \cup {n}
                           /\ Answers(u)' \subseteq OnTheWay \cup {n}
    BY <1>6, <1>8, <2>1
  <2>3. OnTheWay' = UNION {Asked(u)' \cup Answers(u)' : u \in Threads}
    BY DEF OnTheWay
  <2>4. QED
    BY <2>2, <2>3
<1>11. InHand' = InHand /\ Table' = Table
  BY <1>3 DEF InHand, Table
<1> HIDE DEF OnTheWay, InHand, Table
<1>12. Kept'
  <2>1. /\ n \in Nat /\ \A b \in live : idOf[b] \in Nat
        /\ \A m \in OnTheWay : m \in Int /\ m < n
    <3>1. \A m \in OnTheWay : \E b \in Table : idOf[b] = m
      BY DEF Kept
    <3>2. QED
      BY <1>1, <3>1, TableIs DEF Kept
  <2>2. \A m \in OnTheWay' : m < nextId' /\ \E b \in Table' : idOf'[b] = m
    BY <1>1, <1>3, <1>10, <1>11, <2>1 DEF Kept
  <2>3. \A b \in live' : idOf'[b] \in Ids /\ idOf'[b] <= nextId' /\ idOf'[b] # nextId'
    BY <1>1, <1>3, <2>1 DEF Kept
  <2>4. \A u \in Threads : pc'[u] = "respond" => hand'[u] \in live' /\ idOf'[hand'[u]] < nextId'
    BY <1>1, <1>3, <2>1 DEF Kept
  <2>5. QED
    BY <1>3, <2>2, <2>3, <2>4 DEF Kept
<1>13. Linked'
  <2>1. \A b : Older(b)' = Older(b)
    BY <1>3, <1>11 DEF Older
  <2>2. QED
    BY <1>3, <1>11, <2>1 DEF Linked, NewestOf
<1>14. QED
  BY <1>9, <1>12, <1>13

\* A request taken back was the only one, or left the table before another.
LEMMA SendFailsKeeps ==
  ASSUME TypeOK, Once, Kept, Linked, SendFails
  PROVE  Once' /\ Kept' /\ Linked'
<1>1. PICK h : h = Hit(nextId)
  OBVIOUS
<1>2. /\ gui = "send" /\ gui' = "idle" /\ Found(nextId)
      /\ live' = live \ {h} /\ idOf' = [idOf EXCEPT ![h] = NoId]
      /\ overtaken' = (overtaken \/ Waiting(nextId) # {})
      /\ UNCHANGED <<asked, net, pc, hand, req_obj_head, nextId, wild>>
  BY <1>1 DEF SendFails
<1>3. h \in live /\ idOf[h] = nextId
  BY <1>1, <1>2, FoundIs
<1>4. /\ Table \subseteq live /\ live \subseteq Blocks
      /\ nextId \in Nat /\ \A b \in live : idOf[b] \in Nat
      /\ \A b \in InHand : idOf[b] < nextId
      /\ \A n \in OnTheWay : n < nextId
  BY TableIs
<1>5. \A b \in live' : b \in live /\ idOf'[b] = idOf[b] /\ idOf[b] < nextId
  BY <1>2, <1>3, <1>4 DEF Kept, TypeOK
<1>6. InHand' = InHand /\ OnTheWay' = OnTheWay /\ h \notin InHand
  <2>1. InHand' = InHand /\ OnTheWay' = OnTheWay
    BY <1>2 DEF InHand, OnTheWay, Asked, Answers
  <2>2. h \notin InHand
    BY <1>3, <1>4
  <2>3. QED
    BY <2>1, <2>2
<1>7. Table' = Table \ {h}
  BY <1>2, <1>6 DEF Table
<1>8. Once'
  BY <1>2 DEF Once, Asked, Answers
<1>9. Waiting(nextId) = {b \in Table : idOf[b] < nextId}
  BY DEF Waiting, Table, Before
<1> HIDE DEF InHand, OnTheWay, Table
<1>10. Kept'
  <2>1. \A n \in OnTheWay' : n < nextId' /\ \E b \in Table' : idOf'[b] = n
    <3> SUFFICES ASSUME NEW n \in OnTheWay
                 PROVE  n < nextId /\ \E b \in Table' : idOf'[b] = n
      BY <1>2, <1>6
    <3>1. PICK b \in Table : idOf[b] = n
      BY DEF Kept
    <3>2. n < nextId /\ b # h
      BY <1>3, <1>4, <3>1
    <3>3. b \in Table' /\ b \in live'
      BY <1>2, <1>4, <1>7, <3>2
    <3>4. QED
      BY <1>5, <3>1, <3>2, <3>3
  <2>2. \A b \in live' : idOf'[b] \in Ids /\ idOf'[b] < nextId' /\ idOf'[b] \in Nat
    BY <1>2, <1>4, <1>5 DEF Kept
  <2>3. \A b, c \in live' : idOf'[b] = idOf'[c] => b = c
    BY <1>5 DEF Kept
  <2>4. \A t \in Threads : pc'[t] = "respond" => hand'[t] \in live' /\ idOf'[hand'[t]] < nextId'
    <3> SUFFICES ASSUME NEW t \in Threads, pc[t] = "respond"
                 PROVE  hand[t] \in live' /\ idOf'[hand[t]] < nextId
      BY <1>2
    <3>1. hand[t] \in live /\ idOf[hand[t]] < nextId
      BY DEF Kept
    <3>2. hand[t] \in live'
      BY <1>2, <1>3, <1>4, <3>1
    <3>3. QED
      BY <1>5, <3>2
  <2>5. \A t, u \in Threads :
           pc'[t] = "respond" /\ pc'[u] = "respond" /\ hand'[t] = hand'[u] => t = u
    BY <1>2 DEF Kept
  <2>6. QED
    BY <1>2, <1>4, <2>1, <2>2, <2>3, <2>4, <2>5 DEF Kept
<1>11. Linked'
  <2>1. SUFFICES ASSUME ~overtaken' PROVE Table' = {} /\ ~wild'
    BY DEF Linked
  <2>2. ~overtaken /\ Waiting(nextId) = {}
    BY <1>2, <2>1
  <2>3. \A b \in Table : idOf[b] = nextId
    BY <1>4, <1>9, <2>2 DEF Kept
  <2>4. \A b \in Table : b = h
    BY <1>3, <1>4, <2>3 DEF Kept
  <2>5. QED
    BY <1>2, <1>7, <2>2, <2>4 DEF Linked
<1>12. QED
  BY <1>8, <1>10, <1>11

\* The answer to the oldest request finds it, and leaves a list of the others;
\* another answer is one that has overtaken.
LEMMA RecvResponseKeeps ==
  ASSUME TypeOK, Once, Kept, Linked, NEW t \in Threads, RecvResponse(t)
  PROVE  Once' /\ Kept' /\ Linked'
<1>1. PICK n : n = Head(net[t]).n
  OBVIOUS
<1>2. /\ Take(t) /\ pc[t] = "recv" /\ Head(net[t]).type = "response"
      /\ overtaken' = (overtaken \/ Waiting(n) # {})
      /\ UNCHANGED <<asked, gui, live, idOf, req_obj_head, nextId>>
  BY <1>1 DEF RecvResponse, Take
<1>3. /\ \A u \in Threads : AnswersDistinct(net'[u]) /\ Answers(u)' \subseteq Answers(u)
      /\ n \in Answers(t) /\ Answers(t)' = Answers(t) \ {n}
      /\ \A u \in Threads \ {t} : Answers(u)' = Answers(u)
  BY <1>1, <1>2, Taken
<1>4. Once' /\ OnTheWay' \subseteq OnTheWay
  BY <1>2, <1>3, OnceKept
<1>5. n \in OnTheWay /\ n \notin OnTheWay'
  <2>1. {"tcp", "kcp"} = Threads /\ \A u \in Threads : Asked(u)' = Asked(u)
    BY <1>2 DEF Threads, Asked
  <2> HIDE DEF Asked, Answers
  <2>2. \A u \in Threads : n \notin Asked(u)'
    BY <1>3, <2>1 DEF Once
  <2>3. \A u \in Threads : n \notin Answers(u)'
    BY <1>3, <2>1 DEF Once
  <2>4. n \in OnTheWay
    BY <1>3 DEF OnTheWay
  <2>5. OnTheWay' = UNION {Asked(u)' \cup Answers(u)' : u \in Threads}
    BY DEF OnTheWay
  <2>6. QED
    BY <2>2, <2>3, <2>4, <2>5
<1>6. /\ Table \subseteq live /\ live \subseteq Blocks /\ InHand \subseteq live
      /\ nextId \in Nat /\ \A c \in live : idOf[c] \in Nat
      /\ \A m \in OnTheWay : m < nextId
  BY TableIs
<1>7. PICK b \in Table : idOf[b] = n
  BY <1>5 DEF Kept
<1>8. Waiting(n) = Older(b)
  BY <1>7 DEF Waiting, Older, Table, Before
<1>9. ~overtaken' => ~overtaken /\ Older(b) = {}
  BY <1>2, <1>8
<1>10. ~overtaken' => /\ Found(n) /\ Hit(n) = b
                      /\ Min(Stops(n)) # 0 => Path[Min(Stops(n)) - 1] \in Table
  BY <1>7, <1>9, OldestFound
<1>11. CASE ~Found(n)
  <2>1. UNCHANGED <<nxt, pc, hand>>
    BY <1>1, <1>11 DEF RecvResponse
  <2>2. overtaken'
    BY <1>2, <1>10, <1>11
  <2>3. InHand' = InHand
    BY <2>1 DEF InHand
  <2>4. Table' = Table
    BY <1>2, <2>3 DEF Table
  <2> HIDE DEF InHand, Table, OnTheWay
  <2>5. Kept'
    BY <1>2, <1>4, <2>1, <2>4 DEF Kept
  <2>6. Linked'
    BY <2>2 DEF Linked
  <2>7. QED
    BY <1>4, <2>5, <2>6
<1>12. CASE Found(n)
  <2>1. /\ nxt' = Unlinked(n) /\ pc' = [pc EXCEPT ![t] = "respond"]
        /\ hand' = [hand EXCEPT ![t] = Hit(n)] /\ wild' = wild
    BY <1>1, <1>12 DEF RecvResponse
  <2>2. Hit(n) = b
    BY <1>6, <1>7, <1>12, FoundIs DEF Kept
  <2>3. /\ pc'[t] = "respond" /\ hand'[t] = b
        /\ \A u \in Threads \ {t} : pc'[u] = pc[u] /\ hand'[u] = hand[u]
    BY <2>1, <2>2 DEF TypeOK
  <2>4. InHand' = InHand \cup {b} /\ b \notin InHand
    BY <1>2, <2>3 DEF InHand, Table
  <2>5. Table' = Table \ {b}
    BY <1>2, <2>4 DEF Table
  <2>6. Kept'
    <3>1. \A u \in Threads : pc'[u] = "respond" =>
              hand'[u] \in live' /\ idOf'[hand'[u]] < nextId'
      BY <1>2, <1>5, <1>6, <1>7, <2>3 DEF Kept
    <3>2. ASSUME NEW u \in Threads, NEW v \in Threads, pc'[u] = "respond",
                 pc'[v] = "respond", hand'[u] = hand'[v]
          PROVE  u = v
      <4>1. \A w \in Threads \ {t} : pc[w] = "respond" => hand[w] # b
        BY <2>4 DEF InHand
      <4>2. QED
        BY <2>3, <3>2, <4>1 DEF Kept
    <3> HIDE DEF InHand, Table, OnTheWay
    <3>3. \A m \in OnTheWay' : m < nextId' /\ \E c \in Table' : idOf'[c] = m
      <4> SUFFICES ASSUME NEW m \in OnTheWay'
                   PROVE  m < nextId /\ \E c \in Table' : idOf[c] = m
        BY <1>2
      <4>1. m \in OnTheWay /\ m # n
        BY <1>4, <1>5
      <4>2. PICK c \in Table : idOf[c] = m
        BY <4>1 DEF Kept
      <4>3. c # b
        BY <1>7, <4>1, <4>2
      <4>4. QED
        BY <1>6, <2>5, <4>1, <4>2, <4>3
    <3>4. gui' = "send" => nextId' < MaxRequests /\ \E c \in Table' : idOf'[c] = nextId'
      <4> SUFFICES ASSUME gui = "send"
                   PROVE  nextId < MaxRequests /\ \E c \in Table' : idOf[c] = nextId
        BY <1>2
      <4>1. PICK c \in Table : idOf[c] = nextId
        BY DEF Kept
      <4>2. c # b
        BY <1>5, <1>6, <1>7, <4>1
      <4>3. QED
        BY <2>5, <4>1, <4>2 DEF Kept
    <3>5. QED
      BY <1>2, <3>1, <3>2, <3>3, <3>4 DEF Kept
  <2>7. Linked'
    <3> SUFFICES ASSUME ~overtaken' PROVE Linked'
      BY DEF Linked
    <3>1. /\ ~overtaken /\ ~wild /\ Older(b) = {}
          /\ Table # {} => NewestOf(req_obj_head, Table)
          /\ \A c \in Table : Older(c) # {} => NewestOf(nxt[c], Older(c))
      BY <1>9 DEF Linked
    <3>2. \A c \in Table : idOf[c] \in Nat /\ (c # b => idOf[b] < idOf[c])
      BY <1>6, <3>1 DEF Older, Kept
    <3>3. /\ \A c \in Blocks : nxt'[c] = nxt[c] \/ nxt[c] = b
      <4>1. nxt' = IF Min(Stops(n)) = 0 THEN nxt
                   ELSE [nxt EXCEPT ![Path[Min(Stops(n)) - 1]] = nxt[Path[Min(Stops(n))]]]
        BY <2>1 DEF Unlinked
      <4>2. Min(Stops(n)) # 0 => nxt[Path[Min(Stops(n)) - 1]] = b
        BY <1>12, <2>2, FoundIs
      <4> HIDE DEF Path, Stops
      <4>3. QED
        BY <4>1, <4>2 DEF TypeOK
    <3>4. \A c \in Table' : Older(c)' = Older(c) \ {b}
      BY <1>2, <2>5 DEF Older
    <3> HIDE DEF InHand, Table
    <3>5. Table' # {} => NewestOf(req_obj_head, Table')
      <4> SUFFICES ASSUME Table' # {} PROVE NewestOf(req_obj_head, Table')
        OBVIOUS
      <4>1. PICK d \in Table : d # b
        BY <2>5
      <4>2. NewestOf(req_obj_head, Table)
        BY <3>1, <4>1
      <4>3. req_obj_head # b
        BY <3>2, <4>1, <4>2 DEF NewestOf
      <4>4. QED
        BY <2>5, <4>2, <4>3 DEF NewestOf
    <3>6. ASSUME NEW c \in Table', Older(c)' # {} PROVE NewestOf(nxt'[c], Older(c)')
      <4>1. c \in Table /\ c \in Blocks
        BY <1>6, <2>5
      <4>2. PICK d \in Older(c) : d # b
        BY <3>4, <3>6
      <4>3. NewestOf(nxt[c], Older(c))
        BY <3>1, <4>1, <4>2
      <4>4. nxt[c] # b
        <5>1. idOf[d] <= idOf[nxt[c]] /\ d \in Table
          BY <4>2, <4>3 DEF NewestOf, Older
        <5>2. QED
          BY <3>2, <4>2, <5>1
      <4>5. nxt'[c] = nxt[c]
        BY <3>3, <4>1, <4>4
      <4>6. QED
        BY <3>4, <4>3, <4>4, <4>5 DEF NewestOf
    <3>7. QED
      BY <1>2, <2>1, <3>1, <3>5, <3>6 DEF Linked, NewestOf
  <2>8. QED
    BY <1>4, <2>6, <2>7
<1>13. QED
  BY <1>11, <1>12

\* A request that has been answered and freed had left the table before.
LEMMA RespondKeeps ==
  ASSUME TypeOK, Once, Kept, Linked, NEW t \in Threads, Respond(t)
  PROVE  Once' /\ Kept' /\ Linked'
<1>1. PICK b : b = hand[t]
  OBVIOUS
<1>2. /\ pc[t] = "respond" /\ pc' = [pc EXCEPT ![t] = "recv"]
      /\ hand' = [hand EXCEPT ![t] = 0] /\ live' = live \ {b}
      /\ idOf' = [idOf EXCEPT ![b] = NoId] /\ nxt' = [nxt EXCEPT ![b] = NULL]
      /\ UNCHANGED <<asked, net, gui, req_obj_head, nextId, overtaken, wild>>
  BY <1>1 DEF Respond
<1>3. /\ b \in live /\ b \in InHand
      /\ \A u \in Threads \ {t} : pc[u] = "respond" => hand[u] # b
  BY <1>1, <1>2 DEF Kept, InHand
<1>4. /\ pc'[t] = "recv"
      /\ \A u \in Threads \ {t} : pc'[u] = pc[u] /\ hand'[u] = hand[u]
  BY <1>2 DEF TypeOK
<1>5. InHand' = InHand \ {b}
  <2>1. \A c \in InHand' : c \in InHand /\ c # b
    BY <1>3, <1>4 DEF InHand
  <2>2. \A c \in InHand : c # b => c \in InHand'
    BY <1>1, <1>4 DEF InHand
  <2>3. b \notin InHand'
    BY <2>1
  <2>4. QED
    BY <2>1, <2>2, <2>3
<1>6. Table' = Table /\ b \notin Table /\ Table \subseteq live /\ live \subseteq Blocks
  BY <1>2, <1>3, <1>5, TableIs DEF Table
<1>7. \A c \in live \ {b} : idOf'[c] = idOf[c] /\ nxt'[c] = nxt[c]
  BY <1>2, <1>6 DEF TypeOK
<1>8. Once' /\ OnTheWay' = OnTheWay
  BY <1>2 DEF Once, OnTheWay, Asked, Answers
<1> HIDE DEF InHand, Table, OnTheWay
<1>9. Kept'
  <2>1. /\ \A n \in OnTheWay' : n < nextId' /\ \E c \in Table' : idOf'[c] = n
        /\ gui' = "send" => nextId' < MaxRequests /\ \E c \in Table' : idOf'[c] = nextId'
    BY <1>2, <1>6, <1>7, <1>8 DEF Kept
  <2>2. /\ \A c \in live' : /\ idOf'[c] \in Ids /\ idOf'[c] <= nextId'
                            /\ idOf'[c] = nextId' => gui' \in {"send", "exit"}
        /\ \A c, d \in live' : idOf'[c] = idOf'[d] => c = d
    BY <1>2, <1>7 DEF Kept
  <2>3. /\ \A u \in Threads : pc'[u] = "respond" =>
              hand'[u] \in live' /\ idOf'[hand'[u]] < nextId'
        /\ \A u, v \in Threads :
              pc'[u] = "respond" /\ pc'[v] = "respond" /\ hand'[u] = hand'[v] => u = v
    BY <1>2, <1>3, <1>4, <1>7 DEF Kept
  <2>4. QED
    BY <2>1, <2>2, <2>3 DEF Kept
<1>10. Linked'
  <2>1. \A c \in Table : idOf'[c] = idOf[c] /\ nxt'[c] = nxt[c]
    BY <1>6, <1>7
  <2>2. \A c \in Table : Older(c)' = Older(c) /\ Older(c) \subseteq Table
    BY <1>6, <2>1 DEF Older
  <2>3. QED
    BY <1>2, <1>6, <2>1, <2>2 DEF Linked, NewestOf
<1>11. QED
  BY <1>8, <1>9, <1>10

\* The first state has no requests.
LEMMA RequestsInit == Init => Once /\ Kept /\ Linked
<1> SUFFICES ASSUME Init PROVE Once /\ Kept /\ Linked
  OBVIOUS
<1>1. \A t \in Threads : net[t] = <<>> /\ asked[t] = <<>> /\ pc[t] = "recv"
  BY DEF Init
<1>2. \A t \in Threads : Asked(t) = {} /\ Answers(t) = {}
  BY <1>1 DEF Asked, Answers, Elements, Numbers
<1>3. "tcp" \in Threads /\ "kcp" \in Threads
  BY DEF Threads
<1>4. Once
  BY <1>1, <1>2, <1>3 DEF Once, Distinct, AnswersDistinct
<1>5. OnTheWay = {}
  BY <1>2 DEF OnTheWay
<1>6. live = {} /\ gui = "login" /\ Table = {} /\ ~wild
  BY DEF Init, Table
<1>7. Kept
  BY <1>1, <1>5, <1>6 DEF Kept
<1>8. Linked
  BY <1>6 DEF Linked
<1>9. QED
  BY <1>4, <1>7, <1>8

\* The steps of the receive threads and their requests.
LEMMA RequestsReceive ==
  ASSUME TypeOK, Once, Kept, Linked, NEW t \in Threads, Receive(t)
  PROVE  Once' /\ Kept' /\ Linked'
<1>1. CASE Drop(t) \/ RecvVideo(t)
  <2>1. Take(t) /\ UNCHANGED <<asked, reqVars, gui>>
    BY <1>1 DEF Drop, RecvVideo, Take
  <2>2. SameHands
    BY <1>1 DEF Drop, RecvVideo, Take, SameHands, TypeOK
  <2>3. SameTable /\ SameSending /\ wild' = wild
    BY <2>1 DEF SameTable, SameSending
  <2>4. QED
    BY <2>1, <2>2, <2>3, Taken, RequestsKept
<1>2. CASE Enqueue(t) \/ Publish(t) \/ Count(t)
  <2>1. UNCHANGED <<net, asked, reqVars, gui>>
    BY <1>2 DEF Enqueue, Publish, Count
  <2>2. SameHands
    BY <1>2 DEF Enqueue, Publish, Count, SameHands, TypeOK
  <2>3. SameTable /\ SameSending /\ wild' = wild
    BY <2>1 DEF SameTable, SameSending
  <2>4. QED
    BY <2>1, <2>2, <2>3, RequestsKeptNet
<1>3. QED
  BY <1>1, <1>2, RecvResponseKeeps, RespondKeeps DEF Receive

\* What the server sends.
LEMMA RequestsServer == TypeOK /\ Once /\ Kept /\ Linked /\ Server => Once' /\ Kept' /\ Linked'
<1> SUFFICES ASSUME TypeOK, Once, Kept, Linked, Server PROVE Once' /\ Kept' /\ Linked'
  OBVIOUS
<1>1. CASE Settle \/ Bind \/ Close
  <2>1. SameTable /\ SameHands /\ SameSending /\ UNCHANGED <<asked, net, wild>>
    BY <1>1 DEF Settle, Bind, Close, SameTable, SameHands, SameSending
  <2>2. QED
    BY <2>1, RequestsKeptNet
<1>2. CASE Stream
  <2>1. PICK n \in Nat : n = streamed + 1
    BY DEF TypeOK, Video
  <2>2. PICK r \in Threads : r = Route
    BY DEF Route, Threads
  <2> DEFINE e == [type |-> "video", n |-> n]
  <2>3. e \in Message /\ net' = [net EXCEPT ![r] = Append(@, e)]
    BY <1>2, <2>1, <2>2 DEF Stream, Message, Video, TypeOK
  <2>4. e.type = "video" /\ net[r] \in Seq(Message) /\ AnswersDistinct(net[r])
    BY DEF TypeOK, Once
  <2> HIDE DEF e
  <2>5. /\ Numbers(Append(net[r], e), "response") = Numbers(net[r], "response")
        /\ AnswersDistinct(Append(net[r], e))
    <3>1. e.type # "response"
      BY <2>4
    <3>2. Numbers(Append(net[r], e), "response")
              = Numbers(net[r], "response")
                    \cup (IF e.type = "response" THEN {e.n} ELSE {})
      BY <2>3, <2>4, SentMore
    <3>3. AnswersDistinct(Append(net[r], e))
      BY <2>3, <2>4, <3>1, SentMore
    <3>4. QED
      BY <3>1, <3>2, <3>3
  <2>6. net'[r] = Append(net[r], e) /\ \A u \in Threads \ {r} : net'[u] = net[u]
    BY <2>3 DEF TypeOK
  <2>7. \A u \in Threads : AnswersDistinct(net'[u]) /\ Answers(u)' \subseteq Answers(u)
    BY <2>5, <2>6 DEF Answers, Once
  <2>8. SameTable /\ SameHands /\ SameSending /\ UNCHANGED <<asked, wild>>
    BY <1>2 DEF Stream, SameTable, SameHands, SameSending
  <2>9. QED
    BY <2>7, <2>8, RequestsKept
<1>3. QED
  BY <1>1, <1>2, AnswerKeeps DEF Server

\* Every step keeps the table of requests.
LEMMA RequestsStep == ClientInv /\ [Next]_vars => Once' /\ Kept' /\ Linked'
<1> SUFFICES ASSUME ClientInv, [Next]_vars PROVE Once' /\ Kept' /\ Linked'
  OBVIOUS
<1>1. TypeOK /\ Once /\ Kept /\ Linked
  BY DEF ClientInv
<1>2. CASE Connect \/ BindCallback \/ InitCount \/ MapBuffers \/ Timer \/ RecvEof
           \/ UNCHANGED vars
  <2>1. SameTable /\ SameHands /\ UNCHANGED <<asked, net, wild>>
    BY <1>2 DEF Connect, BindCallback, InitCount, MapBuffers, Timer, DequeuePkt, Frame,
       FrameWithoutPkt, RecvEof, SameTable, SameHands
  <2>2. SameSending
    BY <1>2 DEF Connect, BindCallback, InitCount, MapBuffers, Timer, DequeuePkt, Frame,
       FrameWithoutPkt, RecvEof, SameSending
  <2>3. QED
    BY <1>1, <2>1, <2>2, RequestsKeptNet
<1>3. CASE Select
  <2>1. \A t \in Threads : AnswersDistinct(net'[t]) /\ Answers(t)' \subseteq Answers(t)
    <3>1. \A t \in Threads : net'[t] = net[t] \/ net'[t] = <<>>
      BY <1>1, <1>3 DEF Select, TypeOK
    <3>2. AnswersDistinct(<<>>) /\ Numbers(<<>>, "response") = {}
      BY DEF AnswersDistinct, Numbers
    <3>3. QED
      BY <1>1, <3>1, <3>2 DEF Answers, Once
  <2>2. SameTable /\ SameHands /\ SameSending /\ UNCHANGED <<asked, wild>>
    BY <1>3 DEF Select, SameTable, SameHands, SameSending
  <2>3. QED
    BY <1>1, <2>1, <2>2, RequestsKept
<1>4. QED
  BY <1>1, <1>2, <1>3, AddRequestKeeps, SendRequestKeeps, SendFailsKeeps,
     RequestsServer, RequestsReceive DEF Next, Setup, Requests

\* The invariant holds in every reachable state.
LEMMA ClientCorrect == Spec => []ClientInv
<1>1. Init => ClientInv
  BY TypeInit, RequestsInit DEF ClientInv, RingsInv
<1>2. ClientInv /\ [Next]_vars => ClientInv'
  BY TypeStep, RequestsStep DEF ClientInv, RingsInv
<1>3. QED
  BY <1>1, <1>2, PTL DEF Spec

\* Every variable keeps its type, the ring holds one packet more than it has
\* room for at most, and no more are counted than are in it (TypeOK).
THEOREM PyClientTypeCorrect == Spec => []TypeOK
<1>1. ClientInv => TypeOK
  BY DEF ClientInv
<1>2. QED
  BY <1>1, ClientCorrect, PTL

\* Only an open connection takes the GUI past the log-in.
LEMMA ConnectedStep ==
  (gui \notin {"login", "select"} => conn \in {"open", "eof"}) /\ [Next]_vars
      => (gui' \notin {"login", "select"} => conn' \in {"open", "eof"})
<1> SUFFICES ASSUME gui \notin {"login", "select"} => conn \in {"open", "eof"}, [Next]_vars
             PROVE  gui' \notin {"login", "select"} => conn' \in {"open", "eof"}
  OBVIOUS
<1>1. CASE Setup
  BY <1>1 DEF Setup, Connect, Select, BindCallback, InitCount, MapBuffers, Ready, Writable,
     Readable
<1>2. CASE Timer \/ Requests \/ UNCHANGED vars
  BY <1>2 DEF Timer, DequeuePkt, Frame, FrameWithoutPkt, Requests, AddRequest, SendRequest,
     SendFails
<1>3. CASE Server
  BY <1>3 DEF Server, Settle, Stream, Answer, Bind, Close
<1>4. CASE RecvEof
  BY <1>4 DEF RecvEof
<1>5. ASSUME NEW t \in Threads, Receive(t)
      PROVE  gui' \notin {"login", "select"} => conn' \in {"open", "eof"}
  BY <1>5 DEF Receive, Drop, RecvVideo, RecvResponse, Take, Enqueue, Publish, Count, Respond
<1>6. QED
  BY <1>1, <1>2, <1>3, <1>4, <1>5 DEF Next

\* A walk of the table of requests meets freed memory, or goes in a circle,
\* only after a request has left the table before an older one, and receive
\* threads run on an open socket only (FaultsExplained).
THEOREM TableGoesBadWhenOvertaken == Spec => []FaultsExplained
<1> DEFINE Connected == gui \notin {"login", "select"} => conn \in {"open", "eof"}
<1>1. Init => Connected
  BY DEF Init
<1>2. Connected /\ [Next]_vars => Connected'
  BY ConnectedStep
<1>3. ClientInv /\ Connected => FaultsExplained
  BY DEF ClientInv, Linked, FaultsExplained
<1> HIDE DEF Connected
<1>4. QED
  BY <1>1, <1>2, <1>3, ClientCorrect, PTL DEF Spec
-----------------------------------------------------------------------------
(* The order of the pictures.                                               *)

\* Decoding a packet newer than all pictures keeps them in order, unless it
\* moves the tail and gives no picture.
LEMMA PushInOrder ==
  ASSUME NEW d, DecoderTyped(d), InOrder(d), NEW n \in Video, NEW ok \in BOOLEAN,
         d.shown < n, \A b \in DOMAIN d.pic : d.pic[b] < n,
         ok \/ Full(d.q) \/ SkipTail(d.q) = d.q
  PROVE  InOrder(PushPkt(d, n, ok))
<1> DEFINE r == PushPkt(d, n, ok)
           t == IF d.q.tail % Last = 0 THEN d.q.tail + 1 ELSE d.q.tail
<1>1. /\ d.q.head \in Nat /\ d.q.tail \in Nat /\ d.q \in Ring /\ d.q.max_idx = Last
      /\ Last \in Nat /\ Last \in Nat \ {0} /\ Last >= 2 /\ Last = Buffers - 1
      /\ d.pic \in [0..(Buffers - 1) -> Video] /\ d.shown \in Video
  BY DEF DecoderTyped, Ring, Last
<1>2. /\ DecoderTyped(r) /\ r.shown = d.shown /\ r.q.head = d.q.head
      /\ r.q.tail = IF d.q.head + Last <= d.q.tail THEN d.q.tail
                    ELSE IF ok THEN t + 1 ELSE t
      /\ r.pic = IF ok /\ d.q.head + Last > d.q.tail
                 THEN [d.pic EXCEPT ![t % Last] = n] ELSE d.pic
      /\ t % Last \in 1..(Last - 1)
  BY Pushed DEF Last
<1>3. Full(d.q) <=> d.q.head + Last <= d.q.tail
  BY <1>1 DEF Full
<1>4. NextUsed(d.q, d.q.tail) = t
  BY <1>1, Slots DEF Last
<1> HIDE DEF r
<1>5. CASE Full(d.q) \/ ~ok
  <2>1. r.q.tail = d.q.tail /\ r.pic = d.pic
    <3>1. CASE Full(d.q)
      BY <1>1, <1>2, <1>3, <3>1
    <3>2. CASE ~Full(d.q)
      <4>1. SkipTail(d.q) = d.q /\ ~ok
        BY <1>5, <3>2
      <4>2. SkipTail(d.q).tail = t
        BY <1>1, <1>4 DEF SkipTail, Ring
      <4>3. t = d.q.tail
        BY <4>1, <4>2
      <4> HIDE DEF t
      <4>4. QED
        BY <1>1, <1>2, <4>1, <4>3
    <3>3. QED
      BY <3>1, <3>2
  <2>2. Unshown(r) = Unshown(d) /\ \A i : Picture(r, i) = Picture(d, i)
    BY <1>2, <2>1 DEF Unshown, Picture
  <2>3. QED
    BY <1>2, <2>1, <2>2 DEF InOrder, r
<1>6. CASE ~Full(d.q) /\ ok
  <2>1. r.q.tail = t + 1 /\ r.pic = [d.pic EXCEPT ![t % Last] = n]
    BY <1>1, <1>2, <1>3, <1>6
  <2>2. d.q.tail < d.q.head + Last /\ d.q.head <= d.q.tail
    BY <1>1, <1>3, <1>6 DEF InOrder
  <2>3. d.q.tail <= t /\ t < d.q.head + Last
    <3>1. CASE d.q.tail % Last = 0 /\ d.q.tail + 1 = d.q.head + Last
      <4>1. (d.q.tail + 1) % Last = 1
        <5>1. (d.q.tail + 1) % Last
                  = IF d.q.tail % Last = Last - 1 THEN 0 ELSE (d.q.tail % Last) + 1
          BY <1>1, NextSlot
        <5>2. QED
          BY <1>1, <3>1, <5>1
      <4>2. (d.q.head + Last) % Last = d.q.head % Last
        BY <1>1, NextTurn
      <4>3. QED
        BY <3>1, <4>1, <4>2 DEF InOrder
    <3>2. CASE d.q.tail % Last # 0
      BY <1>1, <2>2, <3>2
    <3>3. CASE d.q.tail % Last = 0 /\ d.q.tail + 1 # d.q.head + Last
      BY <1>1, <2>2, <3>3
    <3>4. QED
      BY <3>1, <3>2, <3>3
  <2>4. t \in Nat
    BY <1>1
  <2>5. (t + 1) % Last # 1
    <3>1. (t + 1) % Last = IF t % Last = Last - 1 THEN 0 ELSE (t % Last) + 1
      BY <1>1, <2>4, NextSlot
    <3>2. QED
      BY <1>1, <1>2, <3>1
  <2>6. Unshown(r) = Unshown(d) \cup {t}
    <3>1. ASSUME NEW i \in Nat, i % Last # 0, i <= t, i >= d.q.tail PROVE i = t
      <4>1. CASE d.q.tail % Last = 0
        <5>1. i # d.q.tail /\ t = d.q.tail + 1
          BY <3>1, <4>1
        <5>2. d.q.tail \in Nat
          BY <1>1
        <5> HIDE DEF t
        <5>3. QED
          BY <3>1, <5>1, <5>2
      <4>2. CASE d.q.tail % Last # 0
        <5>1. t = d.q.tail
          BY <4>2
        <5>2. d.q.tail \in Nat
          BY <1>1
        <5> HIDE DEF t
        <5>3. QED
          BY <3>1, <5>1, <5>2
      <4>3. QED
        BY <4>1, <4>2
    <3>2. t % Last # 0
      BY <1>1, <1>2
    <3> HIDE DEF t
    <3>3. QED
      BY <1>1, <1>2, <2>1, <2>2, <2>3, <2>4, <3>1, <3>2 DEF Unshown
  <2> HIDE DEF t
  <2>7. ASSUME NEW i \in Unshown(d)
        PROVE  /\ i < t /\ i \in Nat /\ Picture(r, i) = Picture(d, i)
               /\ Picture(d, i) < n
    <3>1. i \in Nat /\ d.q.head <= i /\ i < d.q.tail
      BY <1>1 DEF Unshown
    <3>2. i < t /\ i + Last > t
      BY <1>1, <2>3, <2>4, <3>1
    <3>3. ASSUME i % Last = t % Last PROVE FALSE
      <4>1. i <= t /\ t <= i + Last
        BY <1>1, <2>4, <3>1, <3>2
      <4>2. i = t \/ t = i + Last
        BY <1>1, <2>4, <3>1, <3>3, <4>1, SameSlot
      <4>3. QED
        BY <1>1, <2>4, <3>1, <3>2, <4>2
    <3>4. i % Last \in 0..(Last - 1)
      BY <1>1, <3>1, Division
    <3>5. i % Last \in DOMAIN d.pic
      BY <1>1, <3>4
    <3>6. r.pic[i % Last] = d.pic[i % Last]
      BY <2>1, <3>3, <3>5
    <3>7. QED
      BY <3>1, <3>2, <3>5, <3>6 DEF Picture
  <2>8. Picture(r, t) = n
    BY <1>1, <1>2, <2>1 DEF Picture
  <2>9. ASSUME NEW i \in Unshown(r), NEW j \in Unshown(r), i < j
        PROVE  Picture(r, i) < Picture(r, j)
    <3>1. CASE i \in Unshown(d) /\ j \in Unshown(d)
      BY <2>7, <2>9, <3>1 DEF InOrder
    <3>2. CASE i \in Unshown(d) /\ j = t
      BY <2>7, <2>8, <3>2
    <3>3. CASE i = t
      BY <2>4, <2>6, <2>7, <2>9, <3>3
    <3>4. QED
      BY <2>6, <3>1, <3>2, <3>3
  <2>10. \A i \in Unshown(r) : r.shown < Picture(r, i)
    BY <1>2, <2>6, <2>7, <2>8 DEF InOrder
  <2>11. r.q.head <= r.q.tail /\ r.q.tail <= r.q.head + Last
    BY <1>1, <1>2, <2>1, <2>2, <2>3, <2>4
  <2>12. QED
    BY <1>2, <2>1, <2>5, <2>9, <2>10, <2>11 DEF InOrder, r
<1>7. QED
  BY <1>5, <1>6

\* Showing a picture keeps the others in order, and it is a later one.
LEMMA ShowInOrder ==
  ASSUME NEW d, DecoderTyped(d), InOrder(d)
  PROVE  InOrder(ShowFrame(d))
         /\ (ShowFrame(d).shown = d.shown \/ ShowFrame(d).shown > d.shown)
<1> DEFINE r == ShowFrame(d)
           h == IF d.q.head % Last = 0 THEN d.q.head + 1 ELSE d.q.head
<1>1. /\ d.q.head \in Nat /\ d.q.tail \in Nat /\ d.q \in Ring /\ d.q.max_idx = Last
      /\ Last \in Nat /\ Last \in Nat \ {0} /\ Last >= 2 /\ Last = Buffers - 1
      /\ d.pic \in [0..(Buffers - 1) -> Video] /\ d.shown \in Video
  BY DEF DecoderTyped, Ring, Last
<1>2. /\ DecoderTyped(r) /\ r.pic = d.pic /\ r.q.tail = d.q.tail
      /\ r.q.head = IF d.q.head >= d.q.tail THEN d.q.head ELSE h + 1
      /\ r.shown = IF d.q.head >= d.q.tail THEN d.shown ELSE d.pic[h % Last]
      /\ h % Last \in 1..(Last - 1)
  BY Shown DEF Last
<1>3. h \in Nat /\ h >= d.q.head /\ h <= d.q.head + 1
  BY <1>1
<1> HIDE DEF r
<1>4. CASE d.q.head >= d.q.tail
  <2>1. r.q.head = d.q.head /\ r.shown = d.shown
    BY <1>2, <1>4
  <2>2. Unshown(r) = Unshown(d) /\ \A i : Picture(r, i) = Picture(d, i)
    BY <1>2, <2>1 DEF Unshown, Picture
  <2>3. QED
    BY <1>2, <2>1, <2>2 DEF InOrder, r
<1>5. CASE ~(d.q.head >= d.q.tail)
  <2>1. r.q.head = h + 1 /\ r.shown = d.pic[h % Last] /\ d.q.head < d.q.tail
    BY <1>1, <1>2, <1>5
  <2>2. h < d.q.tail
    <3>1. CASE d.q.head % Last = 0 /\ d.q.tail = d.q.head + 1
      <4>1. d.q.tail % Last = 1
        <5>1. (d.q.head + 1) % Last
                  = IF d.q.head % Last = Last - 1 THEN 0 ELSE (d.q.head % Last) + 1
          BY <1>1, NextSlot
        <5>2. QED
          BY <1>1, <3>1, <5>1
      <4>2. QED
        BY <4>1 DEF InOrder
    <3>2. CASE d.q.head % Last # 0 \/ d.q.tail # d.q.head + 1
      BY <1>1, <2>1, <3>2
    <3>3. QED
      BY <3>1, <3>2
  <2>3. (h + 1) % Last # 1
    <3>1. (h + 1) % Last = IF h % Last = Last - 1 THEN 0 ELSE (h % Last) + 1
      BY <1>1, <1>3, NextSlot
    <3>2. QED
      BY <1>1, <1>2, <3>1
  <2> HIDE DEF h
  <2>4. h \in Unshown(d) /\ Picture(d, h) = r.shown
    BY <1>1, <1>2, <1>3, <2>1, <2>2 DEF Unshown, Picture
  <2>5. ASSUME NEW i \in Unshown(r)
        PROVE  i \in Unshown(d) /\ h < i /\ Picture(r, i) = Picture(d, i)
    <3>1. i \in (h + 1)..(d.q.tail - 1) /\ i % Last # 0
      BY <1>2, <2>1 DEF Unshown
    <3>2. i \in Int /\ h + 1 <= i /\ i <= d.q.tail - 1
      BY <1>1, <1>3, <3>1
    <3>3. h < i /\ i \in d.q.head..(d.q.tail - 1)
      BY <1>1, <1>3, <3>2
    <3>4. QED
      BY <1>2, <3>1, <3>3 DEF Unshown, Picture
  <2>6. \A i, j \in Unshown(r) : i < j => Picture(r, i) < Picture(r, j)
    BY <2>5 DEF InOrder
  <2>7. \A i \in Unshown(r) : r.shown < Picture(r, i)
    BY <2>4, <2>5 DEF InOrder
  <2>8. r.q.head <= r.q.tail /\ r.q.tail <= r.q.head + Last
    <3>1. d.q.tail <= d.q.head + Last
      BY DEF InOrder
    <3>2. r.q.tail = d.q.tail /\ r.q.head = h + 1
      BY <1>2, <2>1
    <3>3. QED
      BY <1>1, <1>3, <2>2, <3>1, <3>2
  <2>9. r.q.head % Last # 1 /\ r.q.tail % Last # 1
    BY <1>2, <2>1, <2>3 DEF InOrder
  <2>10. InOrder(r)
    BY <2>6, <2>7, <2>8, <2>9 DEF InOrder
  <2>11. r.shown > d.shown
    <3>1. d.shown < Picture(d, h)
      BY <2>4 DEF InOrder
    <3>2. Picture(d, h) \in Video
      BY <1>1, <1>2 DEF Picture
    <3>3. QED
      BY <1>1, <2>4, <3>1, <3>2 DEF Video
  <2>12. QED
    BY <2>10, <2>11 DEF r
<1>6. QED
  BY <1>4, <1>5

-----------------------------------------------------------------------------
(* The order of the packets.                                                *)

\* Steps that bring no packet, and leave the packets of the threads, the ring
\* and the pictures alone.
FewerComing == \A t \in Threads : Rising(net'[t]) /\ Packets(t)' \subseteq Packets(t)
FewerHeld ==
    \A t \in Threads : /\ Holds(t)' => Holds(t) /\ hand'[t] = hand[t]
                       /\ Uncounted(t)' => Uncounted(t)
FewerCopied ==
    \A t \in Threads : pc'[t] = "copied" => pc[t] = "copied" /\ hand'[t] = hand[t]
SameRing == UNCHANGED <<slots, buffer_head, buffer_tail>>
SamePictures == UNCHANGED <<pic, shown>>
NoOlder(S, T) == \A n \in T : n \in S \/ (n \in Nat /\ n > streamed)

\* What such steps leave as it was.
LEMMA InTurnKept ==
  ASSUME InTurn, FewerComing, FewerHeld, streamed' = streamed, bound => bound'
  PROVE  InTurn' /\ Coming' \subseteq Coming /\ InHands' \subseteq InHands
<1>1. Coming' \subseteq Coming
  <2> SUFFICES ASSUME NEW n \in Coming' PROVE n \in Coming
    OBVIOUS
  <2>1. PICK t \in Threads : n \in Packets(t)'
    BY DEF Coming
  <2>2. n \in Packets(t)
    BY <2>1 DEF FewerComing
  <2>3. QED
    BY <2>2 DEF Coming
<1>2. InHands' \subseteq InHands
  BY DEF InHands, FewerHeld
<1>3. "tcp" \in Threads /\ "kcp" \in Threads
  BY DEF Threads
<1>4. Below(Packets("tcp"), Packets("kcp"))'
  <2>1. Packets("tcp")' \subseteq Packets("tcp") /\ Packets("kcp")' \subseteq Packets("kcp")
    BY <1>3 DEF FewerComing
  <2>2. QED
    BY <2>1 DEF InTurn, Below
<1>5. \A n \in Coming' \cup InHands' : n \in 1..streamed'
  BY <1>1, <1>2 DEF InTurn
<1>6. Below(InHands, Coming)'
  BY <1>1, <1>2 DEF InTurn, Below
<1>7. Uncounted("kcp")' => Packets("tcp")' = {} /\ ~Holds("tcp")'
  BY <1>3 DEF InTurn, FewerComing, FewerHeld, Uncounted
<1>8. Packets("kcp")' # {} \/ Uncounted("kcp")' => bound'
  BY <1>3 DEF InTurn, FewerComing, FewerHeld
<1>9. QED
  BY <1>1, <1>2, <1>4, <1>5, <1>6, <1>7, <1>8 DEF InTurn, FewerComing, Uncounted

\* The ring stays as it is.
LEMMA QueuedKept ==
  ASSUME TypeOK, Queued, SameRing, FewerCopied, streamed' \in Nat, streamed <= streamed',
         NoOlder(Coming \cup InHands, (Coming \cup InHands)')
  PROVE  Queued' /\ InRing' = InRing
<1>1. InRing' = InRing /\ Inside' = Inside /\ \A i : At(i)' = At(i)
  BY DEF SameRing, InRing, Inside, At
<1>2. streamed \in Nat
  BY DEF TypeOK, Video
<1>3. Below(InRing, Coming \cup InHands)'
  <2> SUFFICES ASSUME NEW m \in InRing', NEW n \in (Coming \cup InHands)' PROVE m < n
    BY DEF Below
  <2>1. m \in InRing /\ m \in 1..streamed
    BY <1>1 DEF Queued
  <2>2. n \in Coming \cup InHands \/ (n \in Nat /\ n > streamed)
    BY DEF NoOlder
  <2>3. QED
    BY <1>2, <2>1, <2>2 DEF Queued, Below
<1>4. \A n \in InRing' : n \in 1..streamed'
  BY <1>1, <1>2 DEF Queued
<1>5. \A t \in Threads : pc'[t] = "copied" =>
          At(buffer_head)' = hand'[t] /\ buffer_head' - buffer_tail' < RingSize
  BY DEF FewerCopied, Queued, SameRing, At
<1>6. \A i, j \in Inside' : i < j => At(i)' < At(j)'
  BY <1>1 DEF Queued
<1>7. QED
  BY <1>1, <1>3, <1>4, <1>5, <1>6 DEF Queued, SameRing

\* What has been decoded stays older than what has not.
LEMMA AheadKept ==
  ASSUME TypeOK, Ahead, SamePictures, gui' = "put" => gui = "put" /\ recv_pkt' = recv_pkt,
         streamed' \in Nat, streamed <= streamed', NoOlder(Rest, Rest')
  PROVE  Ahead'
<1>1. Seen' = Seen
  BY DEF SamePictures, Seen
<1>2. streamed \in Nat /\ Seen \subseteq Video /\ Video \subseteq Nat
  BY DEF TypeOK, Video, Seen
<1>3. Below(Seen, Rest)'
  <2> SUFFICES ASSUME NEW m \in Seen', NEW n \in Rest' PROVE m < n
    BY DEF Below
  <2>1. m \in Seen /\ m \in Nat /\ m <= streamed
    BY <1>1, <1>2 DEF Ahead
  <2>2. n \in Rest \/ (n \in Nat /\ n > streamed)
    BY DEF NoOlder
  <2>3. QED
    BY <1>2, <2>1, <2>2 DEF Ahead, Below
<1>4. \A n \in Seen' : n <= streamed'
  BY <1>1, <1>2 DEF Ahead
<1>5. ASSUME gui' = "put"
      PROVE  /\ Below(Seen, {recv_pkt})' /\ Below({recv_pkt}, Rest)'
             /\ recv_pkt' \in 1..streamed'
  <2>1. /\ gui = "put" /\ recv_pkt' = recv_pkt /\ recv_pkt \in 1..streamed
        /\ Below(Seen, {recv_pkt}) /\ Below({recv_pkt}, Rest)
    BY <1>5 DEF Ahead
  <2>2. ASSUME NEW n \in Rest' PROVE recv_pkt' < n
    <3>1. n \in Rest \/ (n \in Nat /\ n > streamed)
      BY DEF NoOlder
    <3>2. QED
      BY <1>2, <2>1, <3>1 DEF Below
  <2>3. recv_pkt' \in 1..streamed'
    BY <1>2, <2>1
  <2>4. Below(Seen, {recv_pkt})'
    BY <1>1, <2>1 DEF Below
  <2>5. QED
    BY <2>2, <2>3, <2>4 DEF Below
<1>6. QED
  BY <1>3, <1>4, <1>5 DEF Ahead

\* All of it, for the steps that do nothing else.
LEMMA OrderKept ==
  ASSUME TypeOK, OrderParts, FewerComing, FewerHeld, FewerCopied, SameRing, SamePictures,
         UNCHANGED <<streamed, buf_q, vain>>, bound => bound',
         gui' = "put" => gui = "put" /\ recv_pkt' = recv_pkt
  PROVE  OrderParts'
<1>1. InTurn' /\ Coming' \subseteq Coming /\ InHands' \subseteq InHands
  BY InTurnKept DEF OrderParts
<1>2. streamed' \in Nat /\ streamed <= streamed'
  BY DEF TypeOK, Video
<1>3. Queued' /\ InRing' = InRing
  <2>1. NoOlder(Coming \cup InHands, (Coming \cup InHands)')
    BY <1>1 DEF NoOlder
  <2>2. QED
    BY <1>2, <2>1, QueuedKept DEF OrderParts
<1>4. Ahead'
  <2>1. NoOlder(Rest, Rest')
    <3>1. Rest' \subseteq Rest
      BY <1>1, <1>3 DEF Rest
    <3>2. QED
      BY <3>1 DEF NoOlder
  <2>2. QED
    BY <1>2, <2>1, AheadKept DEF OrderParts
<1>5. Decoded'
  <2>1. Decoder' = Decoder /\ Mapped' = Mapped /\ vain' = vain
    BY DEF Decoder, Mapped, SamePictures
  <2>2. QED
    BY <2>1 DEF OrderParts, Decoded
<1>6. QED
  BY <1>1, <1>3, <1>4, <1>5 DEF OrderParts

\* One thread at most has a packet in hand.
LEMMA OneHolds ==
  ASSUME InTurn, NEW t \in Threads, NEW u \in Threads, Holds(t), Holds(u)
  PROVE  t = u
BY DEF InTurn, Holds, Uncounted, Threads

\* The server streams a packet newer than all the others.
LEMMA StreamInOrder == ASSUME TypeOK, OrderParts, Stream PROVE OrderParts'
<1>1. PICK n \in Nat : n = streamed + 1
  BY DEF TypeOK, Video
<1>2. PICK r \in Threads : r = Route
  BY DEF Route, Threads
<1> DEFINE e == [type |-> "video", n |-> n]
<1>3. e \in Message /\ net' = [net EXCEPT ![r] = Append(@, e)] /\ streamed' = n
  BY <1>1, <1>2 DEF Stream, Message, Video, TypeOK
<1>4. /\ e.type = "video" /\ e.n = n /\ net[r] \in Seq(Message) /\ Rising(net[r])
      /\ streamed \in Nat
  BY DEF TypeOK, OrderParts, InTurn, Video
<1> HIDE DEF e
<1>5. \A m \in Coming \cup InHands : m \in Nat /\ m < n
  BY <1>1, <1>4 DEF OrderParts, InTurn
<1>6. Packets(r) \subseteq Coming
  BY DEF Coming
<1>7. net'[r] = Append(net[r], e) /\ \A u \in Threads \ {r} : net'[u] = net[u]
  BY <1>3 DEF TypeOK
<1>8. Numbers(net'[r], "video") = Packets(r) \cup {n} /\ Rising(net'[r])
  <2>1. Numbers(Append(net[r], e), "video")
            = Numbers(net[r], "video") \cup (IF e.type = "video" THEN {e.n} ELSE {})
    <3>1. net[r] \in Seq(Message) /\ e \in Message
      BY <1>3, <1>4
    <3>2. QED
      BY <3>1, SentMore
  <2>2. Below(Numbers(net[r], "video"), {e.n})
    BY <1>4, <1>5, <1>6 DEF Below, Packets
  <2>3. Rising(Append(net[r], e))
    BY <1>3, <1>4, <2>2, SentMore
  <2>4. QED
    BY <1>4, <1>7, <2>1, <2>3 DEF Packets
<1>9. \A u \in Threads \ {r} : Packets(u)' = Packets(u) /\ Rising(net'[u])
  BY <1>7 DEF Packets, OrderParts, InTurn
<1>10. Packets(r)' = Packets(r) \cup {n}
  BY <1>8 DEF Packets
<1>11. Coming' = Coming \cup {n}
  <2>1. \A u \in Threads : Packets(u)' \subseteq Packets(u) \cup {n}
    BY <1>9, <1>10
  <2>2. \A u \in Threads : Packets(u) \subseteq Packets(u)'
    BY <1>9, <1>10
  <2>3. n \in Packets(r)'
    BY <1>10
  <2>4. QED
    BY <2>1, <2>2, <2>3 DEF Coming
<1>12. /\ UNCHANGED <<pc, hand, bound, gui, recv_pkt, buf_q, pic, shown, vain>>
       /\ UNCHANGED <<slots, buffer_head, buffer_tail>>
  BY DEF Stream, netVars, connVars, ringVars, decVars
<1>13. InHands' = InHands /\ \A u \in Threads : Holds(u)' = Holds(u)
  BY <1>12 DEF InHands, Holds
<1>14. InTurn'
  <2>1. \A u \in Threads : Rising(net'[u])
    BY <1>8, <1>9
  <2>2. Below(Packets("tcp"), Packets("kcp"))'
    <3>1. CASE r = "kcp"
      <4>1. Packets("tcp")' = Packets("tcp") /\ Packets("tcp") \subseteq Coming
        BY <1>9, <3>1 DEF Threads, Coming
      <4>2. Packets("kcp")' = Packets("kcp") \cup {n}
        BY <1>10, <3>1
      <4>3. QED
        BY <1>5, <4>1, <4>2 DEF Below, OrderParts, InTurn
    <3>2. CASE r = "tcp"
      <4>1. Packets("kcp")' = {}
        BY <1>2, <1>9, <3>2 DEF Route, Threads, OrderParts, InTurn
      <4>2. QED
        BY <4>1 DEF Below
    <3>3. QED
      BY <3>1, <3>2 DEF Threads
  <2>3. \A m \in Coming' \cup InHands' : m \in 1..streamed'
    BY <1>1, <1>3, <1>4, <1>11, <1>13 DEF OrderParts, InTurn
  <2>4. Below(InHands, Coming)'
    BY <1>5, <1>11, <1>13 DEF Below, OrderParts, InTurn
  <2>5. ASSUME Uncounted("kcp")'
        PROVE  Packets("tcp")' = {} /\ ~Holds("tcp")'
    <3>1. Packets("tcp") = {} /\ ~Holds("tcp") /\ pc' = pc
      BY <1>12, <2>5 DEF OrderParts, InTurn, Uncounted
    <3>2. r = "kcp"
      <4>1. CASE bound
        BY <1>2, <4>1 DEF Route
      <4>2. CASE ~bound
        BY <1>12, <2>5, <4>2 DEF OrderParts, InTurn, Uncounted
      <4>3. QED
        BY <4>1, <4>2
    <3>3. QED
      BY <1>9, <1>13, <3>1, <3>2 DEF Threads
  <2>6. Packets("kcp")' # {} \/ Uncounted("kcp")' => bound'
    BY <1>2, <1>9, <1>12 DEF Route, OrderParts, InTurn, Threads, Uncounted
  <2>7. QED
    BY <2>1, <2>2, <2>3, <2>4, <2>5, <2>6 DEF InTurn
<1>15. /\ NoOlder(Coming \cup InHands, (Coming \cup InHands)')
       /\ streamed' \in Nat /\ streamed <= streamed'
  BY <1>1, <1>3, <1>4, <1>11, <1>13 DEF NoOlder
<1>16. Queued' /\ InRing' = InRing
  <2>1. SameRing /\ FewerCopied
    BY <1>12 DEF SameRing, FewerCopied
  <2>2. QED
    BY <1>15, <2>1, QueuedKept DEF OrderParts
<1>17. Ahead'
  <2>1. Rest' \subseteq Rest \cup {n}
    BY <1>11, <1>13, <1>16 DEF Rest
  <2>2. NoOlder(Rest, Rest')
    BY <1>1, <1>4, <2>1 DEF NoOlder
  <2>3. SamePictures
    BY <1>12 DEF SamePictures
  <2>4. QED
    BY <1>12, <1>15, <2>2, <2>3, AheadKept DEF OrderParts
<1>18. Decoded'
  BY <1>12 DEF OrderParts, Decoded, Decoder, Mapped
<1>19. QED
  BY <1>14, <1>16, <1>17, <1>18 DEF OrderParts

\* What a thread takes off the network is no longer coming.
LEMMA TakenOff ==
  ASSUME TypeOK, InTurn, NEW t \in Threads, Take(t)
  PROVE  /\ FewerComing /\ \A u \in Threads \ {t} : Packets(u)' = Packets(u)
         /\ Head(net[t]).type = "video" =>
                /\ Packets(t) = Packets(t)' \cup {Head(net[t]).n}
                /\ Below({Head(net[t]).n}, Packets(t)')
<1>1. net[t] \in Seq(Message) /\ net[t] # <<>> /\ Rising(net[t])
  BY DEF Take, TypeOK, InTurn
<1>2. net'[t] = Tail(net[t]) /\ \A u \in Threads \ {t} : net'[u] = net[u]
  BY DEF Take, TypeOK
<1>3. /\ Numbers(net[t], "video") =
             Numbers(Tail(net[t]), "video") \cup
                 (IF Head(net[t]).type = "video" THEN {Head(net[t]).n} ELSE {})
      /\ Rising(Tail(net[t]))
      /\ Head(net[t]).type = "video"
             => Below({Head(net[t]).n}, Numbers(Tail(net[t]), "video"))
  BY <1>1, SentLess
<1>4. \A u \in Threads \ {t} : Packets(u)' = Packets(u) /\ Rising(net'[u])
  BY <1>2 DEF Packets, InTurn
<1>5. Packets(t)' \subseteq Packets(t) /\ Rising(net'[t])
  BY <1>2, <1>3 DEF Packets
<1>6. QED
  BY <1>2, <1>3, <1>4, <1>5 DEF Packets, FewerComing

\* A packet in hand is the oldest of those that come.
LEMMA RecvVideoInOrder ==
  ASSUME TypeOK, OrderParts, NEW t \in Threads, RecvVideo(t), ~mixed'
  PROVE  OrderParts'
<1> DEFINE n == Head(net[t]).n
<1>1. /\ Take(t) /\ pc[t] = "recv" /\ pc' = [pc EXCEPT ![t] = "enqueue"]
      /\ hand' = [hand EXCEPT ![t] = n] /\ Head(net[t]).type = "video"
      /\ t = "kcp" => ~VideoUnderWay("tcp")
      /\ UNCHANGED <<streamed, bound, gui, recv_pkt, buf_q, pic, shown, vain>>
      /\ UNCHANGED <<slots, buffer_head, buffer_tail>>
  BY DEF RecvVideo, Take, srvVars, decVars
<1>2. /\ FewerComing /\ \A u \in Threads \ {t} : Packets(u)' = Packets(u)
      /\ Packets(t) = Packets(t)' \cup {n} /\ Below({n}, Packets(t)')
  BY <1>1, TakenOff DEF OrderParts
<1> HIDE DEF n
<1>3. /\ pc'[t] = "enqueue" /\ hand'[t] = n
      /\ \A u \in Threads \ {t} : pc'[u] = pc[u] /\ hand'[u] = hand[u]
  BY <1>1 DEF TypeOK
<1>4. InHands' \subseteq InHands \cup {n}
  BY <1>3 DEF InHands, Holds
<1>5. Coming' \subseteq Coming /\ n \in Coming
  <2>1. \A u \in Threads : Packets(u)' \subseteq Packets(u)
    BY <1>2 DEF FewerComing
  <2>2. n \in Packets(t)
    BY <1>2
  <2>3. QED
    BY <2>1, <2>2 DEF Coming
<1>6. t = "kcp" => Packets("tcp") = {} /\ ~Holds("tcp")
  BY <1>1 DEF VideoUnderWay, Packets, Numbers, Holds
<1>7. t = "tcp" => ~Uncounted("kcp")
  BY <1>2 DEF OrderParts, InTurn
<1>8. InTurn'
  <2>1. \A u \in Threads : Rising(net'[u])
    BY <1>2 DEF FewerComing
  <2>2. Below(Packets("tcp"), Packets("kcp"))'
    <3>1. Packets("tcp")' \subseteq Packets("tcp") /\ Packets("kcp")' \subseteq Packets("kcp")
      BY <1>2 DEF FewerComing, Threads
    <3>2. QED
      BY <3>1 DEF Below, OrderParts, InTurn
  <2>3. \A m \in Coming' \cup InHands' : m \in 1..streamed'
    BY <1>1, <1>4, <1>5 DEF OrderParts, InTurn
  <2>4. Below({n}, Coming')
    <3>1. ASSUME NEW u \in Threads, NEW m \in Packets(u)' PROVE n < m
      <4>1. CASE u = t
        BY <1>2, <3>1, <4>1 DEF Below
      <4>2. CASE u = "tcp" /\ t = "kcp"
        BY <1>2, <1>6, <3>1, <4>2
      <4>3. CASE u = "kcp" /\ t = "tcp"
        BY <1>2, <3>1, <4>3 DEF Below, OrderParts, InTurn
      <4>4. QED
        BY <4>1, <4>2, <4>3 DEF Threads
    <3>2. ASSUME NEW m \in Coming' PROVE n < m
      <4>1. PICK u \in Threads : m \in Packets(u)'
        BY <3>2 DEF Coming
      <4>2. QED
        BY <3>1, <4>1
    <3>3. QED
      BY <3>2 DEF Below
  <2>5. Below(InHands, Coming)'
    BY <1>4, <1>5, <2>4 DEF Below, OrderParts, InTurn
  <2>6. Uncounted("kcp")' => Packets("tcp")' = {} /\ ~Holds("tcp")'
    <3>1. CASE t = "kcp"
      BY <1>2, <1>3, <1>6, <3>1 DEF Holds, Threads
    <3>2. CASE t = "tcp"
      BY <1>3, <1>7, <3>2 DEF Uncounted, Threads
    <3>3. QED
      BY <3>1, <3>2 DEF Threads
  <2>7. Packets("kcp")' # {} \/ Uncounted("kcp")' => bound'
    <3>1. CASE t = "kcp"
      BY <1>1, <1>2, <3>1 DEF OrderParts, InTurn
    <3>2. CASE t = "tcp"
      BY <1>1, <1>2, <1>3, <3>2 DEF OrderParts, InTurn, Uncounted, Threads
    <3>3. QED
      BY <3>1, <3>2 DEF Threads
  <2>8. QED
    BY <2>1, <2>2, <2>3, <2>5, <2>6, <2>7 DEF InTurn
<1>9. /\ NoOlder(Coming \cup InHands, (Coming \cup InHands)')
      /\ streamed' \in Nat /\ streamed <= streamed'
  BY <1>1, <1>4, <1>5 DEF NoOlder, TypeOK, Video
<1>10. Queued' /\ InRing' = InRing
  <2>1. SameRing /\ FewerCopied
    BY <1>1, <1>3 DEF SameRing, FewerCopied
  <2>2. QED
    BY <1>9, <2>1, QueuedKept DEF OrderParts
<1>11. Ahead'
  <2>1. Rest' \subseteq Rest
    BY <1>4, <1>5, <1>10 DEF Rest
  <2>2. NoOlder(Rest, Rest')
    BY <2>1 DEF NoOlder
  <2>3. SamePictures
    BY <1>1 DEF SamePictures
  <2>4. QED
    BY <1>1, <1>9, <2>2, <2>3, AheadKept DEF OrderParts
<1>12. Decoded'
  BY <1>1 DEF OrderParts, Decoded, Decoder, Mapped
<1>13. QED
  BY <1>8, <1>10, <1>11, <1>12 DEF OrderParts

\* A packet is copied to a slot that none in the ring has.
LEMMA EnqueueInOrder ==
  ASSUME TypeOK, OrderParts, NEW t \in Threads, Enqueue(t)
  PROVE  OrderParts'
<1>1. /\ pc[t] = "enqueue" /\ pc' = [pc EXCEPT ![t] = "copied"]
      /\ slots' = [slots EXCEPT ![buffer_head % RingSize] = hand[t]]
      /\ buffer_head - buffer_tail < RingSize
      /\ UNCHANGED <<net, hand, streamed, bound, gui, recv_pkt, buf_q, pic, shown, vain>>
      /\ UNCHANGED <<buffer_head, buffer_tail>>
  BY DEF Enqueue, Room, srvVars, decVars
<1>2. /\ buffer_head \in Nat /\ buffer_tail \in Nat /\ RingSize \in Nat /\ RingSize > 0
      /\ RingSize \in Nat \ {0} /\ buffer_tail <= buffer_head
      /\ slots \in [0..(RingSize - 1) -> Video] /\ streamed \in Nat
  BY DEF TypeOK, Video
<1>3. pc'[t] = "copied" /\ \A u \in Threads \ {t} : pc'[u] = pc[u]
  BY <1>1 DEF TypeOK
<1>4. \A u \in Threads : Holds(u)' = Holds(u) /\ Uncounted(u)' = Uncounted(u)
  BY <1>1, <1>3 DEF Holds, Uncounted
<1>5. FewerComing /\ FewerHeld
  BY <1>1, <1>4 DEF FewerComing, FewerHeld, Packets, OrderParts, InTurn
<1>6. InTurn' /\ Coming' \subseteq Coming /\ InHands' \subseteq InHands
  BY <1>1, <1>5, InTurnKept DEF OrderParts
<1>7. ASSUME NEW i \in Inside PROVE At(i)' = At(i)
  <2>1. i \in Nat /\ i <= buffer_head /\ buffer_head <= i + RingSize /\ i # buffer_head
        /\ buffer_head # i + RingSize
    BY <1>1, <1>2 DEF Inside
  <2>2. ASSUME i % RingSize = buffer_head % RingSize PROVE FALSE
    <3>1. i = buffer_head \/ buffer_head = i + RingSize
      BY <1>2, <2>1, <2>2, SameSlot
    <3>2. QED
      BY <2>1, <3>1
  <2>3. i % RingSize \in 0..(RingSize - 1)
    BY <1>2, <2>1, Division
  <2>4. QED
    BY <1>1, <1>2, <2>2, <2>3 DEF At
<1>8. Inside' = Inside /\ InRing' = InRing
  <2>1. Inside' = Inside
    BY <1>1 DEF Inside
  <2>2. QED
    BY <1>7, <2>1 DEF InRing
<1>9. At(buffer_head)' = hand[t]
  <2>1. buffer_head % RingSize \in 0..(RingSize - 1)
    BY <1>2, Division
  <2>2. QED
    BY <1>1, <1>2, <2>1 DEF At
<1>10. Queued'
  <2>1. ASSUME NEW u \in Threads, pc'[u] = "copied"
        PROVE  At(buffer_head)' = hand'[u] /\ buffer_head' - buffer_tail' < RingSize
    <3>1. Holds(u) /\ Holds(t)
      BY <1>1, <1>4, <2>1 DEF Holds
    <3>2. u = t
      BY <3>1, OneHolds DEF OrderParts
    <3>3. QED
      BY <1>1, <1>9, <3>2
  <2>2. \A i, j \in Inside' : i < j => At(i)' < At(j)'
    BY <1>7, <1>8 DEF OrderParts, Queued
  <2>3. Below(InRing, Coming \cup InHands)'
    BY <1>6, <1>8 DEF Below, OrderParts, Queued
  <2>4. \A n \in InRing' : n \in 1..streamed'
    BY <1>1, <1>8 DEF OrderParts, Queued
  <2>5. buffer_head' - buffer_tail' <= RingSize
    BY <1>1, <1>2
  <2>6. QED
    BY <2>1, <2>2, <2>3, <2>4, <2>5 DEF Queued
<1>11. Ahead'
  <2>1. Rest' \subseteq Rest
    BY <1>6, <1>8 DEF Rest
  <2>2. NoOlder(Rest, Rest')
    BY <2>1 DEF NoOlder
  <2>3. SamePictures /\ streamed' \in Nat /\ streamed <= streamed'
    BY <1>1, <1>2 DEF SamePictures
  <2>4. QED
    BY <1>1, <2>2, <2>3, AheadKept DEF OrderParts
<1>12. Decoded'
  BY <1>1 DEF OrderParts, Decoded, Decoder, Mapped
<1>13. QED
  BY <1>6, <1>10, <1>11, <1>12 DEF OrderParts

\* The packet published is newer than those in the ring and older than those
\* to come.
LEMMA PublishInOrder ==
  ASSUME TypeOK, OrderParts, NEW t \in Threads, Publish(t)
  PROVE  OrderParts'
<1>1. /\ pc[t] = "copied" /\ pc' = [pc EXCEPT ![t] = "published"]
      /\ buffer_head' = buffer_head + 1
      /\ UNCHANGED <<net, hand, streamed, bound, gui, recv_pkt, buf_q, pic, shown, vain>>
      /\ UNCHANGED <<slots, buffer_tail>>
  BY DEF Publish, srvVars, decVars
<1>2. /\ buffer_head \in Nat /\ buffer_tail \in Nat /\ RingSize \in Nat
      /\ buffer_tail <= buffer_head /\ streamed \in Nat
  BY DEF TypeOK, Video
<1>3. pc'[t] = "published" /\ \A u \in Threads \ {t} : pc'[u] = pc[u]
  BY <1>1 DEF TypeOK
<1>4. FewerComing /\ FewerHeld
  BY <1>1, <1>3 DEF FewerComing, FewerHeld, Packets, OrderParts, InTurn, Holds, Uncounted
<1>5. InTurn' /\ Coming' \subseteq Coming
  BY <1>1, <1>4, InTurnKept DEF OrderParts
<1>6. \A u \in Threads : Holds(u) => u = t
  BY <1>1, OneHolds DEF OrderParts, Holds
<1>7. InHands' = {} /\ \A u \in Threads : pc'[u] # "copied"
  BY <1>3, <1>6 DEF InHands, Holds
<1>8. hand[t] \in InHands /\ At(buffer_head) = hand[t] /\ buffer_head - buffer_tail < RingSize
  BY <1>1 DEF InHands, Holds, OrderParts, Queued
<1>9. hand[t] \in 1..streamed /\ \A n \in InRing : n < hand[t]
  BY <1>8 DEF OrderParts, InTurn, Queued, Below
<1>10. Inside' = Inside \cup {buffer_head} /\ buffer_head \notin Inside
  BY <1>1, <1>2 DEF Inside
<1>11. \A i : At(i)' = At(i)
  BY <1>1 DEF At
<1>12. InRing' = InRing \cup {hand[t]}
  BY <1>8, <1>10, <1>11 DEF InRing
<1>13. Queued'
  <2>1. ASSUME NEW i \in Inside', NEW j \in Inside', i < j PROVE At(i)' < At(j)'
    <3>1. i \in Inside
      BY <1>1, <1>2, <2>1 DEF Inside
    <3>2. CASE j \in Inside
      BY <1>11, <2>1, <3>1, <3>2 DEF OrderParts, Queued
    <3>3. CASE j = buffer_head
      BY <1>8, <1>9, <1>11, <3>1, <3>3 DEF InRing
    <3>4. QED
      BY <1>10, <3>2, <3>3
  <2>2. Below(InRing, Coming \cup InHands)'
    <3>1. Below({hand[t]}, Coming)
      BY <1>8 DEF Below, OrderParts, InTurn
    <3>2. QED
      BY <1>5, <1>7, <1>12, <3>1 DEF Below, OrderParts, Queued
  <2>3. \A n \in InRing' : n \in 1..streamed'
    BY <1>1, <1>9, <1>12 DEF OrderParts, Queued
  <2>4. buffer_head' - buffer_tail' <= RingSize
    BY <1>1, <1>2, <1>8
  <2>5. QED
    BY <1>7, <2>1, <2>2, <2>3, <2>4 DEF Queued
<1>14. Ahead'
  <2>1. Rest' \subseteq Rest
    BY <1>5, <1>7, <1>8, <1>12 DEF Rest
  <2>2. NoOlder(Rest, Rest')
    BY <2>1 DEF NoOlder
  <2>3. SamePictures /\ streamed' \in Nat /\ streamed <= streamed'
    BY <1>1, <1>2 DEF SamePictures
  <2>4. QED
    BY <1>1, <2>2, <2>3, AheadKept DEF OrderParts
<1>15. Decoded'
  BY <1>1 DEF OrderParts, Decoded, Decoder, Mapped
<1>16. QED
  BY <1>5, <1>13, <1>14, <1>15 DEF OrderParts

\* The packet taken out of the ring is the oldest there.
LEMMA DequeueInOrder ==
  ASSUME TypeOK, Counted, OrderParts, DequeuePkt
  PROVE  OrderParts'
<1>1. /\ gui = "idle" /\ gui' = "put" /\ recv_pkt_count > 0
      /\ recv_pkt' = At(buffer_tail) /\ buffer_tail' = buffer_tail + 1
      /\ UNCHANGED <<net, pc, hand, streamed, bound, buf_q, pic, shown, vain>>
      /\ UNCHANGED <<slots, buffer_head>>
  BY DEF DequeuePkt, At, netVars, srvVars
<1>2. /\ buffer_head \in Nat /\ buffer_tail \in Nat /\ RingSize \in Nat
      /\ streamed \in Nat /\ recv_pkt_count \in 0..(buffer_head - buffer_tail)
  BY <1>1 DEF TypeOK, Video
<1>3. FewerComing /\ FewerHeld /\ \A u \in Threads : pc'[u] = pc[u] /\ hand'[u] = hand[u]
  BY <1>1 DEF FewerComing, FewerHeld, Packets, OrderParts, InTurn, Holds, Uncounted
<1>4. InTurn' /\ Coming' \subseteq Coming /\ InHands' \subseteq InHands
  BY <1>1, <1>3, InTurnKept DEF OrderParts
<1>5. buffer_tail \in Inside
  BY <1>1, <1>2 DEF Inside
<1>6. \A i \in Inside' : i \in Inside /\ buffer_tail < i
  BY <1>1, <1>2 DEF Inside
<1>7. \A i : At(i)' = At(i)
  BY <1>1 DEF At
<1>8. recv_pkt' \in InRing /\ InRing' \subseteq InRing
  BY <1>1, <1>5, <1>6, <1>7 DEF InRing
<1>9. \A n \in InRing' : recv_pkt' < n
  BY <1>1, <1>5, <1>6, <1>7 DEF InRing, OrderParts, Queued
<1>10. Queued'
  <2>1. \A t \in Threads : pc'[t] = "copied" =>
            At(buffer_head)' = hand'[t] /\ buffer_head' - buffer_tail' < RingSize
    BY <1>1, <1>2, <1>3 DEF OrderParts, Queued, At
  <2>2. \A i, j \in Inside' : i < j => At(i)' < At(j)'
    BY <1>6, <1>7 DEF OrderParts, Queued
  <2>3. Below(InRing, Coming \cup InHands)'
    BY <1>4, <1>8 DEF Below, OrderParts, Queued
  <2>4. \A n \in InRing' : n \in 1..streamed'
    BY <1>1, <1>8 DEF OrderParts, Queued
  <2>5. buffer_head' - buffer_tail' <= RingSize
    BY <1>1, <1>2 DEF OrderParts, Queued
  <2>6. QED
    BY <2>1, <2>2, <2>3, <2>4, <2>5 DEF Queued
<1>11. Ahead'
  <2>1. Rest' \subseteq Rest /\ Seen' = Seen
    BY <1>1, <1>4, <1>8 DEF Rest, Seen
  <2>2. recv_pkt' \in Rest /\ recv_pkt' \in 1..streamed
    BY <1>8 DEF Rest, OrderParts, Queued
  <2>3. Below(Seen, Rest)' /\ \A n \in Seen' : n <= streamed'
    BY <1>1, <2>1 DEF Below, OrderParts, Ahead
  <2>4. Below(Seen, {recv_pkt})'
    BY <2>1, <2>2 DEF Below, OrderParts, Ahead
  <2>5. \A n \in Coming' \cup InHands' : recv_pkt' < n
    BY <1>4, <1>8 DEF Below, OrderParts, Queued
  <2>6. Below({recv_pkt}, Rest)'
    BY <1>9, <2>5 DEF Below, Rest
  <2>7. QED
    BY <1>1, <2>2, <2>3, <2>4, <2>6 DEF Ahead
<1>12. Decoded'
  BY <1>1 DEF OrderParts, Decoded, Decoder, Mapped
<1>13. QED
  BY <1>4, <1>10, <1>11, <1>12 DEF OrderParts

\* What has been decoded may be the packet the GUI thread had.
LEMMA TimerKeeps ==
  ASSUME TypeOK, OrderParts, gui' # "put", Decoded',
         UNCHANGED <<net, pc, hand, streamed, bound, slots, buffer_head, buffer_tail>>,
         Seen' \subseteq Seen \cup (IF gui = "put" THEN {recv_pkt} ELSE {})
  PROVE  OrderParts'
<1>1. FewerComing /\ FewerHeld
  BY DEF FewerComing, FewerHeld, Packets, OrderParts, InTurn, Holds, Uncounted
<1>2. InTurn' /\ Coming' \subseteq Coming /\ InHands' \subseteq InHands
  BY <1>1, InTurnKept DEF OrderParts
<1>3. Queued' /\ InRing' = InRing
  <2>1. NoOlder(Coming \cup InHands, (Coming \cup InHands)')
    BY <1>2 DEF NoOlder
  <2>2. SameRing /\ FewerCopied /\ streamed' \in Nat /\ streamed <= streamed'
    BY DEF SameRing, FewerCopied, TypeOK, Video
  <2>3. QED
    BY <2>1, <2>2, QueuedKept DEF OrderParts
<1>4. Rest' \subseteq Rest
  BY <1>2, <1>3 DEF Rest
<1>5. ASSUME NEW m \in Seen' PROVE m <= streamed' /\ \A n \in Rest' : m < n
  <2>1. CASE m \in Seen
    BY <1>4, <2>1 DEF OrderParts, Ahead, Below
  <2>2. CASE m \notin Seen
    <3>1. gui = "put" /\ m = recv_pkt
      BY <1>5, <2>2
    <3>2. QED
      BY <1>4, <3>1 DEF OrderParts, Ahead, Below, TypeOK, Video
  <2>3. QED
    BY <2>1, <2>2
<1>6. Ahead'
  BY <1>5 DEF Ahead, Below
<1>7. QED
  BY <1>2, <1>3, <1>6 DEF OrderParts

\* The decoder as a record stays what it is.
LEMMA DecoderBecomes ==
  ASSUME NEW d, DecoderTyped(d), Becomes(d)
  PROVE  Decoder' = d
BY DEF Decoder, Becomes, DecoderTyped

\* The picture shown next is one that was decoded.
LEMMA ShownSeen ==
  ASSUME NEW d, DecoderTyped(d)
  PROVE  /\ ShowFrame(d).pic = d.pic
         /\ ShowFrame(d).shown \in {d.shown} \cup {d.pic[b] : b \in DOMAIN d.pic}
<1> DEFINE m == Buffers - 1
           h == IF d.q.head % m = 0 THEN d.q.head + 1 ELSE d.q.head
           r == ShowFrame(d)
<1>1. /\ r.pic = d.pic
      /\ r.shown = IF d.q.head >= d.q.tail THEN d.shown ELSE d.pic[h % m]
      /\ h % m \in 1..(m - 1)
  BY Shown
<1>2. DOMAIN d.pic = 0..(Buffers - 1)
  BY DEF DecoderTyped
<1> HIDE DEF h, r
<1>3. h % m \in DOMAIN d.pic
  BY <1>1, <1>2
<1>4. QED
  BY <1>1, <1>3 DEF r

\* So is the packet decoded, and no other.
LEMMA PushedSeen ==
  ASSUME NEW d, DecoderTyped(d), NEW n \in Video, NEW ok \in BOOLEAN
  PROVE  LET r == PushPkt(d, n, ok)
         IN  /\ r.shown = d.shown /\ DOMAIN r.pic = DOMAIN d.pic
             /\ \A b \in DOMAIN d.pic : r.pic[b] = d.pic[b] \/ r.pic[b] = n
<1> DEFINE m == Buffers - 1
           t == IF d.q.tail % m = 0 THEN d.q.tail + 1 ELSE d.q.tail
           r == PushPkt(d, n, ok)
<1>1. /\ r.shown = d.shown
      /\ r.pic = IF ok /\ d.q.head + m > d.q.tail
                 THEN [d.pic EXCEPT ![t % m] = n] ELSE d.pic
  BY Pushed
<1> HIDE DEF t, r
<1>2. QED
  BY <1>1 DEF r

\* The timer decodes the packet it has, and shows the next picture.
LEMMA FrameInOrder ==
  ASSUME TypeOK, RingMapped, OrderParts, NEW ok \in BOOLEAN, Frame(ok)
  PROVE  OrderParts' /\ (vain' \/ shown' = shown \/ shown' > shown)
<1> DEFINE d == PushPkt(Decoder, recv_pkt, ok)
           e == IF HasInfo THEN ShowFrame(d) ELSE d
<1>1. /\ gui = "put" /\ gui' = "idle" /\ Becomes(e)
      /\ vain' = (vain \/ (~ok /\ ~Full(buf_q) /\ SkipTail(buf_q) # buf_q))
      /\ UNCHANGED <<net, pc, hand, streamed, bound, slots, buffer_head, buffer_tail>>
  BY DEF Frame, netVars, srvVars
<1>2. /\ DecoderTyped(Decoder) /\ Decoder.q = buf_q /\ Decoder.pic = pic
      /\ Decoder.shown = shown /\ Mapped
  BY <1>1, DecoderIs DEF RingMapped
<1>3. recv_pkt \in Video
  BY DEF TypeOK
<1>4. DecoderTyped(d)
  BY <1>2, <1>3, Pushed
<1>5. /\ d.shown = shown /\ DOMAIN d.pic = DOMAIN pic
      /\ \A b \in DOMAIN pic : d.pic[b] = pic[b] \/ d.pic[b] = recv_pkt
  BY <1>2, <1>3, PushedSeen
<1>6. ~vain' => InOrder(d)
  <2> SUFFICES ASSUME ~vain' PROVE InOrder(d)
    OBVIOUS
  <2>1. ~vain /\ (ok \/ Full(buf_q) \/ SkipTail(buf_q) = buf_q)
    BY <1>1
  <2>2. InOrder(Decoder)
    BY <1>2, <2>1 DEF OrderParts, Decoded
  <2>3. shown < recv_pkt /\ \A b \in DOMAIN pic : pic[b] < recv_pkt
    BY <1>1 DEF OrderParts, Ahead, Below, Seen
  <2>4. QED
    BY <1>2, <1>3, <2>1, <2>2, <2>3, PushInOrder
<1> HIDE DEF d
<1>7. DecoderTyped(e)
  BY <1>4, Shown
<1>8. /\ e.pic = d.pic
      /\ e.shown \in {d.shown} \cup {d.pic[b] : b \in DOMAIN d.pic}
  BY <1>4, ShownSeen
<1>9. ~vain' => InOrder(e) /\ (e.shown = shown \/ e.shown > shown)
  BY <1>4, <1>5, <1>6, ShowInOrder
<1> HIDE DEF e
<1>10. Decoder' = e /\ pic' = e.pic /\ shown' = e.shown
  BY <1>1, <1>7, DecoderBecomes DEF Becomes
<1>11. Decoded'
  BY <1>9, <1>10 DEF Decoded
<1>12. Seen' \subseteq Seen \cup {recv_pkt}
  BY <1>5, <1>8, <1>10 DEF Seen
<1>13. OrderParts'
  BY <1>1, <1>11, <1>12, TimerKeeps
<1>14. QED
  BY <1>9, <1>10, <1>13

\* The timer shows the next picture when no packet has come.
LEMMA FrameWithoutPktInOrder ==
  ASSUME TypeOK, RingMapped, OrderParts, FrameWithoutPkt
  PROVE  OrderParts' /\ (vain' \/ shown' = shown \/ shown' > shown)
<1> DEFINE e == ShowFrame(Decoder)
<1>1. /\ gui = "idle" /\ Becomes(e) /\ gui' = gui /\ vain' = vain
      /\ UNCHANGED <<net, pc, hand, streamed, bound, slots, buffer_head, buffer_tail>>
  BY DEF FrameWithoutPkt, netVars, srvVars, ringVars
<1>2. /\ DecoderTyped(Decoder) /\ Decoder.pic = pic
      /\ Decoder.shown = shown /\ Mapped
  BY <1>1, DecoderIs DEF RingMapped
<1>3. DecoderTyped(e)
  BY <1>2, Shown
<1>4. e.pic = pic /\ e.shown \in {shown} \cup {pic[b] : b \in DOMAIN pic}
  BY <1>2, ShownSeen
<1>5. ~vain' => InOrder(e) /\ (e.shown = shown \/ e.shown > shown)
  BY <1>1, <1>2, ShowInOrder DEF OrderParts, Decoded
<1> HIDE DEF e
<1>6. Decoder' = e /\ pic' = e.pic /\ shown' = e.shown
  BY <1>1, <1>3, DecoderBecomes DEF Becomes
<1>7. Decoded'
  BY <1>5, <1>6 DEF Decoded
<1>8. Seen' \subseteq Seen
  BY <1>4, <1>6 DEF Seen
<1>9. OrderParts'
  BY <1>1, <1>7, <1>8, TimerKeeps
<1>10. QED
  BY <1>5, <1>6, <1>9

\* Once all buffers are mapped, the decoder has none decoded.
LEMMA MapInOrder == ASSUME TypeOK, OrderParts, MapBuffers PROVE OrderParts' /\ shown' = shown
<1>1. /\ buf_q'.head = 0 /\ buf_q'.tail = 0 /\ gui' = "idle"
      /\ UNCHANGED <<net, pc, hand, streamed, bound, slots, buffer_head, buffer_tail,
                     recv_pkt, pic, shown, vain>>
  BY DEF MapBuffers, netVars, srvVars, ringVars
<1>2. Last \in Nat \ {0} /\ Last >= 2
  BY SizesAssumption DEF Last
<1>3. 0 % Last = 0
  BY <1>2
<1>4. Decoder'.q.head = 0 /\ Decoder'.q.tail = 0
  BY <1>1 DEF Decoder
<1>5. Unshown(Decoder') = {}
  BY <1>4 DEF Unshown
<1>6. InOrder(Decoder')
  BY <1>2, <1>3, <1>4, <1>5 DEF InOrder
<1>7. Decoded'
  BY <1>6 DEF Decoded
<1>8. Seen' = Seen
  BY <1>1 DEF Seen
<1>9. QED
  BY <1>1, <1>7, <1>8, TimerKeeps

\* The other steps of the GUI thread and the server leave the packets alone.
LEMMA StillInOrder ==
  ASSUME TypeOK, OrderParts,
         \/ Connect \/ Select \/ BindCallback \/ InitCount \/ Requests \/ RecvEof
         \/ Settle \/ Bind \/ Close \/ UNCHANGED vars
  PROVE  OrderParts' /\ shown' = shown
<1>1. UNCHANGED <<streamed, pc, hand, slots, buffer_head, buffer_tail, recv_pkt, buf_q,
                  pic, shown, vain>>
  BY DEF Connect, Select, BindCallback, InitCount, Requests, AddRequest, SendRequest,
     SendFails, RecvEof, Settle, Bind, Close, vars, netVars, srvVars, ringVars, decVars
<1>2. (bound => bound') /\ (gui' = "put" => gui = "put")
  BY DEF Connect, Select, BindCallback, InitCount, Requests, AddRequest, SendRequest,
     SendFails, RecvEof, Settle, Bind, Close, vars, srvVars
<1>3. \A t \in Threads : net'[t] = net[t] \/ net'[t] = <<>>
  BY DEF TypeOK, Connect, Select, BindCallback, InitCount, Requests, AddRequest,
     SendRequest, SendFails, RecvEof, Settle, Bind, Close, vars, netVars
<1>4. Rising(<<>>) /\ Numbers(<<>>, "video") = {}
  BY DEF Rising, Numbers
<1>5. FewerComing
  BY <1>3, <1>4 DEF FewerComing, Packets, OrderParts, InTurn
<1>6. FewerHeld /\ FewerCopied /\ SameRing /\ SamePictures
  BY <1>1 DEF FewerHeld, FewerCopied, SameRing, SamePictures, Holds, Uncounted
<1>7. QED
  BY <1>1, <1>2, <1>5, <1>6, OrderKept

\* An answer is no packet.
LEMMA AnswerInOrder ==
  ASSUME TypeOK, OrderParts, NEW t \in Threads, Answer(t)
  PROVE  OrderParts' /\ shown' = shown
<1>1. PICK n \in Ids : n = Head(asked[t])
  <2>1. asked[t] \in Seq(Ids) /\ asked[t] # <<>>
    BY DEF Answer, TypeOK
  <2>2. QED
    BY <2>1, Popped
<1>2. PICK r \in Threads : r = Route
  BY DEF Route, Threads
<1> DEFINE e == [type |-> "response", n |-> n]
<1>3. e \in Message /\ net' = [net EXCEPT ![r] = Append(@, e)]
  BY <1>1, <1>2 DEF Answer, Message
<1>4. e.type = "response" /\ net[r] \in Seq(Message) /\ Rising(net[r])
  BY DEF TypeOK, OrderParts, InTurn
<1> HIDE DEF e
<1>5. Numbers(Append(net[r], e), "video") = Numbers(net[r], "video")
  <2>1. Numbers(Append(net[r], e), "video")
            = Numbers(net[r], "video") \cup (IF e.type = "video" THEN {e.n} ELSE {})
    <3>1. net[r] \in Seq(Message) /\ e \in Message
      BY <1>3, <1>4
    <3>2. QED
      BY <3>1, SentMore
  <2>2. QED
    BY <1>4, <2>1
<1>6. Rising(Append(net[r], e))
  <2>1. e.type # "video"
    BY <1>4
  <2>2. QED
    BY <1>3, <1>4, <2>1, SentMore
<1>7. net'[r] = Append(net[r], e) /\ \A u \in Threads \ {r} : net'[u] = net[u]
  BY <1>3 DEF TypeOK
<1>8. FewerComing
  BY <1>5, <1>6, <1>7 DEF FewerComing, Packets, OrderParts, InTurn
<1>9. UNCHANGED <<streamed, bound, gui, pc, hand, slots, buffer_head, buffer_tail,
                  recv_pkt, buf_q, pic, shown, vain>>
  BY DEF Answer, ringVars, decVars
<1>10. FewerHeld /\ FewerCopied /\ SameRing /\ SamePictures
  BY <1>9 DEF FewerHeld, FewerCopied, SameRing, SamePictures, Holds, Uncounted
<1>11. QED
  BY <1>8, <1>9, <1>10, OrderKept

\* Nor does a thread that drops a message or handles an answer get one.
LEMMA ReceiveInOrder ==
  ASSUME TypeOK, OrderParts, NEW t \in Threads,
         Drop(t) \/ RecvResponse(t) \/ Count(t) \/ Respond(t)
  PROVE  OrderParts' /\ shown' = shown
<1>1. /\ UNCHANGED <<streamed, bound, gui, slots, buffer_head, buffer_tail, recv_pkt>>
      /\ UNCHANGED <<buf_q, pic, shown, vain>>
  BY DEF Drop, RecvResponse, Count, Respond, Take, srvVars, decVars, ringVars
<1>2. Take(t) \/ net' = net
  BY DEF Drop, RecvResponse, Count, Respond
<1>3. FewerComing
  <2>1. CASE Take(t)
    BY <2>1, TakenOff DEF OrderParts
  <2>2. CASE net' = net
    BY <2>2 DEF FewerComing, Packets, OrderParts, InTurn
  <2>3. QED
    BY <1>2, <2>1, <2>2
<1>4. ASSUME NEW u \in Threads
      PROVE  (pc'[u] = pc[u] /\ hand'[u] = hand[u]) \/ pc'[u] \in {"recv", "respond"}
  BY DEF Drop, RecvResponse, Count, Respond, TypeOK
<1>5. FewerHeld /\ FewerCopied
  BY <1>4 DEF FewerHeld, FewerCopied, Holds, Uncounted
<1>6. SameRing /\ SamePictures
  BY <1>1 DEF SameRing, SamePictures
<1>7. QED
  BY <1>1, <1>3, <1>5, <1>6, OrderKept

\* KCP meets TCP when a thread takes a packet, and then has for ever.
LEMMA MixedByVideo ==
  ASSUME [Next]_vars
  PROVE  mixed' = mixed \/ \E t \in Threads : RecvVideo(t) /\ (mixed => mixed')
<1>1. CASE Setup \/ Timer \/ Requests \/ Server \/ RecvEof \/ UNCHANGED vars
  BY <1>1 DEF Setup, Connect, Select, BindCallback, InitCount, MapBuffers, Timer,
     DequeuePkt, Frame, FrameWithoutPkt, Requests, AddRequest, SendRequest, SendFails,
     Server, Settle, Stream, Answer, Bind, Close, RecvEof, vars, netVars
<1>2. ASSUME NEW t \in Threads, Receive(t)
      PROVE  mixed' = mixed \/ (RecvVideo(t) /\ (mixed => mixed'))
  BY <1>2 DEF Receive, Drop, RecvVideo, Enqueue, Publish, Count, RecvResponse, Respond
<1>3. QED
  BY <1>1, <1>2 DEF Next

\* Every step keeps the order, and shows a later picture if another one.
LEMMA OrderStep ==
  ASSUME ClientInv, OrderInv, [Next]_vars
  PROVE  OrderInv' /\ (shown' # shown => shown' > shown \/ mixed \/ vain')
<1>1. TypeOK /\ Counted /\ RingMapped
  BY DEF ClientInv
<1>2. CASE mixed
  <2>1. mixed'
    BY <1>2, MixedByVideo
  <2>2. QED
    BY <1>2, <2>1 DEF OrderInv
<1>3. CASE ~mixed /\ mixed'
  <2>1. \E t \in Threads : RecvVideo(t)
    BY <1>3, MixedByVideo
  <2>2. shown' = shown
    BY <2>1 DEF RecvVideo, Take, decVars
  <2>3. QED
    BY <1>3, <2>2 DEF OrderInv
<1>4. CASE ~mixed /\ ~mixed'
  <2>1. OrderParts
    BY <1>4 DEF OrderInv
  <2>2. OrderParts' /\ (vain' \/ shown' = shown \/ shown' > shown)
    <3>1. CASE MapBuffers
      BY <1>1, <2>1, <3>1, MapInOrder
    <3>2. CASE \/ Connect \/ Select \/ BindCallback \/ InitCount \/ Requests \/ RecvEof
               \/ Settle \/ Bind \/ Close \/ UNCHANGED vars
      BY <1>1, <2>1, <3>2, StillInOrder
    <3>3. CASE DequeuePkt
      <4>1. shown' = shown
        BY <3>3 DEF DequeuePkt
      <4>2. QED
        BY <1>1, <2>1, <3>3, <4>1, DequeueInOrder
    <3>4. ASSUME NEW ok \in BOOLEAN, Frame(ok)
          PROVE  OrderParts' /\ (vain' \/ shown' = shown \/ shown' > shown)
      BY <1>1, <2>1, <3>4, FrameInOrder
    <3>5. CASE FrameWithoutPkt
      BY <1>1, <2>1, <3>5, FrameWithoutPktInOrder
    <3>6. CASE Stream
      <4>1. shown' = shown
        BY <3>6 DEF Stream, decVars
      <4>2. QED
        BY <1>1, <2>1, <3>6, <4>1, StreamInOrder
    <3>7. ASSUME NEW t \in Threads, Answer(t)
          PROVE  OrderParts' /\ shown' = shown
      BY <1>1, <2>1, <3>7, AnswerInOrder
    <3>8. ASSUME NEW t \in Threads, Receive(t)
          PROVE  OrderParts' /\ shown' = shown
      <4>1. CASE Drop(t) \/ RecvResponse(t) \/ Count(t) \/ Respond(t)
        BY <1>1, <2>1, <4>1, ReceiveInOrder
      <4>2. shown' = shown
        BY <3>8 DEF Receive, Drop, RecvVideo, Enqueue, Publish, Count, RecvResponse,
           Respond, Take, decVars
      <4>3. CASE RecvVideo(t)
        BY <1>1, <1>4, <2>1, <4>2, <4>3, RecvVideoInOrder
      <4>4. CASE Enqueue(t)
        BY <1>1, <2>1, <4>2, <4>4, EnqueueInOrder
      <4>5. CASE Publish(t)
        BY <1>1, <2>1, <4>2, <4>5, PublishInOrder
      <4>6. QED
        BY <3>8, <4>1, <4>3, <4>4, <4>5 DEF Receive
    <3>9. QED
      BY <3>1, <3>2, <3>3, <3>4, <3>5, <3>6, <3>7, <3>8 DEF Next, Setup, Timer, Server
  <2>3. QED
    BY <2>2 DEF OrderInv
<1>5. QED
  BY <1>2, <1>3, <1>4

\* The packets are in order before any has been sent.
LEMMA OrderInit == Init => OrderInv
<1> SUFFICES ASSUME Init PROVE OrderParts
  BY DEF OrderInv
<1>1. /\ net = [t \in Threads |-> <<>>] /\ pc = [t \in Threads |-> "recv"]
      /\ buffer_head = 0 /\ buffer_tail = 0 /\ shown = 0 /\ streamed = 0
      /\ pic = [b \in 0..(Buffers - 1) |-> 0] /\ gui = "login" /\ buf_q.used = {}
      /\ RingSize \in Nat \ {0}
  BY SizesAssumption DEF Init, EmptyQueue
<1>2. \A t \in Threads : Rising(net[t]) /\ Packets(t) = {}
  BY <1>1 DEF Rising, Packets, Numbers
<1>3. \A t \in Threads : ~Holds(t) /\ ~Uncounted(t) /\ pc[t] # "copied"
  BY <1>1 DEF Holds, Uncounted
<1>4. Coming = {} /\ InHands = {}
  BY <1>2, <1>3 DEF Coming, InHands
<1>5. InTurn
  BY <1>2, <1>3, <1>4 DEF InTurn, Below, Threads
<1>6. Inside = {} /\ InRing = {}
  BY <1>1 DEF Inside, InRing
<1>7. Queued
  BY <1>1, <1>3, <1>6 DEF Queued, Below
<1>8. Seen = {0} /\ Rest = {}
  BY <1>1, <1>4, <1>6, SizesAssumption DEF Seen, Rest
<1>9. Ahead
  BY <1>1, <1>8 DEF Ahead, Below
<1>10. ~Mapped
  <2>1. 1 \in 1..(Buffers - 1)
    BY SizesAssumption
  <2>2. QED
    BY <1>1, <2>1 DEF Mapped
<1>11. QED
  BY <1>5, <1>7, <1>9, <1>10 DEF OrderParts, Decoded

\* Pictures reach the display in the order of the stream, none twice, unless
\* KCP overtook TCP or a packet without a picture moved the tail of the
\* decoder's ring (PicturesInOrder).
THEOREM PicturesReachTheDisplayInOrder == Spec => PicturesInOrder
<1>1. Init => OrderInv
  BY OrderInit
<1>2. ClientInv /\ OrderInv /\ [Next]_vars => OrderInv'
  BY OrderStep
<1>3. ClientInv /\ OrderInv /\ [Next]_vars
          => [shown' # shown => shown' > shown \/ mixed \/ vain']_vars
  BY OrderStep
<1>4. QED
  BY <1>1, <1>2, <1>3, ClientCorrect, PTL DEF Spec, PicturesInOrder
=============================================================================
