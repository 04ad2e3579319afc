-------------------------- MODULE SdlClient_proofs --------------------------
(***************************************************************************)
(* What is proved of the SDL client, for any number of buffers, packets    *)
(* and events: that its variables keep their types and the ring its        *)
(* bounds, that events are sent whole and in their turn, that a buffer on  *)
(* its way to the display is not decoded into, and that pictures reach the *)
(* display in their order.                                                 *)
(***************************************************************************)
EXTENDS SdlClient, TLAPS

(***************************************************************************)
(* The ring of buffer ids: when two positions share a slot of a ring of m, *)
(* and where the walk over the unused slot ends.                           *)
(***************************************************************************)
\* What division with a remainder is.
LEMMA Division ==
  ASSUME NEW i \in Nat, NEW m \in Nat \ {0}
  PROVE  /\ i % m \in 0..m - 1
         /\ i \div m \in Int
         /\ i = m * (i \div m) + (i % m)
OBVIOUS

\* Multiples of m are m apart.
LEMMA Multiples ==
  ASSUME NEW m \in Nat \ {0}
  PROVE  /\ \A d \in Int : d > 1 => m * d >= 2 * m
         /\ \A d \in Int : d <= 0 => m * d <= 0
         /\ \A a, b \in Int : m * b - m * a = m * (b - a)
<1>1. \A d \in Int : d > 1 => m * d >= 2 * m
  <2> SUFFICES ASSUME NEW d \in Int, d > 1 PROVE m * d >= 2 * m
    OBVIOUS
  <2>1. m * d = 2 * m + m * (d - 2)
    OBVIOUS
  <2>2. m * (d - 2) >= 0
    OBVIOUS
  <2>3. m * d \in Int /\ m * (d - 2) \in Int
    OBVIOUS
  <2>4. QED
    BY <2>1, <2>2, <2>3
<1>2. \A d \in Int : d <= 0 => m * d <= 0
  OBVIOUS
<1>3. \A a, b \in Int : m * b - m * a = m * (b - a)
  OBVIOUS
<1>4. QED
  BY <1>1, <1>2, <1>3

\* Of the positions up to m after i, only i + m can have the slot of i.
LEMMA SameSlot ==
  ASSUME NEW m \in Nat \ {0}, NEW i \in Nat, NEW j \in Nat, i <= j, j <= i + m,
         i % m = j % m
  PROVE  i = j \/ j = i + m
<1> DEFINE a == i \div m
           b == j \div m
           r == i % m
<1>1. a \in Int /\ b \in Int /\ r \in Int
  BY Division
<1>2. i = m * a + r
  BY Division
<1>3. j = m * b + r
  BY Division
<1> HIDE DEF a, b, r
<1>4. j - i = m * (b - a) /\ b - a \in Int
  <2>1. j - i = m * b - m * a
    BY <1>1, <1>2, <1>3
  <2>2. QED
    BY <1>1, <2>1, Multiples
<1>5. CASE b - a > 1
  BY <1>4, <1>5, Multiples
<1>6. CASE b - a = 1
  BY <1>4, <1>6
<1>7. CASE b - a <= 0
  BY <1>4, <1>7, Multiples
<1>8. QED
  BY <1>1, <1>5, <1>6, <1>7

\* i + m has the slot of i.
LEMMA NextTurn ==
  ASSUME NEW m \in Nat \ {0}, NEW i \in Nat
  PROVE  (i + m) % m = i % m
<1> DEFINE a == i \div m
           b == (i + m) \div m
           r == i % m
           t == (i + m) % m
<1>1. /\ a \in Int /\ b \in Int
      /\ r \in 0..m - 1 /\ t \in 0..m - 1
      /\ i = m * a + r
  BY Division
<1>2. i + m = m * b + t
  <2>1. i + m \in Nat
    OBVIOUS
  <2>2. QED
    BY <2>1, Division
<1> HIDE DEF a, b, r, t
<1>3. m + r - t = m * (b - a) /\ b - a \in Int
  <2>1. m + r - t = m * b - m * a
    BY <1>1, <1>2
  <2>2. QED
    BY <1>1, <2>1, Multiples
<1>4. CASE b - a > 1
  BY <1>1, <1>3, <1>4, Multiples
<1>5. CASE b - a <= 0
  BY <1>1, <1>3, <1>5, Multiples
<1>6. CASE b - a = 1
  BY <1>1, <1>3, <1>6 DEF r, t
<1>7. QED
  BY <1>1, <1>4, <1>5, <1>6

\* After slot 0 comes another one.
LEMMA AfterZero ==
  ASSUME NEW m \in Nat, m >= 2, NEW i \in Nat, i % m = 0
  PROVE  (i + 1) % m # 0
<1> SUFFICES ASSUME (i + 1) % m = i % m PROVE FALSE
  OBVIOUS
<1>1. i = i + 1 \/ i + 1 = i + m
  BY SameSlot
<1>2. QED
  BY <1>1

\* When all ids are used, the walk steps over slot 0 alone.
LEMMA NextUsedOver ==
  ASSUME NEW q, q.max_idx \in Nat, q.max_idx >= 2, q.used = 1..q.max_idx, NEW i \in Nat
  PROVE  NextUsed(q, i) = IF Slot(q, i) = 0 THEN i + 1 ELSE i
<1> DEFINE m == q.max_idx
           used == {j \in i..(i + m) : Slot(q, j) \in q.used}
           n == IF Slot(q, i) = 0 THEN i + 1 ELSE i
<1>1. \A j \in Nat : Slot(q, j) \in q.used <=> j % m # 0
  <2> TAKE j \in Nat
  <2>1. m \in Nat \ {0}
    OBVIOUS
  <2>2. j % m \in 0..m - 1
    BY <2>1, Division
  <2>3. QED
    BY <2>2 DEF Slot
<1>2. n \in i..(i + m) /\ n % m # 0
  BY AfterZero DEF Slot
<1>3. n \in used /\ used \subseteq Nat
  BY <1>1, <1>2
<1>4. \A k \in used : n <= k
  <2> TAKE k \in used
  <2>1. k >= i /\ k % m # 0 /\ k \in Nat
    BY <1>1
  <2>2. QED
    BY <2>1 DEF Slot
<1>5. \A k \in used : (\A l \in used : k <= l) => k = n
  BY <1>3, <1>4
<1>6. NextUsed(q, i) = CHOOSE j \in used : \A k \in used : j <= k
  BY DEF NextUsed
<1> HIDE DEF n, used
<1>7. NextUsed(q, i) = n
  BY <1>3, <1>4, <1>5, <1>6
<1>8. QED
  BY <1>7 DEF n
-----------------------------------------------------------------------------

\* What is in the slot of the event thread has been accepted and not yet sent,
\* or sent and not yet cleared; only its fields may be those of the one before.
EventsInTurn ==
    /\ main \in {"send", "clear"} => event_type # 0
    /\ event_type # 0 => event_type = accepted
    /\ event_type = 0 \/ main = "clear" => Len(sent) = accepted
    /\ event_type # 0 /\ main # "clear" => Len(sent) + 1 = accepted
    /\ fields \in {accepted - 1, accepted}
    /\ (poll = "idle" => fields = accepted)
    /\ EventsWhole

SlotInv == SlotTyped /\ EventsInTurn

\* The slot is empty at first.
LEMMA SlotInit == Init => SlotInv
  BY BoundsAssumption DEF Init, SlotInv, SlotTyped, EventsInTurn, EventsWhole

\* Every step keeps the slot as it is, or takes an event one stage further.
LEMMA SlotStep == SlotInv /\ [Next]_vars => SlotInv'
<1> SUFFICES ASSUME SlotInv, [Next]_vars PROVE SlotInv'
  OBVIOUS
<1> USE BoundsAssumption DEF Rings
<1>1. ASSUME UNCHANGED eventVars,
             main' \in {"send", "clear"} => event_type # 0,
             main' = "clear" <=> main = "clear"
      PROVE  SlotInv'
  BY <1>1 DEF eventVars, SlotInv, SlotTyped, EventsInTurn, EventsWhole
<1>2. CASE main = "send" /\ SendEvent
  <2> DEFINE e == [type |-> event_type, fields |-> fields]
  <2>1. /\ sent' = Append(sent, e) /\ main' = "clear"
        /\ UNCHANGED <<event_type, fields, poll, accepted>>
    BY <1>2 DEF SendEvent, eventVars
  <2>2. /\ event_type # 0 /\ event_type = accepted /\ Len(sent) + 1 = accepted
        /\ fields \in {accepted - 1, accepted}
    BY <1>2 DEF SlotInv, EventsInTurn
  <2>3. e \in [type : 1..MaxEvents, fields : 0..MaxEvents]
    BY <2>2 DEF SlotInv, SlotTyped
  <2>4. /\ Len(sent') = Len(sent) + 1
        /\ \A i \in DOMAIN sent : sent'[i] = sent[i]
        /\ sent'[Len(sent) + 1] = e
        /\ sent' \in Seq([type : 1..MaxEvents, fields : 0..MaxEvents])
        /\ DOMAIN sent = 1..Len(sent) /\ DOMAIN sent' = 1..Len(sent')
        /\ Len(sent) \in Nat
    BY <2>1, <2>3 DEF SlotInv, SlotTyped
  <2>5. EventsWhole'
    <3> SUFFICES ASSUME NEW i \in DOMAIN sent'
                 PROVE  sent'[i].type = i /\ sent'[i].fields \in {i - 1, i}
      BY DEF EventsWhole
    <3>1. CASE i \in DOMAIN sent
      BY <2>4, <3>1 DEF SlotInv, EventsInTurn, EventsWhole
    <3>2. CASE i = Len(sent) + 1
      <4>1. sent'[i] = e
        BY <2>4, <3>2
      <4>2. e.type = event_type /\ e.fields = fields
        OBVIOUS
      <4>3. i = event_type
        BY <2>2, <3>2
      <4> HIDE DEF e
      <4>4. sent'[i].type = event_type /\ sent'[i].fields = fields
        BY <4>1, <4>2
      <4>5. event_type = accepted /\ fields \in {accepted - 1, accepted}
        BY <2>2
      <4>6. QED
        BY <4>3, <4>4, <4>5
    <3>3. QED
      BY <2>4, <3>1, <3>2
  <2>6. QED
    BY <2>1, <2>2, <2>4, <2>5 DEF SlotInv, SlotTyped, EventsInTurn
<1>3. CASE ClearSlot
  BY <1>3 DEF ClearSlot, SlotInv, SlotTyped, EventsInTurn, EventsWhole
<1>4. CASE PollEvent
  BY <1>4 DEF PollEvent, SlotFree, SlotInv, SlotTyped, EventsInTurn, EventsWhole
<1>5. CASE FillSlot
  BY <1>5 DEF FillSlot, SlotInv, SlotTyped, EventsInTurn, EventsWhole
<1>6. CASE LookAtSlot
  BY <1>1, <1>6 DEF LookAtSlot
<1>7. CASE DecoderInit \/ MapBuffer \/ GetInfo
  BY <1>1, <1>7 DEF DecoderInit, MapBuffer, GetInfo
<1>8. CASE GetBuf \/ MarkBuf \/ AdvanceHead \/ Show \/ PutFb
  BY <1>1, <1>8 DEF GetBuf, MarkBuf, AdvanceHead, Show, PutFb
<1>9. CASE main' = main /\ UNCHANGED eventVars
  BY <1>1, <1>9 DEF SlotInv, EventsInTurn
<1>10. CASE RecvPkt \/ Receive \/ Exit \/ UNCHANGED vars
  BY <1>9, <1>10 DEF RecvPkt, Receive, GetId, Decode, AdvanceTail, Exit, vars
<1>11. SendEvent => main = "send"
  BY DEF SendEvent
<1>12. QED
  BY <1>2, <1>3, <1>4, <1>5, <1>6, <1>7, <1>8, <1>10, <1>11 DEF Next, Main, EventThread

\* Every event that found the slot empty is sent once and in its turn, with its
\* own fields or those of the event before (EventsWhole), whatever the threads do.
THEOREM EventsSentWhole == Spec => []EventsWhole
<1>1. SlotInv => EventsWhole
  BY DEF SlotInv, EventsInTurn
<1>2. QED
  BY <1>1, SlotInit, SlotStep, PTL DEF Spec
-----------------------------------------------------------------------------

M == buf_q.max_idx
At(i) == Slot(buf_q, i)
Mapping == main \in {"start", "map"}

\* A packet that came after all buffers were mapped finds them all, and the
\* receive thread has read the modulus they have.
SettingUp ==
    /\ Mapping => mapped < Buffers /\ buf_q.head = 0 /\ (startled \/ buf_q.tail = 0)
    /\ ~Mapping => mapped = Buffers
    /\ net # "recv" => startled \/ (mapped = Buffers /\ divisor = M)

\* The two threads test, step over the unused slot and take one after the
\* other: each can come to where the other one is, but only over that slot.
HeadBehind ==
    main \in {"mark", "advance"} =>
        /\ buf_q.head <= buf_q.tail
        /\ buf_q.head = buf_q.tail => buf_q.head > 0 /\ At(buf_q.head - 1) = 0
TailBehind ==
    net # "recv" /\ ~startled =>
        /\ buf_q.tail <= buf_q.head + M
        /\ buf_q.tail = buf_q.head + M => buf_q.tail > 0 /\ At(buf_q.tail - 1) = 0

\* The decoder's buffer is the one at the tail, and the display's is not free.
Owned ==
    /\ net \in {"decode", "sub"} =>
           /\ buf_q.tail <= MaxTail /\ id \in buf_q.used
           /\ startled \/ id = At(buf_q.tail)
    /\ main \in Showing => buf \in buf_q.used \ buf_q.free

RingInv ==
    /\ StatesTyped /\ RingTyped /\ PicturesTyped
    /\ SettingUp /\ HeadBehind /\ TailBehind /\ Owned

\* Where the pictures begin that are not shown yet.
Lo == IF main = "show" THEN buf_q.head - 1 ELSE buf_q.head
Unshown == {i \in Lo..buf_q.tail - 1 : At(i) # 0}

\* From the head to the tail, and after what is shown, pictures follow in
\* order, with the one being decoded after them all.
Sorted == \A i, j \in Unshown : i < j => pic[At(i)] < pic[At(j)]
Later ==
    \A i \in Unshown :
        /\ shown < pic[At(i)] /\ pic[At(i)] <= got
        /\ net # "recv" => pic[At(i)] < got
Latest == shown <= got /\ (net # "recv" => shown < got)
Apart ==
    /\ net \in {"decode", "sub"} => buf_q.tail < Lo + M
    /\ net = "sub" => pic[id] = got
Taking ==
    /\ main \in {"mark", "advance"} => buf_q.head < buf_q.tail
    /\ main = "advance" => buf = At(buf_q.head)
    /\ main = "show" => /\ buf_q.head > 0 /\ buf_q.head - 1 < buf_q.tail
                        /\ buf = At(buf_q.head - 1)
InOrder == ~crossed /\ ~startled => Sorted /\ Later /\ Latest /\ Apart /\ Taking
-----------------------------------------------------------------------------
(* The ring keeps its bounds.                                               *)

USE BoundsAssumption DEF Rings

\* Once the buffers are mapped, every slot but slot 0 is in use.
LEMMA Mapped ==
  ASSUME RingInv, mapped = Buffers
  PROVE  /\ M = Buffers - 1 /\ M \in Nat /\ M >= 2 /\ buf_q.used = 1..M
         /\ buf_q.head \in Nat /\ buf_q.tail \in Nat
         /\ \A i \in Nat : /\ At(i) \in 0..M - 1
                           /\ At(i) \in buf_q.used <=> At(i) # 0
<1>1. /\ M = Buffers - 1 /\ M \in Nat /\ M >= 2 /\ buf_q.used = 1..M
      /\ buf_q.head \in Nat /\ buf_q.tail \in Nat
  BY DEF RingInv, RingTyped, M, Ids
<1>2. M \in Nat \ {0}
  BY <1>1
<1>3. \A i \in Nat : At(i) = i % M
  BY DEF At, Slot, M
<1>4. \A i \in Nat : At(i) \in 0..M - 1
  <2> TAKE i \in Nat
  <2>1. i % M \in 0..M - 1
    BY <1>2, Division
  <2>2. QED
    BY <1>3, <2>1
<1>5. \A i \in Nat : At(i) \in buf_q.used <=> At(i) # 0
  <2> TAKE i \in Nat
  <2>1. At(i) \in 0..M - 1
    BY <1>4
  <2> HIDE DEF At
  <2>2. QED
    BY <1>1, <2>1
<1>6. QED
  BY <1>1, <1>4, <1>5

\* The ring is empty at first.
LEMMA RingInit == Init => RingInv
<1> SUFFICES ASSUME Init PROVE RingInv
  OBVIOUS
<1>1. StatesTyped
  BY DEF Init, StatesTyped, MainStates
<1>2. PicturesTyped
  BY DEF Init, PicturesTyped, Ids
<1>3. RingTyped
  BY DEF Init, RingTyped, EmptyQueue, Ids
<1>4. SettingUp
  BY DEF Init, SettingUp, Mapping, EmptyQueue
<1>5. HeadBehind /\ TailBehind /\ Owned
  BY DEF Init, HeadBehind, TailBehind, Owned, Showing
<1>6. QED
  BY <1>1, <1>2, <1>3, <1>4, <1>5 DEF RingInv

\* A thread goes on without touching the ring.
Rests ==
    /\ UNCHANGED <<mapped, buf_q, startled, divisor, id>>
    /\ net' = net \/ net' = "recv" \/ (net = "decode" /\ net' = "sub")
    /\ \/ main' = main /\ buf' = buf
       \/ /\ Mapping' <=> Mapping
          /\ main' \notin {"mark", "advance"}
          /\ main' \in Showing => main \in Showing /\ buf' = buf

\* Such a step keeps what is known of the ring.
LEMMA RingRests ==
  ASSUME RingInv, Rests, StatesTyped', PicturesTyped'
  PROVE  RingInv'
<1>1. RingTyped'
  BY DEF Rests, RingInv, RingTyped
<1>2. SettingUp'
  BY DEF Rests, RingInv, SettingUp, Mapping, M
<1>3. HeadBehind'
  BY DEF Rests, RingInv, HeadBehind, At
<1>4. TailBehind'
  BY DEF Rests, RingInv, TailBehind, At, M
<1>5. Owned'
  BY DEF Rests, RingInv, Owned, At
<1>6. QED
  BY <1>1, <1>2, <1>3, <1>4, <1>5 DEF RingInv

\* Mapping a buffer adds its id, and nothing is in the ring by then.
LEMMA MapBufferRing == RingInv /\ MapBuffer => RingInv'
<1> SUFFICES ASSUME RingInv, MapBuffer PROVE RingInv'
  OBVIOUS
<1>1. /\ main = "map" /\ mapped \in 0..Buffers - 1 /\ mapped' = mapped + 1
      /\ main' = IF mapped' = Buffers THEN "info" ELSE "map"
      /\ UNCHANGED <<dec_obj, info, startled, crossed, gone, net>>
      /\ UNCHANGED <<buf, divisor, id, pic, shown, got>>
  BY DEF MapBuffer, RingInv, SettingUp, Mapping, RingTyped, showVars, netVars, histVars
<1>2. /\ buf_q \in Rings
      /\ buf_q.used = {b \in Ids : 0 < b /\ b < mapped} /\ buf_q.free \subseteq buf_q.used
      /\ buf_q.max_idx = IF mapped = 0 THEN 0 ELSE mapped - 1
  BY DEF RingInv, RingTyped
<1>3. /\ buf_q'.head = buf_q.head /\ buf_q'.tail = buf_q.tail
      /\ buf_q'.max_idx = mapped
      /\ buf_q'.used = buf_q.used \cup ({mapped} \ {0})
      /\ buf_q'.free = buf_q.free \cup ({mapped} \ {0})
      /\ buf_q' \in Rings
  <2>1. buf_q' = SetStatus(buf_q, mapped, TRUE)
    BY DEF MapBuffer, svc_map_fb
  <2>2. CASE mapped = 0
    BY <1>2, <2>1, <2>2 DEF SetStatus
  <2>3. CASE mapped # 0
    <3>1. mapped > buf_q.max_idx /\ mapped \in Ids
      BY <1>1, <1>2, <2>3 DEF Ids
    <3>2. buf_q' = [buf_q EXCEPT !.used = @ \cup {mapped}, !.free = @ \cup {mapped},
                                 !.max_idx = mapped]
      BY <2>1, <2>3, <3>1 DEF SetStatus
    <3>3. /\ buf_q'.head = buf_q.head /\ buf_q'.tail = buf_q.tail
          /\ buf_q'.max_idx = mapped
          /\ buf_q'.used = buf_q.used \cup {mapped}
          /\ buf_q'.free = buf_q.free \cup {mapped}
      BY <1>2, <3>2
    <3>4. buf_q' \in Rings
      BY <1>2, <3>1, <3>2
    <3>5. {mapped} \ {0} = {mapped}
      BY <2>3
    <3>6. QED
      BY <3>3, <3>4, <3>5
  <2>4. QED
    BY <2>2, <2>3
<1>4. RingTyped'
  <2>1. buf_q'.used = {b \in Ids : 0 < b /\ b < mapped'} /\ buf_q'.free \subseteq buf_q'.used
    BY <1>1, <1>2, <1>3 DEF Ids
  <2>2. buf_q'.max_idx >= buf_q.max_idx
    BY <1>1, <1>2, <1>3
  <2>3. /\ buf_q'.head <= buf_q'.tail + 1 /\ buf_q'.tail <= MaxTail + 1
        /\ buf_q'.tail <= buf_q'.head + buf_q'.max_idx + 1 \/ startled'
    BY <1>1, <1>2, <1>3, <2>2 DEF RingInv, RingTyped, Ids
  <2>4. QED
    BY <1>1, <1>3, <2>1, <2>3 DEF RingTyped
<1>5. StatesTyped' /\ PicturesTyped'
  BY <1>1 DEF RingInv, StatesTyped, MainStates, PicturesTyped
<1>6. SettingUp'
  BY <1>1, <1>3 DEF RingInv, SettingUp, Mapping, RingTyped
<1>7. HeadBehind'
  BY <1>1 DEF HeadBehind
<1>8. TailBehind'
  BY <1>1 DEF TailBehind, RingInv, SettingUp
<1>9. Owned'
  BY <1>1, <1>3 DEF RingInv, SettingUp, Owned, Showing
<1>10. QED
  BY <1>4, <1>5, <1>6, <1>7, <1>8, <1>9 DEF RingInv

\* The display comes to a slot before the tail, or over slot 0 to the tail.
LEMMA GetBufRing == RingInv /\ GetBuf => RingInv'
<1> SUFFICES ASSUME RingInv, GetBuf PROVE RingInv'
  OBVIOUS
<1>1. /\ main = "frame"
      /\ UNCHANGED <<dec_obj, mapped, info, startled, gone, net>>
      /\ UNCHANGED <<buf, divisor, id, pic, shown, got>>
  BY DEF GetBuf, setupVars, netVars
<1>2. PicturesTyped'
  BY <1>1 DEF RingInv, PicturesTyped
<1>3. StatesTyped'
  BY <1>1 DEF GetBuf, Empty, RingInv, StatesTyped, MainStates, RingTyped
<1>4. CASE Empty(buf_q)
  <2>1. Rests
    BY <1>1, <1>4 DEF GetBuf, Rests, Mapping, Showing
  <2>2. QED
    BY <1>2, <1>3, <2>1, RingRests
<1>5. CASE ~Empty(buf_q)
  <2>1. buf_q' = SkipHead(buf_q) /\ main' = "mark" /\ mapped = Buffers
    BY <1>1, <1>5 DEF GetBuf, RingInv, SettingUp, Mapping
  <2>2. /\ buf_q \in Rings
        /\ buf_q.head < buf_q.tail
    BY <1>5 DEF RingInv, RingTyped, Empty
  <2>3. NextUsed(buf_q, buf_q.head) = IF At(buf_q.head) = 0 THEN buf_q.head + 1 ELSE buf_q.head
    BY <2>1, <2>2, Mapped, NextUsedOver DEF At, M
  <2>4. /\ buf_q'.used = buf_q.used /\ buf_q'.free = buf_q.free
        /\ buf_q'.tail = buf_q.tail /\ buf_q'.max_idx = buf_q.max_idx
        /\ buf_q'.head = IF At(buf_q.head) = 0 THEN buf_q.head + 1 ELSE buf_q.head
        /\ buf_q' \in Rings
    BY <2>1, <2>2, <2>3 DEF SkipHead
  <2>5. \A i \in Nat : At(i)' = At(i)
    BY <2>4 DEF At, Slot
  <2>6. RingTyped'
    BY <1>1, <2>2, <2>4 DEF RingInv, RingTyped
  <2>7. SettingUp'
    BY <1>1, <2>1, <2>4 DEF RingInv, SettingUp, Mapping, M
  <2>8. HeadBehind'
    <3>1. buf_q'.head <= buf_q'.tail
      BY <2>2, <2>4
    <3>2. ASSUME buf_q'.head = buf_q'.tail
          PROVE  buf_q'.head > 0 /\ buf_q'.head - 1 = buf_q.head /\ At(buf_q.head) = 0
      BY <2>2, <2>4, <3>2
    <3>3. QED
      BY <2>2, <2>5, <3>1, <3>2 DEF HeadBehind
  <2>9. TailBehind'
    <3>1. buf_q'.head = buf_q.head \/ buf_q'.head = buf_q.head + 1
      BY <2>4
    <3>2. M' = M /\ M \in Nat
      BY <2>1, <2>4, Mapped DEF M
    <3>3. ASSUME net # "recv", ~startled
          PROVE  /\ buf_q.tail <= buf_q.head + M
                 /\ buf_q.tail = buf_q.head + M => buf_q.tail > 0 /\ At(buf_q.tail - 1) = 0
      BY <3>3 DEF RingInv, TailBehind
    <3>4. QED
      BY <1>1, <2>2, <2>4, <2>5, <3>1, <3>2, <3>3 DEF TailBehind
  <2>10. Owned'
    BY <1>1, <2>1, <2>2, <2>4, <2>5 DEF RingInv, Owned, Showing
  <2>11. QED
    BY <1>2, <1>3, <2>6, <2>7, <2>8, <2>9, <2>10 DEF RingInv
<1>6. QED
  BY <1>4, <1>5

\* The display takes the buffer at the head.
LEMMA MarkBufRing == RingInv /\ MarkBuf => RingInv'
<1> SUFFICES ASSUME RingInv, MarkBuf PROVE RingInv'
  OBVIOUS
<1>1. /\ main = "mark"
      /\ UNCHANGED <<dec_obj, mapped, info, startled, crossed, gone, net>>
      /\ UNCHANGED <<divisor, id, pic, shown, got>>
  BY DEF MarkBuf, setupVars, netVars, histVars
<1>2. CASE ~HeadFree(buf_q)
  <2>1. main' = "loop" /\ buf_q' = buf_q /\ buf' = buf
    BY <1>2 DEF MarkBuf
  <2>2. StatesTyped' /\ PicturesTyped'
    BY <1>1, <2>1 DEF RingInv, StatesTyped, MainStates, PicturesTyped
  <2>3. Rests
    BY <1>1, <2>1 DEF Rests, Mapping, Showing
  <2>4. QED
    BY <2>2, <2>3, RingRests
<1>3. CASE HeadFree(buf_q)
  <2>1. /\ buf_q' = TakeHead(buf_q) /\ main' = "advance" /\ buf' = At(buf_q.head)
        /\ At(buf_q.head) \in buf_q.free
    BY <1>3 DEF MarkBuf, HeadFree, At
  <2>2. buf_q \in Rings /\ buf_q.free \subseteq buf_q.used
    BY DEF RingInv, RingTyped
  <2>3. /\ buf_q'.used = buf_q.used /\ buf_q'.free = buf_q.free \ {buf'}
        /\ buf_q'.tail = buf_q.tail /\ buf_q'.max_idx = buf_q.max_idx
        /\ buf_q'.head = buf_q.head
        /\ buf_q' \in Rings
    BY <2>1, <2>2 DEF TakeHead, At
  <2>4. \A i : At(i)' = At(i)
    BY <2>3 DEF At, Slot
  <2>5. StatesTyped' /\ PicturesTyped'
    <3>1. StatesTyped'
      BY <1>1, <2>1 DEF RingInv, StatesTyped, MainStates, Showing
    <3>2. buf' \in Ids
      BY <2>1, <2>2
    <3>3. QED
      BY <1>1, <3>1, <3>2 DEF RingInv, PicturesTyped
  <2>6. RingTyped'
    BY <1>1, <2>2, <2>3 DEF RingInv, RingTyped
  <2>7. SettingUp'
    BY <1>1, <2>1, <2>3 DEF RingInv, SettingUp, Mapping, M
  <2>8. HeadBehind'
    BY <1>1, <2>3, <2>4 DEF RingInv, HeadBehind
  <2>9. TailBehind'
    BY <1>1, <2>3, <2>4 DEF RingInv, TailBehind, M
  <2>10. Owned'
    BY <1>1, <2>1, <2>2, <2>3, <2>4 DEF RingInv, Owned
  <2>11. QED
    BY <2>5, <2>6, <2>7, <2>8, <2>9, <2>10 DEF RingInv
<1>4. QED
  BY <1>2, <1>3

\* The display steps over the buffer it has taken.
LEMMA AdvanceHeadRing == RingInv /\ AdvanceHead => RingInv'
<1> SUFFICES ASSUME RingInv, AdvanceHead PROVE RingInv'
  OBVIOUS
<1>1. /\ main = "advance" /\ main' = "show" /\ mapped = Buffers
      /\ UNCHANGED <<dec_obj, mapped, info, startled, crossed, gone, net>>
      /\ UNCHANGED <<buf, divisor, id, pic, shown, got>>
  BY DEF AdvanceHead, setupVars, showVars, netVars, histVars, RingInv, SettingUp, Mapping
<1>2. buf_q \in Rings /\ buf_q.head <= buf_q.tail
  BY <1>1 DEF RingInv, RingTyped, HeadBehind
<1>3. /\ buf_q'.used = buf_q.used /\ buf_q'.free = buf_q.free
      /\ buf_q'.tail = buf_q.tail /\ buf_q'.max_idx = buf_q.max_idx
      /\ buf_q'.head = buf_q.head + 1
      /\ buf_q' \in Rings
  BY <1>2 DEF AdvanceHead, PassHead
<1>4. \A i : At(i)' = At(i)
  BY <1>3 DEF At, Slot
<1>5. StatesTyped' /\ PicturesTyped'
  BY <1>1 DEF RingInv, StatesTyped, MainStates, Showing, PicturesTyped
<1>6. RingTyped'
  BY <1>1, <1>2, <1>3 DEF RingInv, RingTyped
<1>7. SettingUp'
  BY <1>1, <1>3 DEF RingInv, SettingUp, Mapping, M
<1>8. HeadBehind'
  BY <1>1 DEF HeadBehind
<1>9. TailBehind'
  <2>1. M' = M /\ M \in Nat
    BY <1>1, <1>3, Mapped DEF M
  <2>2. ASSUME net # "recv", ~startled
        PROVE  buf_q.tail <= buf_q.head + M
    BY <2>2 DEF RingInv, TailBehind
  <2>3. QED
    BY <1>1, <1>2, <1>3, <2>1, <2>2 DEF TailBehind
<1>10. Owned'
  BY <1>1, <1>3, <1>4 DEF RingInv, Owned, Showing
<1>11. QED
  BY <1>5, <1>6, <1>7, <1>8, <1>9, <1>10 DEF RingInv

\* The display gives its buffer back.
LEMMA PutFbRing == RingInv /\ PutFb => RingInv'
<1> SUFFICES ASSUME RingInv, PutFb PROVE RingInv'
  OBVIOUS
<1>1. /\ main = "put" /\ main' = "loop" /\ buf' = 0
      /\ UNCHANGED <<dec_obj, mapped, info, startled, crossed, gone, net>>
      /\ UNCHANGED <<divisor, id, pic, shown, got>>
  BY DEF PutFb, setupVars, netVars, histVars
<1>2. buf_q \in Rings /\ buf \in buf_q.used
  BY <1>1 DEF RingInv, RingTyped, Owned, Showing
<1>3. /\ buf_q'.used = buf_q.used /\ buf_q'.free = buf_q.free \cup {buf}
      /\ buf_q'.tail = buf_q.tail /\ buf_q'.max_idx = buf_q.max_idx
      /\ buf_q'.head = buf_q.head
      /\ buf_q' \in Rings
  <2>1. buf > 0
    BY <1>2 DEF RingInv, RingTyped
  <2>2. QED
    BY <1>2, <2>1 DEF PutFb, PutBuf
<1>4. \A i : At(i)' = At(i)
  BY <1>3 DEF At, Slot
<1>5. StatesTyped' /\ PicturesTyped'
  BY <1>1 DEF RingInv, StatesTyped, MainStates, PicturesTyped, Ids
<1>6. RingTyped'
  BY <1>1, <1>2, <1>3 DEF RingInv, RingTyped
<1>7. SettingUp'
  BY <1>1, <1>3 DEF RingInv, SettingUp, Mapping, M
<1>8. HeadBehind'
  BY <1>1 DEF HeadBehind
<1>9. TailBehind'
  BY <1>1, <1>3, <1>4 DEF RingInv, TailBehind, M
<1>10. Owned'
  BY <1>1, <1>3, <1>4 DEF RingInv, Owned, Showing
<1>11. QED
  BY <1>5, <1>6, <1>7, <1>8, <1>9, <1>10 DEF RingInv

\* A packet is decoded when there is room for it.
LEMMA RecvPktRing == RingInv /\ RecvPkt => RingInv'
<1> SUFFICES ASSUME RingInv, RecvPkt PROVE RingInv'
  OBVIOUS
<1>1. /\ net = "recv" /\ got' = got + 1 /\ got' \in 0..MaxVideo
      /\ UNCHANGED <<main, dec_obj, mapped, info, crossed, gone, buf_q, id, pic, buf, shown>>
  BY DEF RecvPkt, setupVars, ringVars, showVars, RingInv, PicturesTyped
<1>2. CASE ~(HasDecoder /\ ~Full(buf_q))
  <2>1. net' = net /\ divisor' = divisor /\ startled' = startled
    BY <1>2 DEF RecvPkt
  <2>2. StatesTyped' /\ PicturesTyped'
    BY <1>1, <2>1 DEF RingInv, StatesTyped, PicturesTyped
  <2>3. Rests
    BY <1>1, <2>1 DEF Rests
  <2>4. QED
    BY <2>2, <2>3, RingRests
<1>3. CASE HasDecoder /\ ~Full(buf_q)
  <2>1. /\ net' = "skip" /\ divisor' = M /\ startled' = (startled \/ mapped < Buffers)
    BY <1>3 DEF RecvPkt, M
  <2>2. buf_q \in Rings /\ mapped \in 0..Buffers /\ buf_q.tail < buf_q.head + M
    BY <1>3 DEF RingInv, RingTyped, Full, M, Ids
  <2>3. StatesTyped' /\ PicturesTyped'
    BY <1>1, <2>1, <2>2 DEF RingInv, StatesTyped, PicturesTyped, M
  <2>4. RingTyped'
    BY <1>1, <2>1 DEF RingInv, RingTyped
  <2>5. SettingUp'
    BY <1>1, <2>1, <2>2 DEF RingInv, SettingUp, Mapping, M
  <2>6. HeadBehind'
    BY <1>1 DEF RingInv, HeadBehind, At
  <2>7. TailBehind'
    BY <1>1, <2>2 DEF TailBehind, M, Ids
  <2>8. Owned'
    BY <1>1, <2>1 DEF RingInv, Owned
  <2>9. QED
    BY <2>3, <2>4, <2>5, <2>6, <2>7, <2>8 DEF RingInv
<1>4. QED
  BY <1>2, <1>3

\* The decoder steps over slot 0, takes the free buffer at the tail, or gives up.
LEMMA GetIdRing == RingInv /\ GetId => RingInv'
<1> SUFFICES ASSUME RingInv, GetId PROVE RingInv'
  OBVIOUS
<1>1. /\ net = "skip" /\ buf_q.tail <= MaxTail
      /\ UNCHANGED <<main, dec_obj, mapped, info, startled, gone>>
      /\ UNCHANGED <<buf, divisor, pic, shown, got>>
  BY DEF GetId, setupVars, showVars
<1>2. PICK d \in {divisor, buf_q.max_idx} :
          LET q == [buf_q EXCEPT !.max_idx = d]
              s == Slot(q, q.tail)
          IN IF s \notin q.used
             THEN buf_q' = SubId(buf_q) /\ UNCHANGED <<net, id, crossed>>
             ELSE IF TailFree(q)
             THEN /\ net' = "decode" /\ id' = s
                  /\ crossed' = (crossed \/ Full(buf_q))
                  /\ UNCHANGED buf_q
             ELSE net' = "recv" /\ UNCHANGED <<buf_q, id, crossed>>
  BY DEF GetId
<1> DEFINE s == buf_q.tail % d
<1>3. buf_q \in Rings
  BY DEF RingInv, RingTyped
<1>4. LET q == [buf_q EXCEPT !.max_idx = d]
      IN  Slot(q, q.tail) = s /\ q.used = buf_q.used
  BY <1>3 DEF Slot
<1>5. ~startled => mapped = Buffers /\ s = At(buf_q.tail)
  BY <1>1 DEF RingInv, SettingUp, At, Slot, M
<1>6. CASE s \notin buf_q.used
  <2>1. buf_q' = SubId(buf_q) /\ UNCHANGED <<net, id, crossed>>
    BY <1>2, <1>4, <1>6
  <2>2. /\ buf_q'.used = buf_q.used /\ buf_q'.free = buf_q.free
        /\ buf_q'.head = buf_q.head /\ buf_q'.max_idx = buf_q.max_idx
        /\ buf_q'.tail = buf_q.tail + 1
        /\ buf_q' \in Rings
    BY <1>3, <2>1 DEF SubId
  <2>3. \A i : At(i)' = At(i)
    BY <2>2 DEF At, Slot
  <2>4. StatesTyped' /\ PicturesTyped'
    BY <1>1, <2>1 DEF RingInv, StatesTyped, PicturesTyped
  <2>5. ~startled => buf_q.tail <= buf_q.head + M
    BY <1>1 DEF RingInv, TailBehind
  <2>6. RingTyped'
    BY <1>1, <1>3, <2>2, <2>5 DEF RingInv, RingTyped, M, Ids
  <2>7. SettingUp'
    <3>1. ~Mapping \/ startled
      BY <1>1 DEF RingInv, SettingUp
    <3>2. QED
      BY <1>1, <2>1, <2>2, <3>1 DEF RingInv, SettingUp, Mapping, M
  <2>8. HeadBehind'
    BY <1>1, <1>3, <2>2 DEF RingInv, HeadBehind
  <2>9. TailBehind'
    <3> SUFFICES ASSUME ~startled
                 PROVE  /\ buf_q'.tail <= buf_q'.head + M'
                        /\ buf_q'.tail = buf_q'.head + M'
                               => buf_q'.tail > 0 /\ (At(buf_q.tail - 1) = 0)'
      BY <1>1 DEF TailBehind
    <3>1. M \in Nat /\ M >= 2 /\ At(buf_q.tail) = 0
      BY <1>3, <1>5, <1>6, Mapped
    <3>2. buf_q.tail # buf_q.head + M
      <4> SUFFICES ASSUME buf_q.tail = buf_q.head + M PROVE FALSE
        OBVIOUS
      <4>1. buf_q.tail - 1 \in Nat /\ (buf_q.tail - 1) % M = 0
        BY <1>1, <1>3, <3>1 DEF RingInv, TailBehind, At, Slot, M
      <4>2. ((buf_q.tail - 1) + 1) % M # 0
        BY <3>1, <4>1, AfterZero
      <4>3. (buf_q.tail - 1) + 1 = buf_q.tail
        BY <1>3
      <4>4. QED
        BY <3>1, <4>2, <4>3 DEF At, Slot, M
    <3>3. M' = M /\ buf_q'.tail - 1 = buf_q.tail
      BY <1>3, <2>2 DEF M
    <3>4. (At(buf_q.tail - 1) = 0)'
      BY <2>2, <3>1, <3>3 DEF At, Slot
    <3>5. QED
      BY <1>3, <2>2, <2>5, <3>1, <3>2, <3>3, <3>4
  <2>10. Owned'
    BY <1>1, <2>1, <2>2, <2>3 DEF RingInv, Owned
  <2>11. QED
    BY <2>4, <2>6, <2>7, <2>8, <2>9, <2>10 DEF RingInv
<1>7. CASE s \in buf_q.used /\ net' = "decode" /\ id' = s /\ UNCHANGED buf_q
  <2>1. crossed' \in BOOLEAN
    BY <1>2, <1>3, <1>4, <1>7 DEF RingInv, StatesTyped, Full, Ids
  <2>2. StatesTyped' /\ PicturesTyped'
    BY <1>1, <1>3, <1>7, <2>1 DEF RingInv, StatesTyped, PicturesTyped
  <2>3. RingTyped'
    BY <1>1, <1>7 DEF RingInv, RingTyped
  <2>4. SettingUp'
    BY <1>1, <1>7 DEF RingInv, SettingUp, Mapping, M
  <2>5. HeadBehind' /\ TailBehind'
    BY <1>1, <1>7 DEF RingInv, HeadBehind, TailBehind, At, M
  <2>6. Owned'
    <3>1. startled' \/ s = At(buf_q.tail)'
      BY <1>1, <1>5, <1>7 DEF At
    <3> HIDE DEF s
    <3>2. QED
      BY <1>1, <1>7, <3>1 DEF RingInv, Owned
  <2>7. QED
    BY <2>2, <2>3, <2>4, <2>5, <2>6 DEF RingInv
<1>8. CASE net' = "recv" /\ UNCHANGED <<buf_q, id, crossed>>
  <2>1. StatesTyped' /\ PicturesTyped'
    BY <1>1, <1>8 DEF RingInv, StatesTyped, PicturesTyped
  <2>2. Rests
    BY <1>1, <1>8 DEF Rests
  <2>3. QED
    BY <2>1, <2>2, RingRests
<1>9. QED
  BY <1>2, <1>4, <1>6, <1>7, <1>8

\* The decoder steps over the buffer it has filled.
LEMMA AdvanceTailRing == RingInv /\ AdvanceTail => RingInv'
<1> SUFFICES ASSUME RingInv, AdvanceTail PROVE RingInv'
  OBVIOUS
<1>1. /\ net = "sub" /\ net' = "recv" /\ buf_q.tail <= MaxTail
      /\ UNCHANGED <<main, dec_obj, mapped, info, startled, crossed, gone>>
      /\ UNCHANGED <<buf, divisor, id, pic, shown, got>>
  BY DEF AdvanceTail, setupVars, showVars, histVars, RingInv, Owned
<1>2. buf_q \in Rings
  BY DEF RingInv, RingTyped
<1>3. /\ buf_q'.used = buf_q.used /\ buf_q'.free = buf_q.free
      /\ buf_q'.head = buf_q.head /\ buf_q'.max_idx = buf_q.max_idx
      /\ buf_q'.tail = buf_q.tail + 1
      /\ buf_q' \in Rings
  BY <1>2 DEF AdvanceTail, SubId
<1>4. StatesTyped' /\ PicturesTyped'
  BY <1>1 DEF RingInv, StatesTyped, PicturesTyped
<1>5. RingTyped'
  <2>1. ~startled => buf_q.tail <= buf_q.head + M
    BY <1>1 DEF RingInv, TailBehind
  <2>2. QED
    BY <1>1, <1>2, <1>3, <2>1 DEF RingInv, RingTyped, M, Ids
<1>6. SettingUp'
  <2>1. ~Mapping \/ startled
    BY <1>1 DEF RingInv, SettingUp
  <2>2. QED
    BY <1>1, <1>3, <2>1 DEF RingInv, SettingUp, Mapping
<1>7. HeadBehind'
  BY <1>1, <1>2, <1>3 DEF RingInv, HeadBehind
<1>8. TailBehind'
  BY <1>1 DEF TailBehind
<1>9. Owned'
  BY <1>1, <1>3 DEF RingInv, Owned
<1>10. QED
  BY <1>4, <1>5, <1>6, <1>7, <1>8, <1>9 DEF RingInv

\* Every step keeps the ring's invariant.
LEMMA RingStep == RingInv /\ [Next]_vars => RingInv'
<1> SUFFICES ASSUME RingInv, [Next]_vars PROVE RingInv'
  OBVIOUS
<1>1. CASE \E ok \in BOOLEAN : Decode(ok)
  <2>1. PicturesTyped'
    BY <1>1 DEF Decode, showVars, RingInv, PicturesTyped
  <2>2. StatesTyped'
    BY <1>1 DEF Decode, setupVars, histVars, RingInv, StatesTyped
  <2>3. Rests
    BY <1>1 DEF Decode, Rests, setupVars, showVars, histVars
  <2>4. QED
    BY <2>1, <2>2, <2>3, RingRests
<1>2. CASE Show
  <2>1. PicturesTyped'
    BY <1>2 DEF Show, netVars, ringVars, RingInv, PicturesTyped
  <2>2. StatesTyped'
    BY <1>2 DEF Show, setupVars, histVars, netVars, ringVars, RingInv, StatesTyped, MainStates,
                Showing
  <2>3. Rests
    BY <1>2 DEF Show, Rests, setupVars, histVars, netVars, ringVars, Mapping, Showing
  <2>4. QED
    BY <2>1, <2>2, <2>3, RingRests
<1>3. CASE DecoderInit \/ GetInfo \/ LookAtSlot \/ SendEvent \/ ClearSlot \/ EventThread \/ Exit
           \/ UNCHANGED vars
  <2>1. UNCHANGED <<mapped, buf_q, startled, crossed, divisor, id, pic, shown, got, buf, net, info>>
    BY <1>3 DEF DecoderInit, GetInfo, LookAtSlot, SendEvent, ClearSlot, EventThread, PollEvent,
                FillSlot, Exit, vars, setupVars, ringVars, showVars, netVars, histVars
  <2>2. PicturesTyped'
    BY <2>1 DEF RingInv, PicturesTyped
  <2>3. /\ main' \in MainStates /\ dec_obj' \in BOOLEAN /\ gone' \in BOOLEAN
        /\ main' = main \/ ((Mapping' <=> Mapping) /\ main' \notin {"mark", "advance"} \cup Showing)
    BY <1>3 DEF DecoderInit, decodec_init, GetInfo, LookAtSlot, SendEvent, ClearSlot, EventThread,
                PollEvent, FillSlot, Exit, vars, setupVars, histVars, RingInv, StatesTyped,
                MainStates, Mapping, Showing
  <2>4. StatesTyped'
    BY <2>1, <2>3 DEF RingInv, StatesTyped
  <2>5. Rests
    BY <2>1, <2>3 DEF Rests
  <2>6. QED
    BY <2>2, <2>4, <2>5, RingRests
<1>4. QED
  BY <1>1, <1>2, <1>3, MapBufferRing, GetBufRing, MarkBufRing, AdvanceHeadRing, PutFbRing,
     RecvPktRing, GetIdRing, AdvanceTailRing DEF Next, Main, Receive

\* Every variable of the SDL client keeps its type, and the ring of buffer ids
\* its bounds (TypeOK): the head is never more than one ahead of the tail, nor
\* the tail more than one turn ahead of the head once the buffers are mapped.
THEOREM SdlTypeCorrect == Spec => []TypeOK
<1>1. RingInv /\ SlotInv => TypeOK
  BY DEF RingInv, SlotInv, TypeOK
<1>2. QED
  BY <1>1, RingInit, RingStep, SlotInit, SlotStep, PTL DEF Spec
-----------------------------------------------------------------------------
(* A buffer on its way to the display is not decoded into.                  *)

\* When the display takes the slot the decoder is in, the unused slot was next
\* to it.
LEMMA Meeting ==
  ASSUME RingInv, main = "mark", net = "decode", ~startled, At(buf_q.head) = id
  PROVE  At(buf_q.tail - 1) = 0 /\ buf_q.tail - 1 \in Nat
<1>1. /\ buf_q.head <= buf_q.tail
      /\ buf_q.head = buf_q.tail => buf_q.head > 0 /\ At(buf_q.head - 1) = 0
  BY DEF RingInv, HeadBehind
<1>2. /\ buf_q.tail <= buf_q.head + M
      /\ buf_q.tail = buf_q.head + M => buf_q.tail > 0 /\ At(buf_q.tail - 1) = 0
  BY DEF RingInv, TailBehind
<1>3. /\ M \in Nat \ {0} /\ buf_q.head \in Nat /\ buf_q.tail \in Nat
      /\ id = At(buf_q.tail)
  BY Mapped DEF RingInv, SettingUp, Owned
<1>4. buf_q.head % M = buf_q.tail % M
  BY <1>3 DEF At, Slot, M
<1>5. buf_q.head = buf_q.tail \/ buf_q.tail = buf_q.head + M
  BY <1>1, <1>2, <1>3, <1>4, SameSlot
<1>6. QED
  BY <1>1, <1>2, <1>3, <1>5

\* The buffer the decoder takes is free.
LEMMA TakenFree ==
  ASSUME RingInv, GetId, net' = "decode"
  PROVE  /\ id' \in buf_q.free /\ net = "skip"
         /\ UNCHANGED <<main, buf, buf_q, pic, shown, got, startled>>
         /\ crossed' = (crossed \/ Full(buf_q))
<1>1. buf_q \in Rings
  BY DEF RingInv, RingTyped
<1>2. PICK d \in {divisor, buf_q.max_idx} :
          LET q == [buf_q EXCEPT !.max_idx = d]
              s == Slot(q, q.tail)
          IN IF s \notin q.used
             THEN buf_q' = SubId(buf_q) /\ UNCHANGED <<net, id, crossed>>
             ELSE IF TailFree(q)
             THEN /\ net' = "decode" /\ id' = s
                  /\ crossed' = (crossed \/ Full(buf_q))
                  /\ UNCHANGED buf_q
             ELSE net' = "recv" /\ UNCHANGED <<buf_q, id, crossed>>
  BY DEF GetId
<1>3. net = "skip" /\ UNCHANGED <<main, buf, pic, shown, got, startled>>
  BY DEF GetId, showVars
<1> DEFINE q == [buf_q EXCEPT !.max_idx = d]
<1>4. /\ TailFree(q) /\ id' = Slot(q, q.tail) /\ UNCHANGED buf_q
      /\ crossed' = (crossed \/ Full(buf_q))
  BY <1>2, <1>3
<1>5. q.free = buf_q.free
  BY <1>1
<1>6. QED
  BY <1>3, <1>4, <1>5 DEF TailFree

\* Every step keeps the display's buffer from the decoder.
LEMMA FramesStep == RingInv /\ FramesOwned /\ [Next]_vars => FramesOwned'
<1> SUFFICES ASSUME RingInv, FramesOwned, [Next]_vars,
                    net' = "decode", main' \in Showing, id' = buf', ~startled'
             PROVE  Slot(buf_q', buf_q'.tail - 1) \notin buf_q'.used
  BY DEF FramesOwned
<1>1. CASE MarkBuf
  <2>1. /\ main = "mark" /\ buf_q' = TakeHead(buf_q) /\ buf' = At(buf_q.head)
        /\ net = "decode" /\ ~startled /\ id' = id
    BY <1>1 DEF MarkBuf, netVars, histVars, Showing, At
  <2>2. At(buf_q.tail - 1) = 0 /\ buf_q.tail - 1 \in Nat
    BY <2>1, Meeting
  <2>3. At(buf_q.tail - 1) \notin buf_q.used
    BY <2>1, <2>2, Mapped DEF RingInv, SettingUp
  <2>4. buf_q \in Rings
    BY DEF RingInv, RingTyped
  <2>5. buf_q'.used = buf_q.used /\ buf_q'.tail = buf_q.tail /\ buf_q'.max_idx = buf_q.max_idx
    BY <2>1, <2>4 DEF TakeHead
  <2>6. QED
    BY <2>3, <2>5 DEF At, Slot
<1>2. CASE GetId
  BY <1>2, TakenFree DEF RingInv, Owned
<1>3. CASE AdvanceHead
  <2>1. /\ net = "decode" /\ main \in Showing /\ id = buf /\ ~startled
        /\ buf_q' = PassHead(buf_q)
    BY <1>3 DEF AdvanceHead, netVars, showVars, histVars, Showing
  <2>2. Slot(buf_q, buf_q.tail - 1) \notin buf_q.used
    BY <2>1 DEF FramesOwned
  <2>3. buf_q \in Rings
    BY DEF RingInv, RingTyped
  <2>4. buf_q'.used = buf_q.used /\ buf_q'.tail = buf_q.tail /\ buf_q'.max_idx = buf_q.max_idx
    BY <2>1, <2>3 DEF PassHead
  <2>5. QED
    BY <2>2, <2>4 DEF Slot
<1>4. CASE DecoderInit \/ MapBuffer \/ GetInfo \/ LookAtSlot \/ SendEvent \/ ClearSlot \/ GetBuf
           \/ PutFb
  BY <1>4 DEF DecoderInit, MapBuffer, GetInfo, LookAtSlot, SendEvent, ClearSlot, GetBuf, PutFb,
              Showing
<1>5. CASE RecvPkt \/ AdvanceTail \/ \E ok \in BOOLEAN : Decode(ok)
  BY <1>5 DEF RecvPkt, AdvanceTail, Decode
<1>6. CASE Show \/ EventThread \/ Exit \/ UNCHANGED vars
  <2>1. UNCHANGED <<net, id, buf, buf_q, startled>> /\ main \in Showing
    BY <1>6 DEF Show, EventThread, PollEvent, FillSlot, Exit, vars, netVars, ringVars, showVars,
                histVars, Showing
  <2>2. QED
    BY <2>1 DEF FramesOwned
<1>7. QED
  BY <1>1, <1>2, <1>3, <1>4, <1>5, <1>6 DEF Next, Main, Receive

\* A buffer on its way to the display is never written by the decoder, but for
\* the first one after the unused slot (FramesOwned): the decoder has a buffer
\* that was free, and the display one it has marked.
THEOREM DisplayOwnsItsBuffer == Spec => []FramesOwned
<1>1. Init => FramesOwned
  BY DEF Init, FramesOwned
<1>2. QED
  BY <1>1, FramesStep, RingInit, RingStep, PTL DEF Spec
-----------------------------------------------------------------------------
(* Pictures reach the display in their order.                               *)

OrderInv == RingInv /\ InOrder

\* What the order rests on, once the two threads can only meet in order.
LEMMA Basics ==
  ASSUME RingInv
  PROVE  /\ buf_q \in Rings /\ M \in Nat /\ got \in Nat /\ shown \in Nat
         /\ \A b \in Ids : pic[b] \in Nat
         /\ Unshown \subseteq Int /\ Lo \in Int
BY DEF RingInv, RingTyped, PicturesTyped, M, Ids, Unshown, Lo

\* The slots of pictures not shown yet are ids.
LEMMA Unshowns ==
  ASSUME RingInv, Taking, ~startled, NEW i \in Unshown
  PROVE  i \in Int /\ i >= Lo /\ i < buf_q.tail /\ pic[At(i)] \in Nat
<1>1. i \in Int /\ i >= Lo /\ i < buf_q.tail
  BY Basics DEF Unshown
<1>2. mapped = Buffers
  BY <1>1, Basics DEF RingInv, SettingUp, Lo, Mapping
<1>3. i \in Nat
  BY <1>1, Basics DEF Lo, Taking
<1>4. At(i) \in Ids
  BY <1>2, <1>3, Mapped DEF Ids
<1>5. QED
  BY <1>1, <1>4, Basics

\* A step that fills no buffer and takes no packet leaves the order as it is,
\* if the pictures not shown yet become no more.
LEMMA OrderKept ==
  ASSUME RingInv, Sorted, Later, Latest, Apart,
         UNCHANGED <<pic, shown, got, id>>,
         Unshown' \subseteq Unshown, \A i : At(i)' = At(i), M' = M,
         Lo' \in Int, Lo' >= Lo,
         net' = net \/ net' = "recv",
         net' \in {"decode", "sub"} => buf_q'.tail = buf_q.tail,
         Taking'
  PROVE  InOrder'
<1>1. Sorted'
  BY DEF Sorted
<1>2. Later'
  BY DEF Later
<1>3. Latest'
  BY DEF Latest
<1>4. Apart'
  <2>1. ASSUME net' \in {"decode", "sub"} PROVE buf_q'.tail < Lo' + M'
    <3>1. net \in {"decode", "sub"} /\ buf_q'.tail = buf_q.tail /\ buf_q.tail < Lo + M
      BY <2>1 DEF Apart
    <3>2. buf_q \in Rings /\ M \in Nat /\ Lo \in Int
      BY Basics
    <3>3. QED
      BY <3>1, <3>2
  <2>2. QED
    BY <2>1 DEF Apart
<1>5. QED
  BY <1>1, <1>2, <1>3, <1>4 DEF InOrder

\* The threads that neither decode nor display.
LEMMA OrderRests ==
  ASSUME OrderInv, UNCHANGED <<pic, shown, got, id, buf_q>>,
         net' = net \/ net' = "recv", crossed => crossed', startled' = startled,
         \/ main' = main /\ buf' = buf
         \/ main # "show" /\ main' \notin {"mark", "advance", "show"}
  PROVE  InOrder'
<1> SUFFICES ASSUME ~crossed, ~startled PROVE InOrder'
  BY DEF InOrder
<1>1. Sorted /\ Later /\ Latest /\ Apart /\ Taking /\ RingInv
  BY DEF OrderInv, InOrder
<1>2. /\ \A i : At(i)' = At(i)
      /\ M' = M /\ Lo' = Lo /\ Unshown' = Unshown
  BY DEF At, Slot, M, Lo, Unshown
<1>3. Taking'
  BY <1>1, <1>2 DEF Taking
<1>4. Lo \in Int
  BY <1>1, Basics
<1>5. QED
  BY <1>1, <1>2, <1>3, <1>4, OrderKept

\* While the buffers are mapped the ring is empty.
LEMMA OrderMap == OrderInv /\ MapBuffer => InOrder'
<1> SUFFICES ASSUME OrderInv, MapBuffer, ~crossed, ~startled PROVE InOrder'
  BY DEF MapBuffer, histVars, InOrder
<1>1. /\ main = "map" /\ main' \in {"map", "info"} /\ UNCHANGED <<pic, shown, got, id, net>>
      /\ buf_q' = SetStatus(buf_q, mapped, TRUE)
  BY DEF MapBuffer, showVars, netVars, svc_map_fb
<1>2. buf_q \in Rings /\ buf_q.head = 0 /\ buf_q.tail = 0 /\ net = "recv"
  BY <1>1 DEF OrderInv, RingInv, RingTyped, SettingUp, Mapping
<1>3. buf_q'.head = 0 /\ buf_q'.tail = 0
  BY <1>1, <1>2 DEF SetStatus
<1>4. Unshown' = {}
  <2>1. Lo' = 0
    BY <1>1, <1>3 DEF Lo
  <2>2. \A i \in Unshown' : i \in 0..0 - 1
    BY <1>3, <2>1 DEF Unshown
  <2>3. QED
    BY <2>2
<1>5. Sorted' /\ Later'
  BY <1>4 DEF Sorted, Later
<1>6. Latest' /\ Apart' /\ Taking'
  BY <1>1, <1>2 DEF Latest, Apart, Taking, OrderInv, InOrder
<1>7. QED
  BY <1>5, <1>6 DEF InOrder

\* A new packet comes after all that are decoded.
LEMMA OrderRecv == OrderInv /\ RecvPkt => InOrder'
<1> SUFFICES ASSUME OrderInv, RecvPkt, ~crossed, ~startled PROVE InOrder'
  <2>1. RecvPkt => crossed' = crossed /\ (startled => startled')
    BY DEF RecvPkt
  <2>2. QED
    BY <2>1 DEF InOrder
<1>1. Sorted /\ Later /\ Latest /\ Apart /\ Taking /\ RingInv
  BY DEF OrderInv, InOrder
<1>2. /\ got' = got + 1 /\ net = "recv" /\ net' \in {"recv", "skip"}
      /\ UNCHANGED <<main, buf_q, pic, buf, shown>>
  BY DEF RecvPkt, ringVars, showVars
<1>3. /\ \A i : At(i)' = At(i)
      /\ Unshown' = Unshown
  BY <1>2 DEF At, Slot, Lo, Unshown
<1>4. got \in Nat /\ shown \in Nat
  BY <1>1, Basics
<1>5. Sorted' /\ Taking' /\ Apart'
  BY <1>1, <1>2, <1>3 DEF Sorted, Taking, Apart
<1>6. Later'
  <2> SUFFICES ASSUME NEW i \in Unshown
               PROVE  shown < pic[At(i)] /\ pic[At(i)] <= got' /\ pic[At(i)] < got'
    BY <1>2, <1>3 DEF Later
  <2>1. shown < pic[At(i)] /\ pic[At(i)] <= got
    BY <1>1 DEF Later
  <2>2. pic[At(i)] \in Nat
    BY <1>1, <1>2, <1>4, Unshowns
  <2>3. QED
    BY <1>2, <1>4, <2>1, <2>2
<1>7. Latest'
  BY <1>1, <1>2, <1>4 DEF Latest
<1>8. QED
  BY <1>5, <1>6, <1>7 DEF InOrder

\* Stepping over slot 0 passes no picture.
LEMMA OrderGetBuf == OrderInv /\ GetBuf => InOrder'
<1> SUFFICES ASSUME OrderInv, GetBuf, ~crossed', ~startled' PROVE InOrder'
  BY DEF InOrder
<1>1. /\ main = "frame" /\ UNCHANGED <<buf, pic, shown, got, id, net, startled>>
      /\ crossed => crossed'
  BY DEF GetBuf, netVars
<1>2. CASE Empty(buf_q)
  <2>1. main' = "loop" /\ UNCHANGED buf_q
    BY <1>2 DEF GetBuf
  <2>2. QED
    BY <1>1, <2>1, OrderRests
<1>3. CASE ~Empty(buf_q)
  <2>1. /\ main' = "mark" /\ buf_q' = SkipHead(buf_q) /\ mapped = Buffers
        /\ RingInv /\ ~(buf_q'.head >= buf_q.tail)
    BY <1>1, <1>3 DEF GetBuf, OrderInv, RingInv, SettingUp, Mapping
  <2>2. Sorted /\ Later /\ Latest /\ Apart
    BY <1>1 DEF OrderInv, InOrder
  <2>3. NextUsed(buf_q, buf_q.head) = IF At(buf_q.head) = 0 THEN buf_q.head + 1 ELSE buf_q.head
    BY <2>1, Mapped, NextUsedOver DEF At, M
  <2>4. buf_q \in Rings
    BY <2>1, Basics
  <2>5. /\ buf_q'.tail = buf_q.tail /\ buf_q'.max_idx = buf_q.max_idx
        /\ buf_q'.head \in Nat /\ buf_q'.head >= buf_q.head
    BY <2>1, <2>3, <2>4 DEF SkipHead
  <2>6. (\A i : At(i)' = At(i)) /\ M' = M
    BY <2>5 DEF At, Slot, M
  <2>7. Lo' = buf_q'.head /\ Lo = buf_q.head
    BY <1>1, <2>1 DEF Lo
  <2>8. Unshown' \subseteq Unshown
    <3>1. Lo'..buf_q'.tail - 1 \subseteq Lo..buf_q.tail - 1
      BY <2>4, <2>5, <2>7
    <3>2. QED
      BY <2>6, <3>1 DEF Unshown
  <2>9. Taking'
    BY <2>1, <2>4, <2>5 DEF Taking
  <2>10. QED
    BY <1>1, <2>1, <2>2, <2>5, <2>6, <2>7, <2>8, <2>9, OrderKept
<1>4. QED
  BY <1>2, <1>3

\* Taking the buffer at the head, stepping over it and giving it back pass no
\* picture: at the head it is still to be shown, and behind it once it is shown.
LEMMA OrderDisplay ==
  ASSUME OrderInv, MarkBuf \/ AdvanceHead \/ PutFb
  PROVE  InOrder'
<1> SUFFICES ASSUME ~crossed, ~startled PROVE InOrder'
  BY DEF MarkBuf, AdvanceHead, PutFb, histVars, InOrder
<1>1. UNCHANGED <<pic, shown, got, id, net, startled, crossed>>
  BY DEF MarkBuf, AdvanceHead, PutFb, histVars, netVars, showVars
<1>2. RingInv /\ Sorted /\ Later /\ Latest /\ Apart /\ Taking
  BY DEF OrderInv, InOrder
<1>3. buf_q \in Rings
  BY <1>2, Basics
<1>4. ASSUME buf_q'.tail = buf_q.tail, buf_q'.max_idx = buf_q.max_idx, Lo' = Lo, Taking'
      PROVE  InOrder'
  <2>1. (\A i : At(i)' = At(i)) /\ M' = M
    BY <1>4 DEF At, Slot, M
  <2>2. Unshown' = Unshown
    BY <1>4, <2>1 DEF Unshown
  <2>3. Lo \in Int
    BY <1>2, Basics
  <2>4. QED
    BY <1>1, <1>2, <1>4, <2>1, <2>2, <2>3, OrderKept
<1>5. CASE MarkBuf /\ ~HeadFree(buf_q)
  BY <1>1, <1>5, OrderRests DEF MarkBuf
<1>6. CASE MarkBuf /\ HeadFree(buf_q)
  <2>1. /\ main = "mark" /\ main' = "advance" /\ buf' = At(buf_q.head)
        /\ buf_q' = TakeHead(buf_q)
    BY <1>6 DEF MarkBuf, At
  <2>2. /\ buf_q'.head = buf_q.head /\ buf_q'.tail = buf_q.tail
        /\ buf_q'.max_idx = buf_q.max_idx
    BY <1>3, <2>1 DEF TakeHead
  <2>3. Lo' = Lo
    BY <2>1, <2>2 DEF Lo
  <2>4. Taking'
    BY <1>2, <2>1, <2>2 DEF Taking, At, Slot
  <2>5. QED
    BY <1>4, <2>2, <2>3, <2>4
<1>7. CASE AdvanceHead
  <2>1. /\ main = "advance" /\ main' = "show" /\ buf' = buf /\ buf_q' = PassHead(buf_q)
    BY <1>7 DEF AdvanceHead, showVars
  <2>2. /\ buf_q'.head = buf_q.head + 1 /\ buf_q'.tail = buf_q.tail
        /\ buf_q'.max_idx = buf_q.max_idx /\ buf_q.head \in Nat
    BY <1>3, <2>1 DEF PassHead
  <2>3. Lo' = Lo
    BY <2>1, <2>2 DEF Lo
  <2>4. Taking'
    <3>1. buf_q.head < buf_q.tail /\ buf = At(buf_q.head)
      BY <1>2, <2>1 DEF Taking
    <3>2. buf_q'.head - 1 = buf_q.head
      BY <2>2
    <3>3. At(buf_q.head - 1)' = At(buf_q.head)
      BY <2>2, <3>2 DEF At, Slot
    <3>4. QED
      BY <2>1, <2>2, <3>1, <3>2, <3>3 DEF Taking
  <2>5. QED
    BY <1>4, <2>2, <2>3, <2>4
<1>8. CASE PutFb
  <2>1. main = "put" /\ main' = "loop" /\ buf_q' = PutBuf(buf_q, buf)
    BY <1>8 DEF PutFb
  <2>2. /\ buf_q'.head = buf_q.head /\ buf_q'.tail = buf_q.tail
        /\ buf_q'.max_idx = buf_q.max_idx
    BY <1>3, <2>1 DEF PutBuf
  <2>3. Lo' = Lo
    BY <2>1, <2>2 DEF Lo
  <2>4. Taking'
    BY <2>1 DEF Taking
  <2>5. QED
    BY <1>4, <2>2, <2>3, <2>4
<1>9. QED
  BY <1>5, <1>6, <1>7, <1>8

\* The picture shown is the first of those not shown yet.
LEMMA OrderShow ==
  ASSUME OrderInv, Show
  PROVE  InOrder' /\ (~crossed /\ ~startled => shown' > shown)
<1> SUFFICES ASSUME ~crossed, ~startled PROVE InOrder' /\ shown' > shown
  BY DEF Show, histVars, InOrder
<1>1. /\ main = "show" /\ main' = "put" /\ shown' = pic[buf]
      /\ UNCHANGED <<buf_q, pic, buf, got, id, net>>
  BY DEF Show, ringVars, netVars
<1>2. RingInv /\ Sorted /\ Later /\ Latest /\ Apart /\ Taking
  BY DEF OrderInv, InOrder
<1>3. /\ buf_q \in Rings /\ M \in Nat /\ got \in Nat /\ shown \in Nat
  BY <1>2, Basics
<1> DEFINE h == buf_q.head - 1
<1>4. buf_q.head > 0 /\ h < buf_q.tail /\ buf = At(h) /\ h \in Nat
  BY <1>1, <1>2, <1>3 DEF Taking
<1>5. Lo = h /\ Lo' = buf_q.head
  BY <1>1 DEF Lo
<1>6. (\A i : At(i)' = At(i)) /\ M' = M
  BY <1>1 DEF At, Slot, M
<1>7. At(h) # 0
  BY <1>1, <1>2, <1>4 DEF RingInv, Owned, Showing, RingTyped
<1> HIDE DEF h
<1>8. h \in Unshown
  BY <1>3, <1>4, <1>5, <1>7 DEF Unshown
<1>9. \A i \in Unshown' : i \in Unshown /\ h < i
  <2>1. buf_q.head = h + 1
    BY <1>3 DEF h
  <2>2. QED
    BY <1>1, <1>3, <1>4, <1>5, <1>6, <2>1 DEF Unshown
<1>10. shown' \in Nat /\ shown < shown' /\ shown' <= got /\ (net # "recv" => shown' < got)
  <2>1. pic[At(h)] \in Nat
    BY <1>2, <1>8, Unshowns
  <2>2. QED
    BY <1>1, <1>2, <1>4, <1>8, <2>1 DEF Later
<1>11. Sorted'
  BY <1>1, <1>2, <1>6, <1>9 DEF Sorted
<1>12. Later'
  <2> SUFFICES ASSUME NEW i \in Unshown'
               PROVE  /\ shown' < pic[At(i)] /\ pic[At(i)] <= got
                      /\ net # "recv" => pic[At(i)] < got
    BY <1>1, <1>6 DEF Later
  <2>1. i \in Unshown /\ h < i
    BY <1>9
  <2>2. pic[At(h)] < pic[At(i)]
    BY <1>2, <1>8, <2>1 DEF Sorted
  <2>3. QED
    BY <1>1, <1>2, <1>4, <2>1, <2>2 DEF Later
<1>13. Latest'
  BY <1>1, <1>10 DEF Latest
<1>14. Apart'
  <2>1. Lo' = Lo + 1
    BY <1>3, <1>5 DEF h
  <2>2. Lo \in Int
    BY <1>4, <1>5
  <2>3. QED
    BY <1>1, <1>2, <1>3, <1>6, <2>1, <2>2 DEF Apart
<1>15. Taking'
  BY <1>1 DEF Taking
<1>16. QED
  BY <1>3, <1>10, <1>11, <1>12, <1>13, <1>14, <1>15 DEF InOrder

\* Before it takes a free buffer, the decoder steps over slot 0 at most.
LEMMA GetIdCases ==
  ASSUME RingInv, GetId, ~startled
  PROVE  /\ net = "skip" /\ UNCHANGED <<main, buf, pic, shown, got, startled>>
         /\ \/ /\ At(buf_q.tail) = 0 /\ buf_q' = SubId(buf_q)
               /\ UNCHANGED <<net, id, crossed>>
            \/ net' = "decode"
            \/ net' = "recv" /\ UNCHANGED <<buf_q, id, crossed>>
<1>1. /\ net = "skip" /\ UNCHANGED <<main, buf, pic, shown, got, startled>>
  BY DEF GetId, showVars
<1>2. mapped = Buffers /\ divisor = M /\ buf_q \in Rings
  BY <1>1, Basics DEF RingInv, SettingUp
<1>3. [buf_q EXCEPT !.max_idx = M] = buf_q
  BY <1>2 DEF M
<1>4. LET q == buf_q
          s == Slot(q, q.tail)
      IN IF s \notin q.used
         THEN buf_q' = SubId(buf_q) /\ UNCHANGED <<net, id, crossed>>
         ELSE IF TailFree(q)
         THEN /\ net' = "decode" /\ id' = s
              /\ crossed' = (crossed \/ Full(buf_q))
              /\ UNCHANGED buf_q
         ELSE net' = "recv" /\ UNCHANGED <<buf_q, id, crossed>>
  <2>1. \A d \in {divisor, buf_q.max_idx} : [buf_q EXCEPT !.max_idx = d] = buf_q
    BY <1>2, <1>3 DEF M
  <2>2. QED
    BY <2>1 DEF GetId
<1>5. At(buf_q.tail) \in buf_q.used <=> At(buf_q.tail) # 0
  BY <1>2, Mapped
<1>6. QED
  BY <1>1, <1>4, <1>5 DEF At

\* The decoder takes a buffer that holds no picture still to be shown.
LEMMA OrderGetId == OrderInv /\ GetId => InOrder'
<1> SUFFICES ASSUME OrderInv, GetId, ~crossed', ~startled' PROVE InOrder'
  BY DEF InOrder
<1>1. ~startled /\ RingInv
  BY DEF GetId, OrderInv
<1>2. buf_q \in Rings /\ Lo \in Int /\ M \in Nat /\ M >= 2
  <2>1. mapped = Buffers
    BY <1>1 DEF GetId, RingInv, SettingUp
  <2>2. QED
    BY <1>1, <2>1, Basics, Mapped
<1>3. net = "skip" /\ UNCHANGED <<main, buf, pic, shown, got, startled>>
  BY <1>1, GetIdCases
<1>4. CASE /\ At(buf_q.tail) = 0 /\ buf_q' = SubId(buf_q)
           /\ UNCHANGED <<net, id, crossed>>
  <2>1. Sorted /\ Later /\ Latest /\ Apart /\ Taking
    BY <1>1, <1>4 DEF OrderInv, InOrder
  <2>2. /\ buf_q'.head = buf_q.head /\ buf_q'.max_idx = buf_q.max_idx
        /\ buf_q'.tail = buf_q.tail + 1
    BY <1>2, <1>4 DEF SubId
  <2>3. (\A i : At(i)' = At(i)) /\ M' = M /\ Lo' = Lo
    BY <1>3, <2>2 DEF At, Slot, M, Lo
  <2>4. Unshown' \subseteq Unshown
    <3> SUFFICES ASSUME NEW i \in Unshown' PROVE i \in Unshown
      OBVIOUS
    <3>1. i \in Lo..buf_q.tail /\ At(i) # 0
      BY <1>2, <2>2, <2>3 DEF Unshown
    <3>2. i # buf_q.tail
      BY <1>4, <3>1
    <3>3. QED
      BY <1>2, <3>1, <3>2 DEF Unshown
  <2>5. Taking'
    BY <1>2, <1>3, <2>1, <2>2, <2>3 DEF Taking, At, Slot
  <2>6. QED
    BY <1>1, <1>2, <1>3, <1>4, <2>1, <2>3, <2>4, <2>5, OrderKept
<1>5. CASE net' = "decode"
  <2>1. /\ id' \in buf_q.free /\ UNCHANGED buf_q /\ ~crossed /\ ~Full(buf_q)
    BY <1>1, <1>5, TakenFree
  <2>2. Sorted /\ Later /\ Latest /\ Apart /\ Taking
    BY <1>1, <2>1 DEF OrderInv, InOrder
  <2>3. (\A i : At(i)' = At(i)) /\ M' = M /\ Lo' = Lo /\ Unshown' = Unshown
    BY <1>3, <2>1 DEF At, Slot, M, Lo, Unshown
  <2>4. Sorted' /\ Later' /\ Latest' /\ Taking'
    BY <1>3, <1>5, <2>1, <2>2, <2>3 DEF Sorted, Later, Latest, Taking
  <2>5. buf_q.tail < buf_q.head + M
    BY <1>2, <2>1 DEF Full, M
  <2>6. buf_q.tail < Lo + M
    <3>1. CASE main # "show"
      BY <2>5, <3>1 DEF Lo
    <3>2. CASE main = "show"
      <4> DEFINE h == buf_q.head - 1
      <4>1. /\ h \in Nat /\ buf = At(h) /\ buf \notin buf_q.free /\ M \in Nat \ {0}
        BY <1>1, <1>2, <2>2, <3>2 DEF Taking, RingInv, Owned, Showing
      <4>2. (h + M) % M = h % M
        BY <4>1, NextTurn
      <4>3. At(h + M) = At(h)
        BY <4>2 DEF At, Slot, M
      <4>4. id' = At(buf_q.tail)
        <5>1. RingInv'
          BY <1>1, GetIdRing
        <5>2. QED
          BY <1>5, <2>1, <2>3, <5>1 DEF RingInv, Owned, At
      <4>5. buf_q.tail # h + M
        BY <2>1, <4>1, <4>3, <4>4
      <4>6. QED
        BY <1>2, <2>5, <3>2, <4>5 DEF Lo
    <3>3. QED
      BY <3>1, <3>2
  <2>7. Apart'
    BY <1>5, <2>1, <2>3, <2>6 DEF Apart
  <2>8. QED
    BY <2>4, <2>7 DEF InOrder
<1>6. CASE net' = "recv" /\ UNCHANGED <<buf_q, id, crossed>>
  BY <1>3, <1>6, OrderRests
<1>7. QED
  BY <1>1, <1>4, <1>5, <1>6, GetIdCases

\* The buffer decoded into is none of those still to be shown.
LEMMA OrderDecode ==
  ASSUME OrderInv, NEW ok \in BOOLEAN, Decode(ok)
  PROVE  InOrder'
<1> SUFFICES ASSUME ~crossed, ~startled PROVE InOrder'
  BY DEF Decode, histVars, InOrder
<1>1. /\ net = "decode" /\ UNCHANGED <<main, buf_q, buf, shown, got, id, startled, crossed>>
  BY DEF Decode, showVars, histVars
<1>2. CASE ~ok
  <2>1. net' = "recv" /\ UNCHANGED pic
    BY <1>2 DEF Decode
  <2>2. QED
    BY <1>1, <2>1, OrderRests
<1>3. CASE ok
  <2>1. net' = "sub" /\ pic' = [pic EXCEPT ![id] = got]
    BY <1>3 DEF Decode
  <2>2. RingInv /\ Sorted /\ Later /\ Latest /\ Apart /\ Taking
    BY DEF OrderInv, InOrder
  <2>3. /\ buf_q \in Rings /\ M \in Nat /\ M >= 2 /\ Lo \in Int /\ mapped = Buffers
        /\ id = At(buf_q.tail) /\ id \in Ids /\ pic \in [Ids -> 0..MaxVideo]
    BY <1>1, <2>2, Basics, Mapped DEF RingInv, SettingUp, Owned, PicturesTyped
  <2>4. (\A i : At(i)' = At(i)) /\ M' = M /\ Lo' = Lo /\ Unshown' = Unshown
    BY <1>1 DEF At, Slot, M, Lo, Unshown
  <2>5. \A i \in Unshown : pic'[At(i)] = pic[At(i)]
    <3> SUFFICES ASSUME NEW i \in Unshown PROVE At(i) # id
      BY <2>1, <2>3
    <3>1. i \in Nat /\ i >= Lo /\ i < buf_q.tail
      BY <2>2, <2>3, Unshowns DEF Lo, Taking
    <3>2. buf_q.tail < Lo + M
      BY <1>1, <2>2 DEF Apart
    <3>3. i < buf_q.tail /\ buf_q.tail < i + M
      BY <2>3, <3>1, <3>2
    <3>4. i % M # buf_q.tail % M
      BY <2>3, <3>1, <3>3, SameSlot
    <3>5. QED
      BY <2>3, <3>4 DEF At, Slot, M
  <2>6. Sorted'
    BY <2>2, <2>4, <2>5 DEF Sorted
  <2>7. Later' /\ Latest'
    BY <1>1, <2>1, <2>2, <2>4, <2>5 DEF Later, Latest
  <2>8. Apart'
    BY <1>1, <2>1, <2>2, <2>3, <2>4 DEF Apart
  <2>9. Taking'
    BY <1>1, <2>2, <2>4 DEF Taking, At, Slot
  <2>10. QED
    BY <2>6, <2>7, <2>8, <2>9 DEF InOrder
<1>4. QED
  BY <1>2, <1>3

\* The picture decoded last is the last of those to be shown.
LEMMA OrderAdvanceTail == OrderInv /\ AdvanceTail => InOrder'
<1> SUFFICES ASSUME OrderInv, AdvanceTail, ~crossed, ~startled PROVE InOrder'
  BY DEF AdvanceTail, histVars, InOrder
<1>1. /\ net = "sub" /\ net' = "recv" /\ buf_q' = SubId(buf_q)
      /\ UNCHANGED <<main, buf, pic, shown, got, id>>
  BY DEF AdvanceTail, showVars
<1>2. RingInv /\ Sorted /\ Later /\ Latest /\ Apart /\ Taking
  BY DEF OrderInv, InOrder
<1> DEFINE t == buf_q.tail
<1>3. /\ buf_q \in Rings /\ Lo \in Int /\ got \in Nat /\ shown \in Nat
      /\ pic[At(t)] = got
  BY <1>1, <1>2, Basics DEF RingInv, Owned, Apart
<1>4. /\ buf_q'.head = buf_q.head /\ buf_q'.max_idx = buf_q.max_idx
      /\ buf_q'.tail = t + 1
  BY <1>1, <1>3 DEF SubId
<1>5. (\A i : At(i)' = At(i)) /\ M' = M /\ Lo' = Lo
  BY <1>1, <1>4 DEF At, Slot, M, Lo
<1>6. \A i \in Unshown' : i \in Unshown \/ i = t
  BY <1>3, <1>4, <1>5 DEF Unshown
<1>7. \A i \in Unshown : i \in Int /\ i < t /\ shown < pic[At(i)] /\ pic[At(i)] < got
  BY <1>1, <1>2, Unshowns DEF Later
<1>8. shown < got
  BY <1>1, <1>2 DEF Latest
<1>9. t \in Nat
  BY <1>3
<1> HIDE DEF t
<1>10. Sorted'
  <2> SUFFICES ASSUME NEW i \in Unshown', NEW j \in Unshown', i < j
               PROVE  pic[At(i)] < pic[At(j)]
    BY <1>1, <1>5 DEF Sorted
  <2>1. CASE i \in Unshown /\ j \in Unshown
    BY <1>2, <2>1 DEF Sorted
  <2>2. CASE i \in Unshown /\ j = t
    BY <1>3, <1>7, <2>2
  <2>3. CASE i = t
    BY <1>6, <1>7, <1>9, <2>3
  <2>4. QED
    BY <1>6, <2>1, <2>2, <2>3
<1>11. Later'
  <2> SUFFICES ASSUME NEW i \in Unshown'
               PROVE  shown < pic[At(i)] /\ pic[At(i)] <= got
    BY <1>1, <1>5 DEF Later
  <2>1. CASE i \in Unshown
    BY <1>2, <2>1 DEF Later
  <2>2. CASE i = t
    BY <1>3, <1>8, <2>2
  <2>3. QED
    BY <1>6, <2>1, <2>2
<1>12. Latest' /\ Apart'
  BY <1>1, <1>2 DEF Latest, Apart
<1>13. Taking'
  BY <1>1, <1>2, <1>3, <1>4, <1>5 DEF Taking, At, Slot, t
<1>14. QED
  BY <1>10, <1>11, <1>12, <1>13 DEF InOrder

\* Every step keeps the pictures in their order.
LEMMA OrderStep == OrderInv /\ [Next]_vars => OrderInv'
<1> SUFFICES ASSUME OrderInv, [Next]_vars PROVE OrderInv'
  OBVIOUS
<1>1. RingInv'
  BY RingStep DEF OrderInv
<1>2. CASE DecoderInit \/ GetInfo \/ LookAtSlot \/ SendEvent \/ ClearSlot \/ EventThread \/ Exit
           \/ UNCHANGED vars
  <2>1. UNCHANGED <<pic, shown, got, id, buf_q, net, crossed, startled>>
    BY <1>2 DEF DecoderInit, GetInfo, LookAtSlot, SendEvent, ClearSlot, EventThread, PollEvent,
                FillSlot, Exit, vars, setupVars, ringVars, showVars, netVars, histVars
  <2>2. \/ main' = main /\ buf' = buf
        \/ main # "show" /\ main' \notin {"mark", "advance", "show"}
    BY <1>2 DEF DecoderInit, GetInfo, LookAtSlot, SendEvent, ClearSlot, EventThread, PollEvent,
                FillSlot, Exit, vars, setupVars, ringVars, showVars, netVars, histVars
  <2>3. InOrder'
    BY <2>1, <2>2, OrderRests
  <2>4. QED
    BY <1>1, <2>3 DEF OrderInv
<1>3. QED
  BY <1>1, <1>2, OrderMap, OrderRecv, OrderGetBuf, OrderDisplay, OrderShow, OrderGetId,
     OrderDecode, OrderAdvanceTail DEF OrderInv, Next, Main, Receive

\* Pictures reach the display in the order of the stream, unless head and tail
\* have met over the unused slot or a packet came before the buffers were
\* mapped (PicturesInOrder): what is between them is sorted, and the decoder's
\* buffer is never one of those between.
THEOREM PicturesComeInOrder == Spec => PicturesInOrder
<1>1. Init => OrderInv
  <2> SUFFICES ASSUME Init PROVE InOrder
    BY RingInit DEF OrderInv
  <2>1. Unshown = {}
    <3>1. Lo = 0 /\ buf_q.tail = 0
      BY DEF Init, Lo, EmptyQueue
    <3>2. \A i \in Unshown : i \in 0..0 - 1
      BY <3>1 DEF Unshown
    <3>3. QED
      BY <3>2
  <2>2. QED
    BY <2>1 DEF Init, InOrder, Sorted, Later, Latest, Apart, Taking
<1>2. OrderInv /\ [Next]_vars
          => [shown' # shown => shown' > shown \/ crossed \/ startled]_vars
  <2> SUFFICES ASSUME OrderInv, [Next]_vars, shown' # shown
               PROVE  shown' > shown \/ crossed \/ startled
    OBVIOUS
  <2>1. Show
    BY DEF Next, Main, DecoderInit, MapBuffer, GetInfo, LookAtSlot, SendEvent, ClearSlot, GetBuf,
           MarkBuf, AdvanceHead, PutFb, RecvPkt, Receive, GetId, Decode, AdvanceTail, EventThread,
           PollEvent, FillSlot, Exit, vars, showVars
  <2>2. QED
    BY <2>1, OrderShow
<1>3. QED
  BY <1>1, <1>2, OrderStep, PTL DEF Spec, PicturesInOrder
=============================================================================
