-------------------------- MODULE DataQueue_proofs --------------------------
(***************************************************************************)
(* For every size of the ring, every choice of lengths and any number of   *)
(* bytes: the two sides of the queue never touch the same byte, and the    *)
(* queue implements ByteStream.                                            *)
(***************************************************************************)
EXTENDS DataQueue, TLAPS

-----------------------------------------------------------------------------
(* Two stream positions less than Size apart do not share a slot.          *)

\* A position is its slot and whole turns of the ring.
LEMMA DivMod ==
  \A a \in Nat : /\ a % Size \in 0..(Size - 1)
                 /\ a = Size * (a \div Size) + (a % Size)
                 /\ (a \div Size) \in Nat
BY SizeAssumption

\* A whole turn or more is at least the ring's size.
LEMMA Multiple == \A q \in Int : q >= 1 => Size * q >= Size
BY SizeAssumption

\* Positions less than a turn apart are in different slots.
LEMMA SameSlot ==
  ASSUME NEW a \in Nat, NEW b \in Nat, a % Size = b % Size,
         a - b < Size, b - a < Size
  PROVE  a = b
<1> DEFINE qa == a \div Size
           qb == b \div Size
<1>1. /\ qa \in Int /\ qb \in Int
      /\ a - b = Size * qa - Size * qb
  BY SizeAssumption, DivMod
<1> HIDE DEF qa, qb
<1>2. /\ Size * qa - Size * qb = Size * (qa - qb)
      /\ Size * qb - Size * qa = Size * (qb - qa)
      /\ Size * qa \in Int /\ Size * qb \in Int
      /\ qa - qb \in Int /\ qb - qa \in Int
  BY <1>1, SizeAssumption
<1>3. ~ (qa - qb >= 1)
  BY <1>1, <1>2, Multiple, SizeAssumption
<1>4. ~ (qb - qa >= 1)
  BY <1>1, <1>2, Multiple, SizeAssumption
<1>5. qa = qb
  BY <1>1, <1>3, <1>4
<1>6. Size * qa - Size * qb = 0
  BY <1>2, <1>5
<1> QED BY <1>1, <1>6

-----------------------------------------------------------------------------
(* What the copies do.                                                     *)

\* A copy of at most Size bytes puts each of them in its slot, and leaves the
\* bytes less than Size below its end where they were.
LEMMA WrittenInPlace ==
  ASSUME NEW from \in Nat, NEW n \in Nat, n <= Size,
         buffer_queue \in [0..(Size - 1) -> Int],
         buffer_queue' = Written(from, n)
  PROVE  /\ buffer_queue' \in [0..(Size - 1) -> Int]
         /\ InPlace(from, n)'
         /\ \A k \in Nat : k < from /\ from + n <= k + Size
              => buffer_queue'[k % Size] = buffer_queue[k % Size]
<1> DEFINE Hit(s) == \E i \in from .. (from + n - 1) : i % Size = s
           At(s) == CHOOSE i \in from .. (from + n - 1) : i % Size = s
<1>1. buffer_queue' = [s \in 0..(Size - 1) |->
                          IF Hit(s) THEN At(s) ELSE buffer_queue[s]]
  BY DEF Written
<1>2. \A s : Hit(s) => At(s) \in from .. (from + n - 1) /\ At(s) % Size = s
  OBVIOUS
<1> HIDE DEF At
<1>3. buffer_queue' \in [0..(Size - 1) -> Int]
  <2>1. \A s : Hit(s) => At(s) \in Int
    BY <1>2
  <2> HIDE DEF Hit
  <2> QED BY <1>1, <2>1
<1>4. ASSUME NEW i \in from .. (from + n - 1)
      PROVE  buffer_queue'[i % Size] = i
  <2>a. i \in Nat
    OBVIOUS
  <2>1. i \in Nat /\ i % Size \in 0..(Size - 1)
    BY <2>a, DivMod
  <2>2. Hit(i % Size)
    OBVIOUS
  <2>3. /\ At(i % Size) \in from .. (from + n - 1)
        /\ At(i % Size) % Size = i % Size
    BY <1>2, <2>2
  <2>4. At(i % Size) = i
    <3> DEFINE j == At(i % Size)
    <3>a. j \in from .. (from + n - 1) /\ j % Size = i % Size
      BY <2>3
    <3> HIDE DEF j
    <3>1. j \in Nat /\ j - i < Size /\ i - j < Size /\ j % Size = i % Size
      BY <3>a, <2>1, SizeAssumption
    <3>2. j = i
      BY <3>1, <2>1, SameSlot
    <3> QED BY <3>2 DEF j
  <2> HIDE DEF Hit
  <2> QED BY <1>1, <2>1, <2>2, <2>4
<1>5. ASSUME NEW k \in Nat, k < from, from + n <= k + Size
      PROVE  buffer_queue'[k % Size] = buffer_queue[k % Size]
  <2>1. k % Size \in 0..(Size - 1)
    BY DivMod
  <2>2. ~ Hit(k % Size)
    <3>1. SUFFICES ASSUME NEW i \in from .. (from + n - 1),
                          i % Size = k % Size
                   PROVE  FALSE
      OBVIOUS
    <3>2. i \in Nat /\ i - k < Size /\ k - i < Size
      BY <1>5, SizeAssumption
    <3>3. i = k
      BY <3>1, <3>2, SameSlot
    <3> QED BY <3>3, <1>5
  <2> HIDE DEF Hit
  <2> QED BY <1>1, <2>1, <2>2
<1> QED
  BY <1>3, <1>4, <1>5 DEF InPlace

-----------------------------------------------------------------------------
(* IInv is inductive.                                                      *)

USE SizeAssumption, LensAssumption, MaxBytesAssumption

\* The types and the counters say nothing of the content of the array.
CountersOK == TypeOK /\ CopiesDisjoint /\ PartOfCall(writer) /\ PartOfCall(reader)

ContentsOK ==
    /\ InPlace(buffer_tail, buffer_head - buffer_tail)
    /\ writer.pc = "advance" => InPlace(buffer_head, writer.n)
    /\ reader.pc = "advance" =>
           dst = [i \in buffer_tail .. (buffer_tail + reader.n - 1) |-> i]

\* The invariant is what it says of the counters and what it says of the bytes.
LEMMA Split == IInv <=> CountersOK /\ ContentsOK
BY DEF IInv, CountersOK, ContentsOK

\* From any slot there is at least one byte to the end of the ring.
LEMMA ToEnd ==
  ASSUME NEW a \in Nat
  PROVE  Size - (a % Size) \in 1..Size
BY DivMod

\* The counters are right at first.
LEMMA CountersInit == Init => CountersOK
BY DEF Init, CountersOK, TypeOK, CopiesDisjoint, PartOfCall, Calls, Idle

\* The steps that change only the record of a call.
LEMMA CountersChecks ==
  ASSUME CountersOK,
         \/ \E len \in Lens : EnqueueCheck(len) \/ DequeueCheck(len)
         \/ RecvWindow
         \/ SendWindow
  PROVE  CountersOK'
<1> USE DEF CountersOK, TypeOK, CopiesDisjoint, PartOfCall, Calls
<1>1. ASSUME NEW len \in Lens, EnqueueCheck(len)
      PROVE  CountersOK'
  BY <1>1 DEF EnqueueCheck, queue_get_free_count
<1>2. ASSUME NEW len \in Lens, DequeueCheck(len)
      PROVE  CountersOK'
  BY <1>2 DEF DequeueCheck, get_queue_data_count
<1>3. CASE RecvWindow
  <2>1. Size - (buffer_head % Size) \in 1..Size
    BY ToEnd
  <2>2. /\ queue_get_end_free_count \in Nat
        /\ buffer_head + queue_get_end_free_count <= buffer_tail + Size
    BY <2>1 DEF queue_get_end_free_count, queue_get_free_count, MinOf
  <2> QED BY <1>3, <2>2 DEF RecvWindow
<1>4. CASE SendWindow
  <2>1. Size - (buffer_tail % Size) \in 1..Size
    BY ToEnd
  <2>2. /\ queue_get_end_data_count \in Nat
        /\ buffer_tail + queue_get_end_data_count <= buffer_head
    BY <2>1 DEF queue_get_end_data_count, get_queue_data_count, MinOf
  <2> QED BY <1>4, <2>2 DEF SendWindow
<1> QED BY <1>1, <1>2, <1>3, <1>4

\* The copies.
LEMMA CopyLength ==
  ASSUME NEW left \in Nat, NEW a \in Nat
  PROVE  /\ MinOf(left, Size - (a % Size)) \in Nat
         /\ MinOf(left, Size - (a % Size)) <= left
         /\ MinOf(left, Size - (a % Size)) <= Size
BY ToEnd DEF MinOf

\* The steps that copy bytes leave the counters right.
LEMMA CountersCopies ==
  ASSUME CountersOK,
         \/ EnqueueCopy
         \/ \E k \in 0..Size : RecvFill(k) \/ SendTake(k)
         \/ DequeueCopy
  PROVE  CountersOK'
<1> USE DEF CountersOK, TypeOK, CopiesDisjoint, PartOfCall, Calls
<1>1. CASE EnqueueCopy
  <2> DEFINE n == MinOf(writer.left, Size - (buffer_head % Size))
  <2>1. n \in Nat /\ n <= writer.left /\ n <= Size
    BY CopyLength
  <2>2. /\ buffer_queue' = Written(buffer_head, n)
        /\ writer' = [pc |-> "advance", left |-> writer.left, n |-> n]
        /\ UNCHANGED <<buffer_head, buffer_tail, reader>>
    BY <1>1 DEF EnqueueCopy
  <2> HIDE DEF n
  <2>3. buffer_queue' \in [0..(Size - 1) -> Int]
    BY <2>1, <2>2, WrittenInPlace
  <2> QED BY <2>1, <2>2, <2>3
<1>2. ASSUME NEW k \in 0..Size, RecvFill(k)
      PROVE  CountersOK'
  <2>1. buffer_queue' \in [0..(Size - 1) -> Int]
    BY <1>2, WrittenInPlace DEF RecvFill
  <2> QED BY <1>2, <2>1 DEF RecvFill
<1>3. ASSUME NEW k \in 0..Size, SendTake(k)
      PROVE  CountersOK'
  BY <1>3 DEF SendTake
<1>4. CASE DequeueCopy
  <2> DEFINE n == MinOf(reader.left, Size - (buffer_tail % Size))
  <2>1. n \in Nat /\ n <= reader.left
    BY CopyLength
  <2>2. /\ reader' = [pc |-> "advance", left |-> reader.left, n |-> n]
        /\ UNCHANGED <<buffer_queue, buffer_head, buffer_tail, writer>>
    BY <1>4 DEF DequeueCopy
  <2> HIDE DEF n
  <2> QED BY <2>1, <2>2
<1> QED BY <1>1, <1>2, <1>3, <1>4

\* So do the steps that publish what was copied.
LEMMA CountersAdvances ==
  ASSUME CountersOK, HeadForward \/ TailForward
  PROVE  CountersOK'
<1> USE DEF CountersOK, TypeOK, CopiesDisjoint, PartOfCall, Calls, Idle
<1>1. CASE HeadForward
  <2>1. /\ writer.left \in Nat /\ writer.n \in Nat /\ writer.n <= writer.left
        /\ writer.left - writer.n \in Nat
    BY <1>1 DEF HeadForward
  <2>2. writer' \in Calls /\ writer'.left = writer.left - writer.n /\ PartOfCall(writer)'
    <3>1. CASE writer.left = writer.n
      BY <1>1, <2>1, <3>1 DEF HeadForward
    <3>2. CASE writer.left # writer.n
      BY <1>1, <2>1, <3>2 DEF HeadForward
    <3>3. QED
      BY <3>1, <3>2
  <2>3. buffer_head' = buffer_head + writer.n /\ UNCHANGED <<buffer_queue, buffer_tail, reader>>
    BY <1>1 DEF HeadForward
  <2>4. buffer_head \in Nat /\ buffer_tail \in Nat /\ reader.left \in Nat /\ reader' = reader /\ buffer_tail' = buffer_tail
    BY <2>3
  <2>5. TypeOK'
    BY <2>1, <2>2, <2>3
  <2>6. CopiesDisjoint'
    <3>1. CopiesDisjoint
      OBVIOUS
    <3> HIDE DEF CountersOK, TypeOK, PartOfCall, Calls, Idle
    <3>2. QED
      BY <2>1, <2>2, <2>3, <2>4, <3>1
  <2>7. PartOfCall(reader)'
    BY <2>4
  <2> QED BY <2>2, <2>5, <2>6, <2>7
<1>2. CASE TailForward
  <2>1. /\ reader.left \in Nat /\ reader.n \in Nat /\ reader.n <= reader.left
        /\ reader.left - reader.n \in Nat
    BY <1>2 DEF TailForward
  <2>2. reader' \in Calls /\ reader'.left = reader.left - reader.n /\ PartOfCall(reader)'
    <3>1. CASE reader.left = reader.n
      BY <1>2, <2>1, <3>1 DEF TailForward
    <3>2. CASE reader.left # reader.n
      BY <1>2, <2>1, <3>2 DEF TailForward
    <3>3. QED
      BY <3>1, <3>2
  <2>3. buffer_tail' = buffer_tail + reader.n /\ UNCHANGED <<buffer_queue, buffer_head, writer>>
    BY <1>2 DEF TailForward
  <2>4. buffer_tail \in Nat /\ buffer_head \in Nat /\ writer.left \in Nat /\ writer' = writer /\ buffer_head' = buffer_head
    BY <2>3
  <2>5. TypeOK'
    BY <2>1, <2>2, <2>3
  <2>6. CopiesDisjoint'
    <3>1. CopiesDisjoint
      OBVIOUS
    <3> HIDE DEF CountersOK, TypeOK, PartOfCall, Calls, Idle
    <3>2. QED
      BY <2>1, <2>2, <2>3, <2>4, <3>1
  <2>7. PartOfCall(writer)'
    BY <2>4
  <2> QED BY <2>2, <2>5, <2>6, <2>7
<1> QED BY <1>1, <1>2

\* Every step leaves the counters right.
LEMMA CountersNext == CountersOK /\ [Next]_vars => CountersOK'
<1> SUFFICES ASSUME CountersOK, [Next]_vars PROVE CountersOK'
  OBVIOUS
<1>1. CASE UNCHANGED vars
  BY <1>1 DEF vars, CountersOK, TypeOK, CopiesDisjoint, PartOfCall
<1>2. CASE Next
  BY <1>2, CountersChecks, CountersCopies, CountersAdvances DEF Next
<1> QED BY <1>1, <1>2

\* At first there are no bytes to be in their place.
LEMMA ContentsInit == Init => ContentsOK
BY DEF Init, ContentsOK, InPlace, Idle

\* A copy into the room after buffer_head disturbs no unread byte.
LEMMA CopyIntoRoom ==
  ASSUME CountersOK, ContentsOK,
         NEW n \in Nat, n <= writer.left, n <= Size,
         buffer_queue' = Written(buffer_head, n),
         writer'.n = n,
         UNCHANGED <<buffer_head, buffer_tail, reader, dst>>
  PROVE  ContentsOK'
<1>1. /\ buffer_head \in Nat /\ buffer_tail \in Nat /\ writer.left \in Nat
      /\ buffer_queue \in [0..(Size - 1) -> Int]
      /\ buffer_head + writer.left <= buffer_tail + Size
  BY DEF CountersOK, TypeOK, CopiesDisjoint, Calls
<1>2. /\ InPlace(buffer_head, n)'
      /\ \A k \in Nat : k < buffer_head /\ buffer_head + n <= k + Size
           => buffer_queue'[k % Size] = buffer_queue[k % Size]
  BY <1>1, WrittenInPlace
<1>3. InPlace(buffer_tail, buffer_head - buffer_tail)'
  <2>1. SUFFICES ASSUME NEW k \in buffer_tail
                              .. (buffer_tail + (buffer_head - buffer_tail) - 1)
                 PROVE  buffer_queue'[k % Size] = k
    BY DEF InPlace
  <2>2. k \in Nat /\ k < buffer_head /\ buffer_head + n <= k + Size
    BY <1>1
  <2>3. buffer_queue'[k % Size] = buffer_queue[k % Size]
    BY <1>2, <2>2
  <2>4. buffer_queue[k % Size] = k
    BY <1>1 DEF ContentsOK, InPlace
  <2> QED BY <2>3, <2>4
<1>4. InPlace(buffer_head, writer.n)'
  BY <1>2 DEF InPlace
<1> QED BY <1>3, <1>4 DEF ContentsOK

\* A copy out of the unread bytes finds each of them.
LEMMA CopyOut ==
  ASSUME CountersOK, ContentsOK,
         NEW n \in Nat, n <= reader.left,
         dst' = ReadOut(buffer_tail, n),
         reader'.n = n,
         UNCHANGED <<buffer_queue, buffer_head, buffer_tail, writer>>
  PROVE  ContentsOK'
<1>1. /\ buffer_head \in Nat /\ buffer_tail \in Nat /\ reader.left \in Nat
      /\ buffer_tail + reader.left <= buffer_head
  BY DEF CountersOK, TypeOK, CopiesDisjoint, Calls
<1>2. ASSUME NEW i \in buffer_tail .. (buffer_tail + n - 1)
      PROVE  buffer_queue[i % Size] = i
  <2>1. i \in buffer_tail .. (buffer_tail + (buffer_head - buffer_tail) - 1)
    BY <1>1
  <2> QED BY <2>1 DEF ContentsOK, InPlace
<1>3. dst' = [i \in buffer_tail .. (buffer_tail + n - 1) |-> i]
  BY <1>2 DEF ReadOut
<1> QED BY <1>3 DEF ContentsOK, InPlace

\* Every step leaves the bytes in their places.
LEMMA ContentsNext == CountersOK /\ ContentsOK /\ [Next]_vars => ContentsOK'
<1> SUFFICES ASSUME CountersOK, ContentsOK, [Next]_vars PROVE ContentsOK'
  OBVIOUS
<1>t. /\ buffer_head \in Nat /\ buffer_tail \in Nat
      /\ writer \in Calls /\ reader \in Calls
      /\ PartOfCall(writer) /\ PartOfCall(reader)
      /\ buffer_head + writer.left <= buffer_tail + Size
      /\ buffer_tail + reader.left <= buffer_head
  BY DEF CountersOK, TypeOK, CopiesDisjoint
<1>1. ASSUME NEW len \in Lens, EnqueueCheck(len)
      PROVE  ContentsOK'
  BY <1>1 DEF EnqueueCheck, ContentsOK, InPlace
<1>2. CASE EnqueueCopy
  <2> DEFINE n == MinOf(writer.left, Size - (buffer_head % Size))
  <2>1. n \in Nat /\ n <= writer.left /\ n <= Size
    BY <1>t, CopyLength DEF Calls
  <2>2. /\ buffer_queue' = Written(buffer_head, n)
        /\ writer'.n = n
        /\ UNCHANGED <<buffer_head, buffer_tail, reader, dst>>
    BY <1>2 DEF EnqueueCopy
  <2> HIDE DEF n
  <2> QED BY <2>1, <2>2, CopyIntoRoom
<1>3. CASE RecvWindow
  BY <1>3 DEF RecvWindow, ContentsOK, InPlace
<1>4. ASSUME NEW k \in 0..Size, RecvFill(k)
      PROVE  ContentsOK'
  <2>1. /\ k \in Nat /\ k <= writer.left /\ k <= Size
        /\ buffer_queue' = Written(buffer_head, k)
        /\ writer'.n = k
        /\ UNCHANGED <<buffer_head, buffer_tail, reader, dst>>
    BY <1>4 DEF RecvFill
  <2> QED BY <2>1, CopyIntoRoom
<1>5. CASE HeadForward
  <2>1. /\ writer.pc = "advance" /\ buffer_head' = buffer_head + writer.n
        /\ writer'.pc # "advance" /\ writer.n \in Nat
        /\ UNCHANGED <<buffer_queue, buffer_tail, reader, dst>>
    BY <1>t, <1>5 DEF HeadForward, Idle, Calls
  <2>2. InPlace(buffer_tail, buffer_head - buffer_tail)'
    <3>1. SUFFICES ASSUME NEW k \in buffer_tail' .. (buffer_tail'
                              + (buffer_head' - buffer_tail') - 1)
                   PROVE  buffer_queue'[k % Size] = k
      BY DEF InPlace
    <3>2. CASE k < buffer_head
      <4>1. k \in buffer_tail .. (buffer_tail + (buffer_head - buffer_tail) - 1)
        BY <1>t, <2>1, <3>2
      <4> QED BY <2>1, <4>1 DEF ContentsOK, InPlace
    <3>3. CASE k >= buffer_head
      <4>1. k \in buffer_head .. (buffer_head + writer.n - 1)
        BY <1>t, <2>1, <3>3
      <4> QED BY <2>1, <4>1 DEF ContentsOK, InPlace
    <3> QED BY <1>t, <2>1, <3>2, <3>3
  <2> QED BY <2>1, <2>2 DEF ContentsOK
<1>6. ASSUME NEW len \in Lens, DequeueCheck(len)
      PROVE  ContentsOK'
  BY <1>6 DEF DequeueCheck, ContentsOK, InPlace
<1>7. CASE DequeueCopy
  <2> DEFINE n == MinOf(reader.left, Size - (buffer_tail % Size))
  <2>1. n \in Nat /\ n <= reader.left
    BY <1>t, CopyLength DEF Calls
  <2>2. /\ dst' = ReadOut(buffer_tail, n)
        /\ reader'.n = n
        /\ UNCHANGED <<buffer_queue, buffer_head, buffer_tail, writer>>
    BY <1>7 DEF DequeueCopy
  <2> HIDE DEF n
  <2> QED BY <2>1, <2>2, CopyOut
<1>8. CASE SendWindow
  BY <1>8 DEF SendWindow, ContentsOK, InPlace
<1>9. ASSUME NEW k \in 0..Size, SendTake(k)
      PROVE  ContentsOK'
  <2>1. /\ k \in Nat /\ k <= reader.left
        /\ dst' = ReadOut(buffer_tail, k)
        /\ reader'.n = k
        /\ UNCHANGED <<buffer_queue, buffer_head, buffer_tail, writer>>
    BY <1>9 DEF SendTake
  <2> QED BY <2>1, CopyOut
<1>10. CASE TailForward
  <2>1. /\ reader.pc = "advance" /\ buffer_tail' = buffer_tail + reader.n
        /\ reader'.pc # "advance" /\ reader.n \in Nat /\ reader.n <= reader.left
        /\ UNCHANGED <<buffer_queue, buffer_head, writer>>
    BY <1>t, <1>10 DEF TailForward, Idle, Calls, PartOfCall
  <2>2. InPlace(buffer_tail, buffer_head - buffer_tail)'
    <3>1. SUFFICES ASSUME NEW k \in (buffer_tail + reader.n)
                              .. (buffer_tail + reader.n
                                  + (buffer_head - (buffer_tail + reader.n)) - 1)
                   PROVE  buffer_queue[k % Size] = k
      BY <2>1 DEF InPlace
    <3>2. k \in buffer_tail .. (buffer_tail + (buffer_head - buffer_tail) - 1)
      BY <1>t, <2>1
    <3> QED BY <3>2 DEF ContentsOK, InPlace
  <2> QED BY <2>1, <2>2 DEF ContentsOK, InPlace
<1>11. CASE UNCHANGED vars
  BY <1>11 DEF vars, ContentsOK, InPlace
<1> QED
  BY <1>1, <1>2, <1>3, <1>4, <1>5, <1>6, <1>7, <1>8, <1>9, <1>10, <1>11 DEF Next

-----------------------------------------------------------------------------
(***************************************************************************)
(* IInv of DataQueue holds in every state, for every size of the ring:     *)
(* struct data_queue of queue.c loses, repeats and mixes up no byte.       *)
(***************************************************************************)
THEOREM QueueInductive == Spec => []IInv
<1>1. Init => IInv
  BY CountersInit, ContentsInit, Split
<1>2. IInv /\ [Next]_vars => IInv'
  <2>1. SUFFICES ASSUME IInv, [Next]_vars PROVE IInv'
    OBVIOUS
  <2>2. CountersOK' /\ ContentsOK'
    BY <2>1, Split, CountersNext, ContentsNext
  <2> QED BY <2>2 DEF IInv, CountersOK, ContentsOK
<1> QED BY <1>1, <1>2, PTL DEF Spec

\* The counters, the array and the calls of queue.c keep their types.
THEOREM QueueTypeCorrect == Spec => []TypeOK
BY QueueInductive, PTL DEF IInv

\* The writer and the reader of queue.c never touch the same byte of the ring.
THEOREM CopiesCorrect == Spec => []CopiesDisjoint
BY QueueInductive, PTL DEF IInv

(***************************************************************************)
(* The ring of queue.c implements the byte stream: every move of a counter *)
(* is a step of ByteStream, every other step of the threads a stutter.     *)
(***************************************************************************)
LEMMA StreamInit == Init => Stream!Init
BY DEF Init, Stream!Init, Nothing

\* Every step is a step of the byte stream or leaves it alone.
LEMMA StreamStep == IInv /\ [Next]_vars => [Stream!Next]_(Stream!bsVars)
<1> SUFFICES ASSUME IInv, [Next]_vars PROVE [Stream!Next]_(Stream!bsVars)
  OBVIOUS
<1>t. /\ buffer_head \in Nat /\ buffer_tail \in Nat
      /\ writer \in Calls /\ reader \in Calls
      /\ PartOfCall(writer) /\ PartOfCall(reader)
      /\ buffer_head + writer.left <= buffer_tail + Size
      /\ buffer_tail + reader.left <= buffer_head
  BY DEF IInv, TypeOK, CopiesDisjoint
<1>s. reader.left \in Nat /\ writer.left \in Nat
  BY <1>t DEF Calls
<1>1. CASE HeadForward
  <2>1. /\ buffer_head' = buffer_head + writer.n
        /\ UNCHANGED <<buffer_tail, got>>
        /\ writer.n \in Nat /\ writer.n <= writer.left
    BY <1>t, <1>1 DEF HeadForward, Calls, PartOfCall
  <2>2. writer.n \in 0..Size
    BY <1>t, <1>s, <2>1
  <2>3. Stream!Append(writer.n)
    BY <1>t, <1>s, <2>1 DEF Stream!Append
  <2> QED BY <2>2, <2>3 DEF Stream!Next
<1>2. CASE TailForward
  <2>1. /\ buffer_tail' = buffer_tail + reader.n
        /\ got' = dst
        /\ UNCHANGED buffer_head
        /\ reader.pc = "advance"
        /\ reader.n \in Nat /\ reader.n <= reader.left
    BY <1>t, <1>2 DEF TailForward, Calls, PartOfCall
  <2>2. reader.n \in 0..Size
    BY <1>t, <1>s, <2>1
  <2>3. dst = [i \in buffer_tail .. (buffer_tail + reader.n - 1) |-> i]
    BY <2>1 DEF IInv
  <2>4. Stream!Take(reader.n)
    BY <1>t, <1>s, <2>1, <2>3 DEF Stream!Take
  <2> QED BY <2>2, <2>4 DEF Stream!Next
<1>3. CASE \/ \E len \in Lens : EnqueueCheck(len) \/ DequeueCheck(len)
           \/ EnqueueCopy \/ DequeueCopy
           \/ RecvWindow \/ SendWindow
           \/ \E k \in 0..Size : RecvFill(k) \/ SendTake(k)
           \/ UNCHANGED vars
  <2>1. UNCHANGED <<buffer_head, buffer_tail, got>>
    BY <1>3 DEF EnqueueCheck, DequeueCheck, EnqueueCopy, DequeueCopy,
                RecvWindow, SendWindow, RecvFill, SendTake, vars
  <2> QED BY <2>1 DEF Stream!bsVars
<1> QED BY <1>1, <1>2, <1>3 DEF Next

\* The lock-free ring (queue.c) implements a byte stream: what is taken out is what
\* was put in, in this order, nothing lost, repeated or torn.
THEOREM QueueIsByteStream == Spec => ImplementsByteStream
<1>1. Init => Stream!Init
  BY StreamInit
<1>2. IInv /\ [Next]_vars => [Stream!Next]_(Stream!bsVars)
  BY StreamStep
<1> QED
  BY <1>1, <1>2, QueueInductive, PTL DEF Spec, ImplementsByteStream, Stream!Spec
=============================================================================
