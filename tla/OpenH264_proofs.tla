---------------------------- MODULE OpenH264_proofs ----------------------------
(***************************************************************************)
(* Theorems about OpenH264, for any number of clients, any size of the     *)
(* pool and any queue of ids that is larger than the pool.                 *)
(***************************************************************************)
EXTENDS OpenH264, FiniteSetTheorems, TLAPS

USE DEF queueVars, encVars, slotVars, clientVars

\* A counter is its slot and whole turns of the queue.
LEMMA Division ==
  ASSUME NEW i \in Nat, NEW Q \in Nat \ {0}
  PROVE  /\ i % Q \in 0..Q - 1
         /\ i \div Q \in Int
         /\ i = Q * (i \div Q) + (i % Q)
OBVIOUS

\* Whole turns are of at least the queue's size.
LEMMA Multiples ==
  ASSUME NEW Q \in Nat \ {0}
  PROVE  /\ \A d \in Int : d > 0 => Q * d >= Q
         /\ \A d \in Int : d <= 0 => Q * d <= 0
         /\ \A a, b \in Int : Q * b - Q * a = Q * (b - a)
<1>1. \A d \in Int : d > 0 => Q * d >= Q
  OBVIOUS
<1>2. \A d \in Int : d <= 0 => Q * d <= 0
  OBVIOUS
<1>3. \A a, b \in Int : Q * b - Q * a = Q * (b - a)
  OBVIOUS
<1>4. QED
  BY <1>1, <1>2, <1>3

\* Two positions less than Q apart are different slots of a ring of Q.
LEMMA SlotsDiffer ==
  ASSUME NEW Q \in Nat \ {0}, NEW i \in Nat, NEW j \in Nat, i < j, j < i + Q
  PROVE  i % Q # j % Q
<1> SUFFICES ASSUME i % Q = j % Q PROVE FALSE
  OBVIOUS
<1> DEFINE a == i \div Q
           b == j \div Q
           r == i % Q
<1>1. a \in Int /\ b \in Int /\ r \in Int
  BY Division
<1>2. i = Q * a + r
  BY Division
<1>3. j = Q * b + r
  BY Division
<1> HIDE DEF a, b, r
<1>4. j - i = Q * (b - a)
  <2>1. j - i = Q * b - Q * a
    BY <1>1, <1>2, <1>3
  <2>2. QED
    BY <1>1, <2>1, Multiples
<1>5. CASE b - a > 0
  BY <1>1, <1>4, <1>5, Multiples
<1>6. CASE b - a <= 0
  BY <1>1, <1>4, <1>6, Multiples
<1>7. QED
  BY <1>1, <1>5, <1>6

-----------------------------------------------------------------------------

Positions == buffer_tail..buffer_head - 1

\* No id is queued twice, so that the queue holds as many as it counts.
QueueDistinct ==
    /\ \A i, j \in Positions :
           buffer_queue[i % QUEUE_SIZE] = buffer_queue[j % QUEUE_SIZE] => i = j
    /\ IsFiniteSet(Queued) /\ Cardinality(Queued) = buffer_head - buffer_tail

\* The queue is never full, so an id is put into a slot nobody waits in.
LEMMA QueuePut ==
  ASSUME Ranges, QueueDistinct, NEW id \in Buffers \ Queued, PutInt(id)
  PROVE  /\ Queued' = Queued \cup {id} /\ QueueDistinct'
         /\ buffer_queue' \in [0..QUEUE_SIZE - 1 -> Buffers]
         /\ buffer_head' = buffer_head + 1 /\ buffer_tail' = buffer_tail
<1> DEFINE at(i) == i % QUEUE_SIZE
<1>1. /\ buffer_head \in Nat /\ buffer_tail \in Nat /\ buffer_head - buffer_tail \in 0..QUEUE_SIZE - 1
      /\ buffer_queue \in [0..QUEUE_SIZE - 1 -> Buffers] /\ QUEUE_SIZE \in Nat \ {0}
  BY SizesAssumption DEF Ranges
<1>2. /\ buffer_queue' = [buffer_queue EXCEPT ![at(buffer_head)] = id]
      /\ buffer_head' = buffer_head + 1 /\ buffer_tail' = buffer_tail
  BY DEF PutInt
<1>3. \A i \in Nat : at(i) \in 0..QUEUE_SIZE - 1
  BY <1>1, Division
<1>4. \A i \in Positions : i \in Nat /\ at(i) # at(buffer_head)
  <2> TAKE i \in Positions
  <2>1. i \in Nat /\ i < buffer_head /\ buffer_head < i + QUEUE_SIZE
    BY <1>1 DEF Positions
  <2>2. QED
    BY <1>1, <2>1, SlotsDiffer
<1>5. Positions' = Positions \cup {buffer_head}
  BY <1>1, <1>2 DEF Positions
<1> HIDE DEF at
<1>6. /\ \A i \in Positions : buffer_queue'[at(i)] = buffer_queue[at(i)]
      /\ buffer_queue'[at(buffer_head)] = id
  BY <1>1, <1>2, <1>3, <1>4
<1>7. Queued = {buffer_queue[at(i)] : i \in Positions}
  BY DEF Queued, Positions, at
<1>8. Queued' = {buffer_queue'[at(i)] : i \in Positions'}
  BY DEF Queued, Positions, at
<1>9. Queued' = Queued \cup {id}
  BY <1>5, <1>6, <1>7, <1>8
<1>10. \A i, j \in Positions' : buffer_queue'[at(i)] = buffer_queue'[at(j)] => i = j
  <2>1. \A i \in Positions : buffer_queue[at(i)] # id
    BY <1>7
  <2>2. \A i, j \in Positions : buffer_queue[at(i)] = buffer_queue[at(j)] => i = j
    BY DEF QueueDistinct, at
  <2>3. QED
    BY <1>5, <1>6, <2>1, <2>2
<1>11. IsFiniteSet(Queued') /\ Cardinality(Queued') = Cardinality(Queued) + 1
  BY <1>9, FS_AddElement DEF QueueDistinct
<1>12. Cardinality(Queued') = buffer_head' - buffer_tail'
  BY <1>1, <1>2, <1>11 DEF QueueDistinct
<1>13. QueueDistinct'
  BY <1>10, <1>11, <1>12 DEF QueueDistinct, at
<1>14. buffer_queue' \in [0..QUEUE_SIZE - 1 -> Buffers]
  BY <1>1, <1>2, <1>3
<1>15. QED
  BY <1>2, <1>9, <1>13, <1>14

\* Taking a buffer leaves the rest in the queue, each once.
LEMMA QueueGet ==
  ASSUME Ranges, QueueDistinct, NEW id \in Buffers, GetInt(id)
  PROVE  /\ id \in Queued /\ Queued' = Queued \ {id} /\ QueueDistinct'
         /\ buffer_head - buffer_tail' \in 0..BUFFERS /\ buffer_tail' \in Nat
<1> DEFINE at(i) == i % QUEUE_SIZE
<1>1. /\ buffer_head \in Nat /\ buffer_tail \in Nat /\ buffer_tail < buffer_head
      /\ buffer_head - buffer_tail \in 0..BUFFERS /\ BUFFERS \in Nat
  BY SizesAssumption DEF Ranges, GetInt
<1>2. /\ UNCHANGED <<buffer_queue, buffer_head>> /\ buffer_tail' = buffer_tail + 1
      /\ id = buffer_queue[at(buffer_tail)]
  BY DEF GetInt
<1>3. Positions = Positions' \cup {buffer_tail} /\ buffer_tail \notin Positions'
  BY <1>1, <1>2 DEF Positions
<1>4. \A i, j \in Positions : buffer_queue[at(i)] = buffer_queue[at(j)] => i = j
  BY DEF QueueDistinct
<1>5. Queued = {buffer_queue[at(i)] : i \in Positions}
  BY DEF Queued, Positions
<1>6. Queued' = {buffer_queue[at(i)] : i \in Positions'}
  BY <1>2 DEF Queued, Positions
<1> HIDE DEF at
<1>7. id \in Queued /\ Queued' = Queued \ {id}
  BY <1>2, <1>3, <1>4, <1>5, <1>6
<1>8. IsFiniteSet(Queued') /\ Cardinality(Queued') = Cardinality(Queued) - 1
  BY <1>7, FS_RemoveElement DEF QueueDistinct
<1>9. QED
  BY <1>1, <1>2, <1>3, <1>4, <1>7, <1>8 DEF QueueDistinct, at

-----------------------------------------------------------------------------

\* Which buffer the main thread has in its hand, that it works with an encoder
\* that is there, and that the test takes back what it has queued.
MainPlace ==
    /\ mpc \in {"encode", "emit", "put"} => mbuf # NoBuf
    /\ mpc \in {"init", "set_info", "loop", "get", "release", "null"} => mbuf = NoBuf
    /\ mpc \in {"set_info", "loop", "encode", "emit", "get", "put", "release"} =>
           enc_obj = "live"
    /\ driver = "test" /\ mpc \in {"set_info", "loop", "encode", "emit", "put"} =>
           buffer_head = buffer_tail
    /\ driver = "test" /\ mpc = "get" => buffer_head = buffer_tail + 1

\* The steps that leave every buffer where it is.
SameBuffers == UNCHANGED <<driver, mbuf, free, queueVars>>

\* Those steps keep what is known of the buffers.
LEMMA BuffersStay ==
  ASSUME SameBuffers
  PROVE  /\ QueueDistinct => QueueDistinct'
         /\ Queued' = Queued
         /\ BufferPlaces => BufferPlaces'
<1>1. Queued' = Queued
  BY DEF SameBuffers, Queued
<1>2. QED
  BY <1>1 DEF SameBuffers, QueueDistinct, Positions, BufferPlaces

\* A queue whose counters meet has no buffers.
LEMMA EmptyQueue ==
  ASSUME buffer_head = buffer_tail, buffer_tail \in Nat
  PROVE  Queued = {} /\ Positions = {}
<1>1. buffer_tail..buffer_head - 1 = {}
  OBVIOUS
<1>2. QED
  BY <1>1 DEF Queued, Positions

\* It all begins with the right types and an empty queue.
LEMMA RangesInit ==
  ASSUME Init
  PROVE  TypeOK /\ MainPlace /\ QueueDistinct
<1>1. Queued = {} /\ Positions = {}
  BY EmptyQueue DEF Init
<1>2. QueueDistinct
  BY <1>1, FS_EmptySet DEF Init, QueueDistinct
<1>3. Ranges
  <2>1. 0 \in Buffers
    BY SizesAssumption DEF Buffers
  <2>2. buffer_head \in Nat /\ buffer_tail \in Nat /\ buffer_head - buffer_tail \in 0..BUFFERS
    BY SizesAssumption DEF Init
  <2>3. ready \in BOOLEAN /\ intra \in BOOLEAN
    BY Zenon DEF Init
  <2>4. buffer_queue \in [0..QUEUE_SIZE - 1 -> Buffers]
    BY <2>1, Zenon DEF Init
  <2>5. layers \in Seq(Layers)
    BY DEF Init
  <2>6. QED
    BY <2>2, <2>3, <2>4, <2>5 DEF Init, Ranges
<1>4. QED
  BY <1>2, <1>3 DEF Init, TypeOK, MainPlace

\* The layers of a picture are layers.
LEMMA LayersTyped ==
  ASSUME NEW n \in Nat, NEW type \in {"key", "delta", "skip"}
  PROVE  LayersOf(n, type) \in Seq(Layers)
<1> DEFINE Layer(kind) == [n |-> n, kind |-> kind]
<1>1. \A kind \in {"header", "key", "delta"} : Layer(kind) \in Layers
  BY DEF Layers
<1>2. CASE type = "key"
  <2>1. LayersOf(n, type) = <<Layer("header"), Layer("key")>>
    BY <1>2 DEF LayersOf
  <2>2. QED
    BY <1>1, <2>1
<1>3. CASE type = "delta"
  <2>1. LayersOf(n, type) = <<Layer("delta")>>
    BY <1>3 DEF LayersOf
  <2>2. QED
    BY <1>1, <2>1
<1>4. CASE type = "skip"
  BY <1>4 DEF LayersOf
<1>5. QED
  BY <1>2, <1>3, <1>4

\* There are BUFFERS buffers.
LEMMA BuffersCount == IsFiniteSet(Buffers) /\ Cardinality(Buffers) = BUFFERS
<1>1. Buffers = 0..BUFFERS - 1 /\ BUFFERS \in Nat \ {0}
  BY SizesAssumption DEF Buffers
<1>2. IsFiniteSet(0..BUFFERS - 1) /\ Cardinality(0..BUFFERS - 1) = (BUFFERS - 1) - 0 + 1
  BY <1>1, FS_Interval
<1>3. QED
  BY <1>1, <1>2

\* Queueing the buffer in hand, and taking one back.
LEMMA QueueSteps ==
  ASSUME TypeOK, MainPlace, QueueDistinct
  PROVE  /\ Queue => /\ mbuf \in Buffers \ Queued /\ Queued' = Queued \cup {mbuf}
                     /\ QueueDistinct' /\ buffer_queue' \in [0..QUEUE_SIZE - 1 -> Buffers]
                     /\ buffer_head' = buffer_head + 1 /\ buffer_tail' = buffer_tail
                     /\ buffer_head' - buffer_tail' \in 0..BUFFERS
         /\ GetEncFb => /\ mbuf' \in Queued /\ Queued' = Queued \ {mbuf'}
                        /\ QueueDistinct' /\ UNCHANGED <<buffer_queue, buffer_head>>
                        /\ buffer_tail' = buffer_tail + 1
                        /\ buffer_head' - buffer_tail' \in 0..BUFFERS
<1>0. Ranges /\ Buffers \in SUBSET Int /\ NoBuf \notin Buffers /\ BUFFERS \in Nat
  BY SizesAssumption DEF TypeOK, Buffers, NoBuf
<1>1. ASSUME Queue
      PROVE  /\ mbuf \in Buffers \ Queued /\ Queued' = Queued \cup {mbuf}
             /\ QueueDistinct' /\ buffer_queue' \in [0..QUEUE_SIZE - 1 -> Buffers]
             /\ buffer_head' = buffer_head + 1 /\ buffer_tail' = buffer_tail
             /\ buffer_head' - buffer_tail' \in 0..BUFFERS
  <2>1. mpc = "emit" /\ PutInt(mbuf)
    BY <1>1 DEF Queue
  <2>2. mbuf \in Buffers /\ mbuf \notin Queued
    BY <1>0, <2>1 DEF MainPlace, TypeOK, Ranges, BufferPlaces
  <2>3. /\ Queued' = Queued \cup {mbuf} /\ QueueDistinct'
        /\ buffer_queue' \in [0..QUEUE_SIZE - 1 -> Buffers]
        /\ buffer_head' = buffer_head + 1 /\ buffer_tail' = buffer_tail
    BY <1>0, <2>1, <2>2, QueuePut
  <2>4. Queued \subseteq Buffers
    BY <2>1 DEF MainPlace, TypeOK, BufferPlaces
  <2>5. Cardinality(Queued') <= BUFFERS
    BY <1>0, <2>2, <2>3, <2>4, BuffersCount, FS_Subset
  <2>6. buffer_head' - buffer_tail' \in 0..BUFFERS
    BY <1>0, <2>3, <2>5 DEF QueueDistinct, Ranges
  <2>7. QED
    BY <2>2, <2>3, <2>6
<1>2. ASSUME GetEncFb
      PROVE  /\ mbuf' \in Queued /\ Queued' = Queued \ {mbuf'}
             /\ QueueDistinct' /\ UNCHANGED <<buffer_queue, buffer_head>>
             /\ buffer_tail' = buffer_tail + 1
             /\ buffer_head' - buffer_tail' \in 0..BUFFERS
  <2>1. PICK id \in Buffers : GetInt(id) /\ mbuf' = id
    BY <1>2 DEF GetEncFb
  <2>2. QED
    BY <1>0, <2>1, QueueGet DEF GetInt
<1>3. QED
  BY <1>1, <1>2

\* Each variable keeps its type.
LEMMA RangesStep ==
  ASSUME TypeOK, MainPlace, QueueDistinct, Next
  PROVE  Ranges'
<1> USE DEF Ranges, Goto, Ended
<1>0. 0 \in Buffers /\ BUFFERS \in Nat /\ QUEUE_SIZE \in Nat
  BY SizesAssumption DEF Buffers
<1>1. Ranges
  BY DEF TypeOK
<1>2. CASE InitEnc
  <2>1. /\ buffer_queue' \in [0..QUEUE_SIZE - 1 -> Buffers] /\ ready' \in BOOLEAN
        /\ intra' \in BOOLEAN
    BY <1>0, <1>2, Zenon DEF InitEnc, encodec_init
  <2>2. QED
    BY <1>0, <1>1, <1>2, <2>1 DEF InitEnc, encodec_init
<1>3. CASE SetInfo
  BY <1>1, <1>3 DEF SetInfo
<1>4. CASE Quit
  BY <1>1, <1>4 DEF Quit
<1>5. CASE GetFb
  BY <1>1, <1>5 DEF GetFb
<1>6. CASE Encode
  <2>1. PICK type \in {"key", "delta", "skip"} : layers' = LayersOf(pictures + 1, type)
    BY <1>6 DEF Encode
  <2>2. pictures + 1 \in Nat /\ pictures' = pictures + 1
    BY <1>1, <1>6 DEF Encode
  <2>3. layers' \in Seq(Layers)
    BY <2>1, <2>2, LayersTyped
  <2>4. QED
    BY <1>1, <1>6, <2>2, <2>3 DEF Encode
<1>7. CASE EncodeFail
  BY <1>1, <1>7 DEF EncodeFail
<1>8. CASE Emit
  <2>1. slot' \in Layers /\ layers' \in Seq(Layers)
    BY <1>1, <1>8 DEF Emit
  <2>2. QED
    BY <1>1, <1>8, <2>1 DEF Emit
<1>9. CASE EmitFile
  <2>1. layers' \in Seq(Layers)
    BY <1>1, <1>9 DEF EmitFile
  <2>2. QED
    BY <1>1, <1>9, <2>1 DEF EmitFile
<1>10. CASE Queue
  BY <1>1, <1>10, QueueSteps DEF Queue
<1>11. CASE GetEncFb
  BY <1>1, <1>11, QueueSteps DEF GetEncFb, GetInt
<1>12. CASE PutFb
  BY <1>1, <1>12 DEF PutFb, MainPlace
<1>13. CASE Drain
  BY <1>1, <1>13 DEF Drain
<1>14. CASE ReleaseEnc
  BY <1>1, <1>14 DEF ReleaseEnc
<1>15. CASE NullEnc
  BY <1>1, <1>15 DEF NullEnc
<1>16. CASE Bradcast
  <2>1. sees' \in [Clients -> {"nothing", "header", "key"}]
    BY <1>1, <1>16 DEF Bradcast, Decodes
  <2>2. sent' \in Nat
    BY <1>1, <1>16 DEF Bradcast, Layers
  <2>3. QED
    BY <1>1, <1>16, <2>1, <2>2 DEF Bradcast
<1>17. CASE BradcastReset
  BY <1>1, <1>17 DEF BradcastReset
<1>18. ASSUME NEW c \in Clients, Connect(c) \/ TestEnc(c) \/ ForceIFrame(c) PROVE Ranges'
  <2>1. /\ npc' \in [Clients -> {"off", "test", "force", "done"}]
        /\ since' \in [Clients -> Nat]
    BY <1>1, <1>18 DEF Connect, TestEnc, ForceIFrame, HandlerEnds
  <2>2. intra' \in BOOLEAN
    BY <1>1, <1>18, Zenon DEF Connect, TestEnc, ForceIFrame, HandlerEnds
  <2>3. QED
    BY <1>1, <1>18, <2>1, <2>2 DEF Connect, TestEnc, ForceIFrame, HandlerEnds
<1>19. QED
  BY <1>2, <1>3, <1>4, <1>5, <1>6, <1>7, <1>8, <1>9, <1>10, <1>11, <1>12, <1>13,
     <1>14, <1>15, <1>16, <1>17, <1>18 DEF Next, Main

\* Where the buffers are.
Places ==
    /\ enc_obj = "live" /\ mpc # "release" => BufferPlaces
    /\ mpc = "exit_get_fb" => driver = "server" /\ Queued = Buffers
    /\ mpc = "exit_timeout" => Queued # {}

\* Every step leaves the buffers at their places.
LEMMA PlacesStep ==
  ASSUME TypeOK, MainPlace, QueueDistinct, Next
  PROVE  Places' /\ MainPlace' /\ QueueDistinct'
<1> USE DEF Goto, Ended
<1>0. /\ Buffers \in SUBSET Int /\ Buffers # {} /\ NoBuf \notin Buffers
      /\ free \subseteq Buffers /\ mbuf \in Buffers \cup {NoBuf}
      /\ driver \in {"server", "test"}
      /\ Places
  <2>1. 0 \in Buffers
    BY SizesAssumption DEF Buffers
  <2>2. QED
    BY <2>1 DEF Buffers, NoBuf, TypeOK, Ranges, Places
<1>1. mpc \notin Ended
  BY DEF Next
<1>2. CASE InitEnc
  <2>1. /\ free' = Buffers /\ UNCHANGED <<mbuf, driver>> /\ mpc = "init" /\ mpc' = "set_info"
        /\ buffer_head' = 0 /\ buffer_tail' = 0 /\ enc_obj' = "live"
    BY <1>2 DEF InitEnc, encodec_init
  <2>2. Queued' = {} /\ Positions' = {}
    <3>1. buffer_tail'..buffer_head' - 1 = {}
      BY <2>1
    <3>2. QED
      BY <3>1 DEF Queued, Positions
  <2>3. QueueDistinct'
    BY <2>1, <2>2, FS_EmptySet DEF QueueDistinct
  <2>4. BufferPlaces'
    BY <1>0, <2>1, <2>2, FS_EmptySet DEF BufferPlaces, MainPlace
  <2>5. QED
    BY <2>1, <2>3, <2>4 DEF Places, MainPlace
<1>3. ASSUME SameBuffers, mpc' # "exit_get_fb", mpc' # "exit_timeout",
             enc_obj' = "live" /\ mpc' # "release" => enc_obj = "live" /\ mpc # "release",
             MainPlace'
      PROVE  Places' /\ MainPlace' /\ QueueDistinct'
  BY <1>0, <1>3, BuffersStay DEF Places
<1>4. CASE SetInfo
  BY <1>3, <1>4 DEF SetInfo, SameBuffers, MainPlace
<1>5. CASE Quit \/ Bradcast \/ BradcastReset
  BY <1>1, <1>3, <1>5 DEF Quit, Bradcast, BradcastReset, SameBuffers, MainPlace
<1>6. CASE GetFb
  <2>1. /\ mpc = "loop" /\ mbuf = NoBuf /\ enc_obj = "live" /\ BufferPlaces
        /\ UNCHANGED <<driver, encVars, queueVars>>
    BY <1>0, <1>6 DEF GetFb, MainPlace, Places
  <2>2. Queued' = Queued /\ QueueDistinct'
    BY <2>1 DEF Queued, QueueDistinct, Positions
  <2>3. CASE free = {}
    <3>1. mpc' = "exit_get_fb" /\ UNCHANGED <<mbuf, free>>
      BY <1>6, <2>3 DEF GetFb
    <3>2. Queued = Buffers
      BY <2>1, <2>3 DEF BufferPlaces
    <3>3. driver = "server"
      BY <1>0, <2>1, <3>2, EmptyQueue DEF MainPlace, TypeOK, Ranges
    <3>4. BufferPlaces'
      BY <2>1, <2>2, <3>1 DEF BufferPlaces
    <3>5. QED
      BY <2>1, <2>2, <3>1, <3>2, <3>3, <3>4 DEF Places, MainPlace
  <2>4. CASE free # {}
    <3>1. mpc' = "encode" /\ mbuf' \in free /\ free' = free \ {mbuf'}
      BY <1>6, <2>4 DEF GetFb
    <3>2. BufferPlaces'
      BY <1>0, <2>1, <2>2, <3>1 DEF BufferPlaces
    <3>3. QED
      BY <1>0, <2>1, <2>2, <3>1, <3>2 DEF Places, MainPlace
  <2>5. QED
    BY <2>3, <2>4
<1>7. CASE Encode \/ EncodeFail
  BY <1>3, <1>7 DEF Encode, EncodeFail, SameBuffers, MainPlace
<1>8. CASE Emit \/ EmitFile
  BY <1>3, <1>8 DEF Emit, EmitFile, SameBuffers, MainPlace
<1>9. CASE Queue
  <2>1. /\ mpc = "emit" /\ mbuf' = NoBuf /\ UNCHANGED <<driver, free, encVars>>
        /\ mpc' = IF driver = "test" THEN "get" ELSE "loop"
        /\ enc_obj = "live" /\ BufferPlaces
    BY <1>0, <1>9 DEF Queue, MainPlace, Places
  <2>2. /\ mbuf \in Buffers \ Queued /\ Queued' = Queued \cup {mbuf} /\ QueueDistinct'
        /\ buffer_head' = buffer_head + 1 /\ buffer_tail' = buffer_tail
    BY <1>9, QueueSteps
  <2>3. BufferPlaces'
    BY <1>0, <2>1, <2>2 DEF BufferPlaces, QueueDistinct
  <2>4. QED
    BY <2>1, <2>2, <2>3 DEF Places, MainPlace
<1>10. CASE GetEncFb
  <2>1. /\ mpc = "get" /\ mpc' = "put" /\ UNCHANGED <<driver, free, encVars>>
        /\ mbuf = NoBuf /\ enc_obj = "live" /\ BufferPlaces
    BY <1>0, <1>10 DEF GetEncFb, MainPlace, Places
  <2>2. /\ mbuf' \in Queued /\ Queued' = Queued \ {mbuf'} /\ QueueDistinct'
        /\ UNCHANGED buffer_head /\ buffer_tail' = buffer_tail + 1
    BY <1>10, QueueSteps
  <2>3. Queued \subseteq Buffers
    BY <2>1 DEF BufferPlaces
  <2>4. BufferPlaces'
    BY <1>0, <2>1, <2>2, <2>3 DEF BufferPlaces, QueueDistinct
  <2>5. driver = "test" => buffer_head' = buffer_tail'
    BY <2>1, <2>2 DEF MainPlace
  <2>6. QED
    BY <1>0, <2>1, <2>2, <2>3, <2>4, <2>5 DEF Places, MainPlace
<1>11. CASE PutFb
  <2>1. /\ mpc = "put" /\ mpc' = "loop" /\ UNCHANGED <<driver, encVars, queueVars>>
        /\ free' = free \cup {mbuf} /\ mbuf' = NoBuf
        /\ mbuf # NoBuf /\ enc_obj = "live" /\ BufferPlaces
    BY <1>0, <1>11 DEF PutFb, MainPlace, Places
  <2>2. Queued' = Queued /\ QueueDistinct'
    BY <2>1 DEF Queued, QueueDistinct, Positions
  <2>3. BufferPlaces'
    BY <1>0, <2>1, <2>2 DEF BufferPlaces
  <2>4. QED
    BY <2>1, <2>2, <2>3 DEF Places, MainPlace
<1>12. CASE Drain
  <2>1. /\ mpc = "loop" /\ mbuf = NoBuf /\ enc_obj = "live" /\ BufferPlaces
        /\ UNCHANGED <<driver, mbuf, encVars, queueVars>>
    BY <1>0, <1>12 DEF Drain, MainPlace, Places
  <2>2. Queued' = Queued /\ QueueDistinct'
    BY <2>1 DEF Queued, QueueDistinct, Positions
  <2>3. CASE free = Buffers
    BY <1>12, <2>1, <2>2, <2>3 DEF Drain, Places, MainPlace
  <2>4. CASE free # Buffers
    <3>1. mpc' = "exit_timeout" /\ UNCHANGED free
      BY <1>12, <2>4 DEF Drain
    <3>2. Queued # {}
      BY <2>1, <2>4 DEF BufferPlaces
    <3>3. BufferPlaces'
      BY <2>1, <2>2, <3>1 DEF BufferPlaces
    <3>4. QED
      BY <2>1, <2>2, <3>1, <3>2, <3>3 DEF Places, MainPlace
  <2>5. QED
    BY <2>3, <2>4
<1>13. CASE ReleaseEnc \/ NullEnc
  BY <1>3, <1>13 DEF ReleaseEnc, NullEnc, SameBuffers, MainPlace
<1>14. ASSUME NEW c \in Clients, Connect(c) \/ TestEnc(c) \/ ForceIFrame(c)
       PROVE  Places' /\ MainPlace' /\ QueueDistinct'
  BY <1>1, <1>3, <1>14 DEF Connect, TestEnc, ForceIFrame, SameBuffers, MainPlace
<1>15. QED
  BY <1>2, <1>4, <1>5, <1>6, <1>7, <1>8, <1>9, <1>10, <1>11, <1>12, <1>13, <1>14
  DEF Next, Main

\* Types and places hold in every reachable state.
LEMMA BuffersAlways == Spec => [](TypeOK /\ MainPlace /\ QueueDistinct)
<1>1. Init => TypeOK /\ MainPlace /\ QueueDistinct
  BY RangesInit
<1>2. TypeOK /\ MainPlace /\ QueueDistinct /\ [Next]_vars
        => TypeOK' /\ MainPlace' /\ QueueDistinct'
  <2> SUFFICES ASSUME TypeOK, MainPlace, QueueDistinct, [Next]_vars
               PROVE  TypeOK' /\ MainPlace' /\ QueueDistinct'
    OBVIOUS
  <2>1. CASE Next
    BY <2>1, RangesStep, PlacesStep DEF TypeOK, Places
  <2>2. CASE UNCHANGED vars
    <3>1. SameBuffers
      BY <2>2 DEF vars, SameBuffers
    <3>2. Queued' = Queued /\ (BufferPlaces => BufferPlaces') /\ QueueDistinct'
      BY <3>1, BuffersStay
    <3>3. MainPlace'
      BY <2>2 DEF vars, MainPlace
    <3>4. Ranges'
      BY <2>2 DEF vars, TypeOK, Ranges
    <3>5. QED
      BY <2>2, <3>2, <3>3, <3>4 DEF vars, TypeOK
  <2>3. QED
    BY <2>1, <2>2
<1>3. QED
  BY <1>1, <1>2, PTL DEF Spec

\* The values have their types, and while there is an encoder no buffer is
\* lost, queued twice or handed out twice, by the driver that takes buffers
\* back at once and by the one that never does.
THEOREM BuffersPlaced == Spec => []TypeOK
BY BuffersAlways, PTL

-----------------------------------------------------------------------------

Layer(n, kind) == [n |-> n, kind |-> kind]

\* The layers on their way are those of the last picture, and in the slot at
\* most one of the picture before.
OnTheWay ==
    /\ layers \in {<<>>, <<Layer(pictures, "header"), Layer(pictures, "key")>>,
                   <<Layer(pictures, "key")>>, <<Layer(pictures, "delta")>>}
    /\ mpc \notin Ended /\ mpc # "emit" => layers = <<>>
    /\ slot.n <= pictures
    /\ Len(layers) = 2 => slot.n < pictures
    /\ bpc = "reset" => slot # NoLayer
    /\ sent <= pictures
    /\ mpc \in {"loop", "encode", "emit", "get", "put"} => ready
    /\ driver = "test" => \A c \in Clients : npc[c] = "off"

\* Client c waits for the first key picture since its handler ended: the next
\* picture will be it, or its header, its key or both are on their way.
KeyIsComing(c) ==
    LET first == since[c] + 1
    IN  \/ pictures = since[c] /\ (intra \/ ~ready \/ enc_obj # "live")
        \/ /\ pictures = first /\ layers = <<Layer(first, "header"), Layer(first, "key")>>
        \/ /\ pictures = first /\ layers = <<Layer(first, "key")>>
           /\ slot = Layer(first, "header") /\ bpc = "poll"
        \/ /\ pictures = first /\ layers = <<Layer(first, "key")>>
           /\ sees[c] = "header" /\ (slot = NoLayer \/ bpc = "reset")
        \/ slot = Layer(first, "key") /\ bpc = "poll" /\ sees[c] = "header"

WaitsForKey(c) ==
    npc[c] = "done" /\ sees[c] # "key" => sent <= since[c] /\ KeyIsComing(c)

\* A layer is what it was made of.
LEMMA LayerFacts ==
  ASSUME NEW n \in Nat, NEW kind \in {"header", "key", "delta"}
  PROVE  /\ Layer(n, kind).n = n /\ Layer(n, kind).kind = kind
         /\ Layer(n, kind) # NoLayer
BY DEF Layer, NoLayer

\* Heads and tails of one and of two layers.
LEMMA ShortSequences ==
  /\ \A x, y : Head(<<x, y>>) = x /\ Tail(<<x, y>>) = <<y>>
  /\ \A x : Head(<<x>>) = x /\ Tail(<<x>>) = <<>>
OBVIOUS

\* Every step but those named here leaves the layers and the pictures alone.
LEMMA OnTheWayStep ==
  ASSUME TypeOK, MainPlace, OnTheWay, Next
  PROVE  OnTheWay'
<1> USE DEF Goto
<1>0. /\ pictures \in Nat /\ sent \in Nat /\ slot \in Layers \cup {NoLayer} /\ slot.n \in Nat
      /\ npc \in [Clients -> {"off", "test", "force", "done"}]
      /\ driver \in {"server", "test"}
  BY DEF TypeOK, Ranges, Layers, NoLayer
<1>1. ASSUME UNCHANGED <<layers, slot, bpc, sent, pictures, driver>>,
             mpc' \in Ended \/ (mpc' = "emit" <=> mpc = "emit"),
             mpc' \in {"loop", "encode", "emit", "get", "put"} => ready',
             driver = "test" => UNCHANGED npc
      PROVE  OnTheWay'
  BY <1>0, <1>1 DEF OnTheWay, Next
<1>2. CASE InitEnc \/ NullEnc \/ ReleaseEnc \/ SetInfo
  BY <1>1, <1>2 DEF InitEnc, encodec_init, NullEnc, ReleaseEnc, SetInfo, Ended
<1>3. CASE Quit \/ GetFb \/ EncodeFail \/ GetEncFb \/ PutFb \/ Drain
  BY <1>1, <1>3 DEF Quit, GetFb, EncodeFail, GetEncFb, PutFb, Drain, OnTheWay, Ended
<1>4. CASE Encode
  <2>1. PICK type \in {"key", "delta", "skip"} : layers' = LayersOf(pictures + 1, type)
    BY <1>4 DEF Encode
  <2>2. /\ pictures' = pictures + 1 /\ mpc = "encode" /\ mpc' = "emit"
        /\ UNCHANGED <<driver, ready, slot, bpc, npc, sent>>
    BY <1>4 DEF Encode
  <2>3. layers' \in {<<>>, <<Layer(pictures', "header"), Layer(pictures', "key")>>,
                    <<Layer(pictures', "delta")>>}
    <3>1. CASE type = "key"
      BY <2>1, <2>2, <3>1 DEF LayersOf, Layer
    <3>2. CASE type = "delta"
      BY <2>1, <2>2, <3>2 DEF LayersOf, Layer
    <3>3. CASE type = "skip"
      BY <2>1, <2>2, <3>3 DEF LayersOf, Layer
    <3>4. QED
      BY <3>1, <3>2, <3>3
  <2>4. slot'.n < pictures' /\ sent' <= pictures'
    BY <1>0, <2>2 DEF OnTheWay
  <2>5. QED
    BY <1>0, <2>2, <2>3, <2>4 DEF OnTheWay
<1>5. CASE Emit
  <2> DEFINE h == Layer(pictures, "header")
             k == Layer(pictures, "key")
             d == Layer(pictures, "delta")
  <2> HIDE DEF h, k, d
  <2>1. /\ mpc = "emit" /\ layers # <<>> /\ slot = NoLayer
        /\ slot' = Head(layers) /\ layers' = Tail(layers)
        /\ UNCHANGED <<driver, mpc, ready, bpc, npc, sent, pictures>>
    BY <1>5 DEF Emit
  <2>2. (layers' = <<k>> /\ slot' = h) \/ (layers' = <<>> /\ slot' \in {k, d})
    <3>1. layers \in {<<h, k>>, <<k>>, <<d>>}
      BY <2>1 DEF OnTheWay, h, k, d
    <3>2. CASE layers = <<h, k>>
      BY <2>1, <3>2, ShortSequences
    <3>3. CASE layers = <<k>>
      BY <2>1, <3>3, ShortSequences
    <3>4. CASE layers = <<d>>
      BY <2>1, <3>4, ShortSequences
    <3>5. QED
      BY <3>1, <3>2, <3>3, <3>4
  <2>3. slot'.n = pictures /\ slot' # NoLayer
    BY <1>0, <2>2, LayerFacts DEF h, k, d
  <2>4. Len(layers') # 2
    BY <2>2
  <2>5. layers' \in {<<>>, <<Layer(pictures', "key")>>}
    BY <2>1, <2>2 DEF k
  <2>6. QED
    BY <1>0, <2>1, <2>3, <2>4, <2>5 DEF OnTheWay
<1>6. CASE EmitFile
  <2> DEFINE h == Layer(pictures, "header")
             k == Layer(pictures, "key")
             d == Layer(pictures, "delta")
  <2> HIDE DEF h, k, d
  <2>1. /\ mpc = "emit" /\ layers # <<>> /\ layers' = Tail(layers)
        /\ mpc' \in {"emit", "exit_done"}
        /\ UNCHANGED <<driver, ready, slot, bpc, npc, sent, pictures>>
    BY <1>6 DEF EmitFile
  <2>2. layers' \in {<<>>, <<k>>}
    <3>1. layers \in {<<h, k>>, <<k>>, <<d>>}
      BY <2>1 DEF OnTheWay, h, k, d
    <3>2. CASE layers = <<h, k>>
      BY <2>1, <3>2, ShortSequences
    <3>3. CASE layers = <<k>>
      BY <2>1, <3>3, ShortSequences
    <3>4. CASE layers = <<d>>
      BY <2>1, <3>4, ShortSequences
    <3>5. QED
      BY <3>1, <3>2, <3>3, <3>4
  <2>3. Len(layers') # 2
    BY <2>2
  <2>4. QED
    BY <1>0, <2>1, <2>2, <2>3 DEF OnTheWay, Ended, k
<1>7. CASE Queue
  <2>1. /\ mpc = "emit" /\ layers = <<>> /\ mpc' \in {"get", "loop"}
        /\ UNCHANGED <<driver, layers, ready, slot, bpc, npc, sent, pictures>>
    BY <1>7 DEF Queue
  <2>2. QED
    BY <1>0, <2>1 DEF OnTheWay
<1>8. CASE Bradcast
  <2>1. /\ slot # NoLayer /\ bpc' = "reset" /\ sent' \in {sent, slot.n}
        /\ UNCHANGED <<driver, mpc, layers, ready, slot, npc, pictures>>
    BY <1>8 DEF Bradcast
  <2>2. QED
    BY <1>0, <2>1 DEF OnTheWay
<1>9. CASE BradcastReset
  <2>1. /\ slot' = NoLayer /\ bpc' = "poll"
        /\ UNCHANGED <<driver, mpc, layers, ready, npc, sent, pictures>>
    BY <1>9 DEF BradcastReset
  <2>2. slot'.n <= pictures /\ (Len(layers) = 2 => slot'.n < pictures)
    BY <1>0, <2>1 DEF OnTheWay, NoLayer
  <2>3. QED
    BY <1>0, <2>1, <2>2 DEF OnTheWay
<1>10. ASSUME NEW c \in Clients, Connect(c) \/ TestEnc(c) \/ ForceIFrame(c)
       PROVE  OnTheWay'
  BY <1>0, <1>1, <1>10 DEF Connect, TestEnc, ForceIFrame, HandlerEnds, OnTheWay, Ended
<1>11. QED
  BY <1>2, <1>3, <1>4, <1>5, <1>6, <1>7, <1>8, <1>9, <1>10 DEF Next, Main

\* A client that starts to wait is told no lie: the encoder has been asked, or
\* will start afresh.
LEMMA StartsToWait ==
  ASSUME TypeOK, OnTheWay, NEW c \in Clients, npc'[c] = "done",
         since'[c] = pictures, UNCHANGED <<pictures, sent>>,
         intra' \/ ~ready' \/ enc_obj' # "live"
  PROVE  WaitsForKey(c)'
BY DEF TypeOK, Ranges, OnTheWay, WaitsForKey, KeyIsComing

\* What is on its way stays so until it arrives.
LEMMA WaitsStep ==
  ASSUME TypeOK, MainPlace, OnTheWay, Next, NEW c \in Clients, WaitsForKey(c)
  PROVE  WaitsForKey(c)'
<1> USE DEF Goto
<1> DEFINE first == since[c] + 1
           Waits == npc[c] = "done" /\ sees[c] # "key"
<1>0. /\ pictures \in Nat /\ sent \in Nat /\ slot \in Layers \cup {NoLayer} /\ slot.n \in Nat
      /\ npc \in [Clients -> {"off", "test", "force", "done"}]
      /\ sees \in [Clients -> {"nothing", "header", "key"}]
      /\ since \in [Clients -> Nat] /\ since[c] \in Nat /\ first \in Nat
      /\ bpc \in {"poll", "reset"}
  BY DEF TypeOK, Ranges, Layers, NoLayer
<1>1. ASSUME UNCHANGED <<layers, slot, bpc, sent, pictures, npc, since, sees>>,
             intra \/ ~ready \/ enc_obj # "live" => intra' \/ ~ready' \/ enc_obj' # "live"
      PROVE  WaitsForKey(c)'
  BY <1>1 DEF WaitsForKey, KeyIsComing
<1>2. CASE InitEnc \/ NullEnc \/ ReleaseEnc \/ SetInfo
  BY <1>1, <1>2 DEF InitEnc, encodec_init, NullEnc, ReleaseEnc, SetInfo
<1>3. CASE Quit \/ GetFb \/ EncodeFail \/ GetEncFb \/ PutFb \/ Drain \/ Queue
  BY <1>1, <1>3 DEF Quit, GetFb, EncodeFail, GetEncFb, PutFb, Drain, Queue
<1>4. CASE Encode
  <2>1. /\ mpc = "encode" /\ layers = <<>> /\ ready /\ enc_obj = "live" /\ slot.n <= pictures
    BY <1>4 DEF Encode, OnTheWay, MainPlace, Ended
  <2>2. /\ pictures' = pictures + 1 /\ UNCHANGED <<slot, bpc, sent, npc, since, sees>>
    BY <1>4 DEF Encode
  <2>3. intra => layers' = <<Layer(pictures', "header"), Layer(pictures', "key")>>
    BY <1>4, <2>2 DEF Encode, LayersOf, Layer
  <2>4. SUFFICES ASSUME Waits PROVE sent <= since[c] /\ KeyIsComing(c)'
    BY <2>2 DEF WaitsForKey
  <2>5. \A x, y : layers # <<x>> /\ layers # <<x, y>>
    BY <2>1
  <2>6. \/ pictures = since[c] /\ intra
        \/ slot = Layer(first, "key") /\ bpc = "poll" /\ sees[c] = "header"
    BY <2>1, <2>4, <2>5 DEF WaitsForKey, KeyIsComing
  <2>7. QED
    BY <1>0, <2>2, <2>3, <2>4, <2>6 DEF WaitsForKey, KeyIsComing
<1>5. CASE Emit
  <2>1. /\ layers # <<>> /\ slot = NoLayer /\ slot' = Head(layers) /\ layers' = Tail(layers)
        /\ UNCHANGED <<bpc, sent, npc, since, sees, pictures, enc_obj, ready, intra>>
    BY <1>5 DEF Emit
  <2>2. bpc = "poll"
    BY <1>0, <2>1 DEF OnTheWay
  <2>3. SUFFICES ASSUME Waits PROVE sent <= since[c] /\ KeyIsComing(c)'
    BY <2>1 DEF WaitsForKey
  <2>4. sent <= since[c] /\ KeyIsComing(c)
    BY <2>3 DEF WaitsForKey
  <2>5. slot # Layer(first, "header") /\ slot # Layer(first, "key")
    BY <1>0, <2>1, LayerFacts
  <2> DEFINE h == Layer(first, "header")
             k == Layer(first, "key")
  <2>6. CASE pictures = since[c] /\ (intra \/ ~ready \/ enc_obj # "live")
    BY <2>1, <2>4, <2>6 DEF KeyIsComing
  <2>7. CASE pictures = first /\ layers = <<h, k>>
    <3>1. slot' = h /\ layers' = <<k>>
      <4> HIDE DEF h, k
      <4>1. QED
        BY <2>1, <2>7, ShortSequences
    <3>2. QED
      BY <2>1, <2>2, <2>4, <2>7, <3>1 DEF KeyIsComing
  <2>8. CASE pictures = first /\ layers = <<k>> /\ sees[c] = "header"
    <3>1. slot' = k
      <4> HIDE DEF h, k
      <4>1. QED
        BY <2>1, <2>8, ShortSequences
    <3>2. QED
      BY <2>1, <2>2, <2>4, <2>8, <3>1 DEF KeyIsComing
  <2>9. QED
    BY <2>4, <2>5, <2>6, <2>7, <2>8 DEF KeyIsComing
<1>6. CASE EmitFile
  <2>1. npc'[c] = "off"
    BY <1>6 DEF EmitFile, OnTheWay
  <2>2. QED
    BY <2>1 DEF WaitsForKey
<1>7. CASE Bradcast
  <2>1. /\ bpc = "poll" /\ slot # NoLayer /\ bpc' = "reset"
        /\ sent' = IF slot.kind = "header" THEN sent ELSE slot.n
        /\ UNCHANGED <<layers, slot, npc, since, pictures, enc_obj, ready, intra>>
    BY <1>7 DEF Bradcast
  <2>2. SUFFICES ASSUME npc[c] = "done", sees'[c] # "key"
                 PROVE  sent' <= since[c] /\ KeyIsComing(c)'
    BY <2>1 DEF WaitsForKey
  <2>3. sees'[c] = Decodes(sees[c], slot.kind)
    BY <1>0, <1>7, <2>2 DEF Bradcast
  <2>4. sees[c] # "key" /\ (slot.kind = "header" => sees'[c] = "header")
    BY <1>0, <2>2, <2>3 DEF Decodes
  <2>5. sent <= since[c] /\ KeyIsComing(c)
    BY <2>2, <2>4 DEF WaitsForKey
  <2>6. CASE pictures = since[c] /\ (intra \/ ~ready \/ enc_obj # "live")
    BY <1>0, <2>1, <2>5, <2>6 DEF OnTheWay, KeyIsComing
  <2>7. CASE pictures = first /\ layers = <<Layer(first, "header"), Layer(first, "key")>>
    <3>1. slot.n <= since[c]
      BY <1>0, <2>7 DEF OnTheWay
    <3>2. QED
      BY <1>0, <2>1, <2>5, <2>7, <3>1 DEF KeyIsComing
  <2>8. CASE /\ pictures = first /\ layers = <<Layer(first, "key")>>
             /\ slot = Layer(first, "header")
    <3>1. slot.kind = "header"
      BY <1>0, <2>8, LayerFacts
    <3>2. QED
      BY <2>1, <2>4, <2>5, <2>8, <3>1 DEF KeyIsComing
  <2>9. CASE slot = Layer(first, "key") /\ sees[c] = "header"
    <3>1. slot.kind = "key"
      BY <1>0, <2>9, LayerFacts
    <3>2. QED
      BY <2>2, <2>3, <2>9, <3>1 DEF Decodes
  <2>10. QED
    BY <2>1, <2>5, <2>6, <2>7, <2>8, <2>9 DEF KeyIsComing
<1>8. CASE BradcastReset
  <2>1. /\ bpc = "reset" /\ bpc' = "poll" /\ slot' = NoLayer
        /\ UNCHANGED <<layers, sent, npc, since, sees, pictures, enc_obj, ready, intra>>
    BY <1>8 DEF BradcastReset
  <2>2. QED
    BY <2>1 DEF WaitsForKey, KeyIsComing
<1>9. ASSUME NEW d \in Clients, Connect(d) \/ TestEnc(d) \/ ForceIFrame(d)
      PROVE  WaitsForKey(c)'
  <2>1. /\ UNCHANGED <<layers, slot, bpc, sent, pictures, sees, ready, enc_obj>>
        /\ intra => intra'
    <3>1. UNCHANGED <<layers, slot, bpc, sent, pictures, sees, ready, enc_obj>>
      BY <1>9 DEF Connect, TestEnc, ForceIFrame, HandlerEnds
    <3>2. intra => intra'
      BY <1>9, Zenon DEF Connect, TestEnc, ForceIFrame, HandlerEnds
    <3>3. QED
      BY <3>1, <3>2
  <2>2. CASE npc'[c] # "done"
    BY <2>2 DEF WaitsForKey
  <2>3. CASE npc'[c] = "done" /\ npc[c] # "done"
    <3>1. d = c /\ since'[c] = pictures
      BY <1>0, <1>9, <2>3 DEF Connect, TestEnc, ForceIFrame, HandlerEnds
    <3>2. intra' \/ ~ready' \/ enc_obj' # "live"
      BY <1>0, <1>9, <2>1, <2>3, <3>1 DEF Connect, TestEnc, ForceIFrame, HandlerEnds
    <3>3. QED
      BY <2>1, <2>3, <3>1, <3>2, StartsToWait
  <2>4. CASE npc'[c] = "done" /\ npc[c] = "done"
    <3>1. since'[c] = since[c]
      BY <1>0, <1>9, <2>4 DEF Connect, TestEnc, ForceIFrame, HandlerEnds
    <3>2. QED
      BY <2>1, <2>4, <3>1 DEF WaitsForKey, KeyIsComing
  <2>5. QED
    BY <2>2, <2>3, <2>4
<1>10. QED
  BY <1>2, <1>3, <1>4, <1>5, <1>6, <1>7, <1>8, <1>9 DEF Next, Main

\* A client that joined is sent the headers and the key picture its decoder
\* needs, from the first picture encoded after its connect handler ended:
\* whether the handler reached the encoder, came before its settings, or found
\* none because the settings changed.
THEOREM JoinersDecode == Spec => []JoinerDecodes
<1> DEFINE AllWait == \A c \in Clients : WaitsForKey(c)
<1>1. Init => OnTheWay /\ AllWait
  BY DEF Init, OnTheWay, WaitsForKey, NoLayer
<1>2. TypeOK /\ MainPlace /\ OnTheWay /\ AllWait /\ [Next]_vars => OnTheWay' /\ AllWait'
  <2> SUFFICES ASSUME TypeOK, MainPlace, OnTheWay, AllWait, [Next]_vars
               PROVE  OnTheWay' /\ AllWait'
    OBVIOUS
  <2>1. CASE Next
    BY <2>1, OnTheWayStep, WaitsStep
  <2>2. CASE UNCHANGED vars
    BY <2>2 DEF vars, OnTheWay, WaitsForKey, KeyIsComing
  <2>3. QED
    BY <2>1, <2>2
<1>3. TypeOK /\ AllWait => JoinerDecodes
  BY DEF TypeOK, Ranges, WaitsForKey, JoinerDecodes
<1>4. QED
  BY <1>1, <1>2, <1>3, BuffersAlways, PTL DEF Spec
=============================================================================
