------------------------------ MODULE DataQueue ------------------------------
(***************************************************************************)
(* struct data_queue of src/common/queue.c: a ring of QUEUE_DATA_SIZE      *)
(* bytes with two counters that only grow, buffer_head moved by the one    *)
(* writer and buffer_tail by the one reader, and no lock.  The writer is   *)
(* either a caller of enqueue_data or a socket: recv() into the room up to *)
(* the end of the array, then queue_head_point_forward.  The reader is     *)
(* either a caller of dequeue_data or a socket: send() from the data up to *)
(* the end of the array, then queue_tail_point_forward.                    *)
(*                                                                         *)
(* A byte is its position in the stream, so a byte that is lost, repeated, *)
(* overwritten or read before it is written shows.  A call that is refused *)
(* (it returns 0 or -1) changes nothing and is not a step; its check and   *)
(* an accepted call's check are one atomic_load of the other counter.      *)
(* A memcpy is one step, after the check and before the counter moves.     *)
(***************************************************************************)
EXTENDS Integers

CONSTANTS
    Size,       \* QUEUE_DATA_SIZE
    Lens,       \* the lengths callers pass
    MaxBytes    \* bound: bytes written in a behaviour

ASSUME SizeAssumption == Size \in Nat \ {0}
ASSUME LensAssumption == Lens \subseteq Nat
ASSUME MaxBytesAssumption == MaxBytes \in Nat

VARIABLES
    buffer_queue,   \* the array
    buffer_head,    \* bytes published so far
    buffer_tail,    \* bytes consumed so far
    writer,         \* [pc, left, n]: the writer's call
    reader,         \* [pc, left, n]: the reader's call
    dst,            \* what the reader has copied out, by stream position
    got             \* the bytes its last advance of buffer_tail consumed

vars == <<buffer_queue, buffer_head, buffer_tail, writer, reader, dst, got>>

Idle == [pc |-> "idle", left |-> 0, n |-> 0]
Nothing == [i \in {} |-> 0]

\* A call in progress: left bytes still to move, n of them copied but not
\* yet published or consumed.
Calls == [pc : {"idle", "window", "copy", "advance"}, left : Nat, n : Nat]

MinOf(a, b) == IF a < b THEN a ELSE b

-----------------------------------------------------------------------------

get_queue_data_count == buffer_head - buffer_tail
queue_get_free_count == Size + buffer_tail - buffer_head

queue_get_end_data_count ==
    MinOf(Size - (buffer_tail % Size), get_queue_data_count)

queue_get_end_free_count ==
    MinOf(queue_get_free_count, Size - (buffer_head % Size))

\* The array after a copy of the n bytes from stream position `from`.
Written(from, n) ==
    [s \in 0..(Size - 1) |->
        IF \E i \in from .. (from + n - 1) : i % Size = s
        THEN CHOOSE i \in from .. (from + n - 1) : i % Size = s
        ELSE buffer_queue[s]]

\* The n bytes at stream position `from`, as the array holds them now.
ReadOut(from, n) == [i \in from .. (from + n - 1) |-> buffer_queue[i % Size]]

-----------------------------------------------------------------------------

Init ==
    /\ buffer_queue = [s \in 0..(Size - 1) |-> -1]
    /\ buffer_head = 0
    /\ buffer_tail = 0
    /\ writer = Idle
    /\ reader = Idle
    /\ dst = Nothing
    /\ got = Nothing

(***************************************************************************)
(* The writer.  enqueue_data copies up to the end of the array, publishes  *)
(* that part, and copies and publishes the rest from the start: a reader   *)
(* can see the first part alone.                                           *)
(***************************************************************************)
EnqueueCheck(len) ==
    /\ writer.pc = "idle"
    /\ buffer_head + len <= MaxBytes
    /\ len <= Size
    /\ len <= queue_get_free_count
    /\ writer' = [pc |-> "copy", left |-> len, n |-> 0]
    /\ UNCHANGED <<buffer_queue, buffer_head, buffer_tail, reader, dst, got>>

EnqueueCopy ==
    /\ writer.pc = "copy"
    /\ LET n == MinOf(writer.left, Size - (buffer_head % Size))
       IN  /\ buffer_queue' = Written(buffer_head, n)
           /\ writer' = [pc |-> "advance", left |-> writer.left, n |-> n]
    /\ UNCHANGED <<buffer_head, buffer_tail, reader, dst, got>>

\* Mutant: the room offered is all of the array up to its end.
RecvWindowToEnd ==
    /\ writer.pc = "idle"
    /\ writer' = [pc |-> "window", left |-> Size - (buffer_head % Size), n |-> 0]
    /\ UNCHANGED <<buffer_queue, buffer_head, buffer_tail, reader, dst, got>>

\* _callback_recvdata: the room it offers to recv() ...
RecvWindow ==
    /\ writer.pc = "idle"
    /\ writer' = [pc |-> "window", left |-> queue_get_end_free_count, n |-> 0]
    /\ UNCHANGED <<buffer_queue, buffer_head, buffer_tail, reader, dst, got>>

\* ... of which recv() fills some; nothing received moves no counter.
RecvFill(k) ==
    /\ writer.pc = "window"
    /\ k <= writer.left
    /\ buffer_head + k <= MaxBytes
    /\ buffer_queue' = Written(buffer_head, k)
    /\ writer' = [pc |-> "advance", left |-> k, n |-> k]
    /\ UNCHANGED <<buffer_head, buffer_tail, reader, dst, got>>

\* Mutant: the whole length is published after the first part is copied.
HeadForwardWhole ==
    /\ writer.pc = "advance"
    /\ buffer_head' = buffer_head + writer.left
    /\ writer' = Idle
    /\ UNCHANGED <<buffer_queue, buffer_tail, reader, dst, got>>

\* atomic_fetch_add of buffer_head, in enqueue_data or
\* queue_head_point_forward.
HeadForward ==
    /\ writer.pc = "advance"
    /\ buffer_head' = buffer_head + writer.n
    /\ writer' = IF writer.left = writer.n THEN Idle
                 ELSE [pc |-> "copy", left |-> writer.left - writer.n, n |-> 0]
    /\ UNCHANGED <<buffer_queue, buffer_tail, reader, dst, got>>

(***************************************************************************)
(* The reader.                                                             *)
(***************************************************************************)
DequeueCheck(len) ==
    /\ reader.pc = "idle"
    /\ len <= Size
    /\ len <= get_queue_data_count
    /\ reader' = [pc |-> "copy", left |-> len, n |-> 0]
    /\ UNCHANGED <<buffer_queue, buffer_head, buffer_tail, writer, dst, got>>

DequeueCopy ==
    /\ reader.pc = "copy"
    /\ LET n == MinOf(reader.left, Size - (buffer_tail % Size))
       IN  /\ dst' = ReadOut(buffer_tail, n)
           /\ reader' = [pc |-> "advance", left |-> reader.left, n |-> n]
    /\ UNCHANGED <<buffer_queue, buffer_head, buffer_tail, writer, got>>

\* _callback_senddata: the data it offers to send() ...
SendWindow ==
    /\ reader.pc = "idle"
    /\ reader' = [pc |-> "window", left |-> queue_get_end_data_count, n |-> 0]
    /\ UNCHANGED <<buffer_queue, buffer_head, buffer_tail, writer, dst, got>>

\* ... of which send() takes some.
SendTake(k) ==
    /\ reader.pc = "window"
    /\ k <= reader.left
    /\ dst' = ReadOut(buffer_tail, k)
    /\ reader' = [pc |-> "advance", left |-> k, n |-> k]
    /\ UNCHANGED <<buffer_queue, buffer_head, buffer_tail, writer, got>>

\* Mutant: the length of the second part is the difference taken backwards.
TailForwardSwapped ==
    /\ reader.pc = "advance"
    /\ buffer_tail' = buffer_tail + reader.n
    /\ got' = dst
    /\ reader' = IF reader.left = reader.n THEN Idle
                 ELSE [pc |-> "copy", left |-> reader.n - reader.left, n |-> 0]
    /\ UNCHANGED <<buffer_queue, buffer_head, writer, dst>>

\* atomic_fetch_add of buffer_tail, in dequeue_data or
\* queue_tail_point_forward.
TailForward ==
    /\ reader.pc = "advance"
    /\ buffer_tail' = buffer_tail + reader.n
    /\ got' = dst
    /\ reader' = IF reader.left = reader.n THEN Idle
                 ELSE [pc |-> "copy", left |-> reader.left - reader.n, n |-> 0]
    /\ UNCHANGED <<buffer_queue, buffer_head, writer, dst>>

-----------------------------------------------------------------------------

Next ==
    \/ \E len \in Lens : EnqueueCheck(len)
    \/ EnqueueCopy
    \/ RecvWindow
    \/ \E k \in 0..Size : RecvFill(k)
    \/ HeadForward
    \/ \E len \in Lens : DequeueCheck(len)
    \/ DequeueCopy
    \/ SendWindow
    \/ \E k \in 0..Size : SendTake(k)
    \/ TailForward

Spec == Init /\ [][Next]_vars

-----------------------------------------------------------------------------

\* The counters, the array and the two calls have their types.
TypeOK ==
    /\ buffer_queue \in [0..(Size - 1) -> Int]
    /\ buffer_head \in Nat
    /\ buffer_tail \in Nat
    /\ writer \in Calls
    /\ reader \in Calls

(***************************************************************************)
(* A copy in progress never meets the other thread's bytes: however the    *)
(* counters moved since its check, what the writer may still write lies    *)
(* outside the unread bytes, and what the reader may still read lies       *)
(* inside the published ones.  This is what makes the lock-free ring of    *)
(* queue.c safe and lets each memcpy be one step of the model.             *)
(***************************************************************************)
CopiesDisjoint ==
    /\ buffer_head + writer.left <= buffer_tail + Size
    /\ buffer_tail + reader.left <= buffer_head

(***************************************************************************)
(* The ring is a byte stream: whatever mixture of calls, sockets and wraps *)
(* moves the bytes, the reader consumes every byte once, in order and      *)
(* intact, although enqueue_data publishes a wrapped block in two parts.   *)
(***************************************************************************)
Stream == INSTANCE ByteStream
              WITH Capacity <- Size, sent <- buffer_head, taken <- buffer_tail

ImplementsByteStream == Stream!Spec

(***************************************************************************)
(* Why the stream is right: every unread byte, and every byte copied in    *)
(* but not yet published, is in its place in the array, and the bytes      *)
(* copied out but not yet consumed are the next ones.                      *)
(***************************************************************************)
InPlace(from, n) ==
    \A i \in from .. (from + n - 1) : buffer_queue[i % Size] = i

PartOfCall(call) == call.pc = "advance" => call.n <= call.left

IInv ==
    /\ TypeOK
    /\ CopiesDisjoint
    /\ PartOfCall(writer)
    /\ PartOfCall(reader)
    /\ InPlace(buffer_tail, buffer_head - buffer_tail)
    /\ writer.pc = "advance" => InPlace(buffer_head, writer.n)
    /\ reader.pc = "advance" =>
           dst = [i \in buffer_tail .. (buffer_tail + reader.n - 1) |-> i]
=============================================================================
