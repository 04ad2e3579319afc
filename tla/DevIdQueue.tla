----------------------------- MODULE DevIdQueue -----------------------------
(***************************************************************************)
(* The ring of buffer ids between a decoder and a display                  *)
(* (common/buffer_util.c).  A queue is a record: used and free are the     *)
(* sets of ids whose flags are set, head and tail count up for ever, and   *)
(* the slot of a counter is its value modulo max_idx, the LARGEST id: slot *)
(* 0 stands for an id that is never in use, the largest id for none.       *)
(***************************************************************************)
EXTENDS Integers, FiniteSets

EmptyQueue == [used |-> {}, free |-> {}, head |-> 0, tail |-> 0, max_idx |-> 0]

Slot(q, i) == i % q.max_idx

\* Where the loops over unused slots stop; one turn of the ring visits all.
NextUsed(q, i) ==
    LET used == {j \in i..(i + q.max_idx) : Slot(q, j) \in q.used}
    IN  CHOOSE j \in used : \A k \in used : j <= k

\* dev_id_queue_set_status
SetStatus(q, id, is_used) ==
    IF id = 0 THEN q
    ELSE [q EXCEPT !.used = IF is_used THEN @ \cup {id} ELSE @ \ {id},
                   !.free = IF is_used THEN @ \cup {id} ELSE @ \ {id},
                   !.max_idx = IF id > @ THEN id ELSE @]

\* dev_id_queue_get_id and dev_id_queue_sub_id: a slot to decode into.
\* Mutant: one slot more.
FullOneMore(q) == q.max_idx = 0 \/ q.head + q.max_idx < q.tail

Full(q) == q.head + q.max_idx <= q.tail
SkipTail(q) == [q EXCEPT !.tail = NextUsed(q, @)]
TailFree(q) == Slot(q, q.tail) \in q.free
SubId(q) == [q EXCEPT !.tail = @ + 1]

\* dev_id_queue_get_buf: the next decoded buffer, no longer free.
\* Mutant: the last buffer is left in the ring.
EmptyOneLeft(q) == q.head + 1 >= q.tail

Empty(q) == q.head >= q.tail
SkipHead(q) == [q EXCEPT !.head = NextUsed(q, @)]
HeadFree(q) == Slot(q, q.head) \in q.free

\* Mutant: the buffer still counts as free.
TakeHeadKeeps(q) == q

TakeHead(q) == [q EXCEPT !.free = @ \ {Slot(q, q.head)}]
PassHead(q) == [q EXCEPT !.head = @ + 1]

\* dev_id_queue_put_buf
PutBuf(q, id) == IF id > 0 THEN [q EXCEPT !.free = @ \cup {id}] ELSE q
=============================================================================
