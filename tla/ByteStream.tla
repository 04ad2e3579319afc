----------------------------- MODULE ByteStream -----------------------------
(***************************************************************************)
(* What a byte queue between two threads promises: the reader is given     *)
(* every byte of the stream once and in the order it was written, and at   *)
(* most Capacity bytes are held.  A byte is its position in the stream.    *)
(***************************************************************************)
EXTENDS Naturals

CONSTANT Capacity

VARIABLES
    sent,       \* bytes the writer has published
    taken,      \* bytes the reader has consumed
    got         \* the bytes of the reader's last call, by stream position

bsVars == <<sent, taken, got>>

Init == sent = 0 /\ taken = 0 /\ got = [i \in {} |-> 0]

Append(n) ==
    /\ sent + n <= taken + Capacity
    /\ sent' = sent + n
    /\ UNCHANGED <<taken, got>>

Take(n) ==
    /\ taken + n <= sent
    /\ taken' = taken + n
    /\ got' = [i \in taken .. (taken + n - 1) |-> i]
    /\ UNCHANGED sent

Next == \E n \in 0..Capacity : Append(n) \/ Take(n)

Spec == Init /\ [][Next]_bsVars
=============================================================================
