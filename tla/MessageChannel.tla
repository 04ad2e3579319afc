--------------------------- MODULE MessageChannel ---------------------------
(***************************************************************************)
(* What a transport of messages promises to every sender: each message     *)
(* arrives whole, once and in the order of sending.                        *)
(***************************************************************************)
EXTENDS Naturals, Sequences

CONSTANTS Senders, Messages

VARIABLES
    sent,       \* [Senders -> Seq(Messages)], all that was handed over
    received    \* [Senders -> Seq(Messages)], all that has come out again

Init == sent = [s \in Senders |-> <<>>] /\ received = sent

Send(s, m) ==
    /\ sent' = [sent EXCEPT ![s] = Append(@, m)]
    /\ UNCHANGED received

Receive(s) ==
    /\ Len(received[s]) < Len(sent[s])
    /\ received' = [received EXCEPT ![s] = Append(@, sent[s][Len(@) + 1])]
    /\ UNCHANGED sent

Next == \E s \in Senders : (\E m \in Messages : Send(s, m)) \/ Receive(s)

Spec == Init /\ [][Next]_<<sent, received>>
=============================================================================
