-------------------------------- MODULE Kcp --------------------------------
(***************************************************************************)
(* The ARQ protocol of net/kcp/ikcp.c as net/kcp_client.c and              *)
(* net/kcp_server.c use it: two ends, each with a control block behind one *)
(* spin lock, a thread that receives datagrams, a thread that updates      *)
(* every millisecond, and callers that send.                               *)
(*                                                                         *)
(* A fragment is one unit of data, a segment without data one unit.  Time  *)
(* is abstract: a retransmission timer may expire at any flush, early at   *)
(* the price of a fault.  ikcp_nodelay(.., nc = 1) switches the congestion *)
(* window off, so cwnd, ssthresh and incr decide nothing and are left out, *)
(* as are the round-trip estimates, the log and `state'.                   *)
(***************************************************************************)
EXTENDS Integers, SequencesExt

CONSTANTS
    Ends,       \* the two ends of a connection
    Modulus,    \* 2^32: sequence numbers
    SndWnd,     \* IKCP_WND_SND
    RcvWnd,     \* IKCP_WND_RCV
    Mtu,        \* units in a datagram
    FastLimit,  \* IKCP_FASTACK_LIMIT
    FirstSn,    \* 0 in ikcp_create; else so many segments are long delivered
    MaxFaults,  \* bound: datagrams lost, doubled or overtaken, early timers
    MaxSent     \* [Ends -> Nat], bound: messages

ASSUME EndsAssumption == \E a, b \in Ends : a # b /\ Ends = {a, b}
ASSUME WindowAssumption ==
    /\ SndWnd \in Nat \ {0} /\ RcvWnd \in Nat /\ RcvWnd >= SndWnd
    /\ Modulus \in Nat /\ Modulus % 2 = 0 /\ Modulus > 2 * (SndWnd + RcvWnd)
ASSUME SizesAssumption == Mtu \in Nat /\ Mtu >= 2 /\ FastLimit \in Nat
ASSUME BoundsAssumption ==
    FirstSn \in 0..Modulus - 1 /\ MaxFaults \in Nat /\ MaxSent \in [Ends -> Nat]
\* Half the numbers are enough for the fragments of a connection: with 2^32 of
\* them, 2^31 fragments.  The code relies on it, for an old datagram would be
\* taken for a new one when its number comes round again.
ASSUME LifetimeAssumption ==
    \A e \in Ends : MaxSent[e] * (RcvWnd - 1) + RcvWnd <= Modulus \div 2

VARIABLES
    kcp,        \* [Ends -> control block]
    pc,         \* [Ends -> {"wait", "recv"}], the receiving thread
    net,        \* [Ends -> Seq(datagram)], datagrams on their way to an end
    faults,     \* bound
    sent,       \* [Ends -> Seq(message)], history: accepted by ikcp_send
    starts,     \* [Ends -> Seq(Nat)], history: where in the stream of fragments
                \* each of these messages starts, and where the next one will
    received    \* [Ends -> Seq(message)], history: returned by ikcp_recv

vars == <<kcp, pc, net, faults, sent, starts, received>>

-----------------------------------------------------------------------------

Peer(e) == CHOOSE p \in Ends : p # e

\* The n fragments of message id, numbered downwards.
Message(id, n) == [i \in 1..n |-> [id |-> id, frg |-> n - i]]

\* Mutant: sequence numbers are compared as they stand.
DiffPlain(later, earlier) == later - earlier

\* _itimediff: the difference as a signed integer.
Diff(later, earlier) ==
    ((later - earlier + Modulus \div 2) % Modulus) - Modulus \div 2

Plus(sn, n) == (sn + n) % Modulus

\* The control block, its buffers empty.
ikcp_create ==
    [snd_queue |-> <<>>, snd_buf |-> <<>>, rcv_buf |-> <<>>, rcv_queue |-> <<>>,
     snd_una |-> FirstSn, snd_nxt |-> FirstSn, rcv_nxt |-> FirstSn,
     acklist |-> <<>>, rmt_wnd |-> RcvWnd, probe |-> {}, probe_wait |-> FALSE,
     updated |-> FirstSn > 0]

Init ==
    /\ kcp = [e \in Ends |-> ikcp_create]
    /\ pc = [e \in Ends |-> "wait"]
    /\ net = [e \in Ends |-> <<>>]
    /\ faults = 0
    /\ sent = [e \in Ends |-> <<>>]
    /\ starts = [e \in Ends |-> <<0>>]
    /\ received = [e \in Ends |-> <<>>]

-----------------------------------------------------------------------------
(***************************************************************************)
(* Receiving.  The operators take a control block and return it changed.   *)
(***************************************************************************)
\* The longest prefix of 1..n that lies in good.
PrefixLength(n, good) == Max({m \in 0..n : 1..m \subseteq good})

ikcp_parse_una(k, una) ==
    LET acked == {i \in DOMAIN k.snd_buf : Diff(una, k.snd_buf[i].sn) > 0}
        n     == PrefixLength(Len(k.snd_buf), acked)
    IN  [k EXCEPT !.snd_buf = SubSeq(@, n + 1, Len(@))]

ikcp_shrink_buf(k) ==
    [k EXCEPT !.snd_una = IF k.snd_buf = <<>> THEN k.snd_nxt
                                              ELSE Head(k.snd_buf).sn]

Outstanding(k, sn) == Diff(sn, k.snd_una) >= 0 /\ Diff(sn, k.snd_nxt) < 0

ikcp_parse_ack(k, sn) ==
    LET at == {i \in DOMAIN k.snd_buf : k.snd_buf[i].sn = sn}
    IN  IF Outstanding(k, sn) /\ at # {}
        THEN [k EXCEPT !.snd_buf = RemoveAt(@, Min(at))]
        ELSE k

\* fastack is compared with fastresend = 1 only, so that it is one bit here.
ikcp_parse_fastack(k, sn) ==
    IF Outstanding(k, sn)
    THEN [k EXCEPT !.snd_buf =
            [i \in DOMAIN @ |->
                IF Diff(sn, @[i].sn) > 0 THEN [@[i] EXCEPT !.fastack = TRUE] ELSE @[i]]]
    ELSE k

\* What is next in order goes from rcv_buf to rcv_queue as far as there is room.
MoveReady(k) ==
    LET ready == {i \in DOMAIN k.rcv_buf :
                    /\ k.rcv_buf[i].sn = Plus(k.rcv_nxt, i - 1)
                    /\ Len(k.rcv_queue) + i <= RcvWnd}
        n == PrefixLength(Len(k.rcv_buf), ready)
    IN  [k EXCEPT !.rcv_buf = SubSeq(@, n + 1, Len(@)),
                  !.rcv_queue = @ \o [i \in 1..n |-> k.rcv_buf[i].data],
                  !.rcv_nxt = Plus(@, n)]

\* Into rcv_buf, by sequence number and once.
ikcp_parse_data(k, seg) ==
    IF Diff(seg.sn, Plus(k.rcv_nxt, RcvWnd)) >= 0 \/ Diff(seg.sn, k.rcv_nxt) < 0
    THEN k
    ELSE LET at == Max({0} \cup {i \in DOMAIN k.rcv_buf :
                                    Diff(seg.sn, k.rcv_buf[i].sn) >= 0})
             repeat == at > 0 /\ k.rcv_buf[at].sn = seg.sn
         IN  MoveReady(IF repeat THEN k ELSE
                 [k EXCEPT !.rcv_buf =
                      InsertAt(@, at + 1, [sn |-> seg.sn, data |-> seg.data])])

\* The list of acknowledgements grows as it must.
ikcp_ack_push(k, sn) == [k EXCEPT !.acklist = Append(@, sn)]

\* Mutant: a segment that was received before is not acknowledged again.
PushOnce(k, seg) ==
    IF Diff(seg.sn, Plus(k.rcv_nxt, RcvWnd)) < 0 /\ Diff(seg.sn, k.rcv_nxt) >= 0
    THEN ikcp_parse_data(ikcp_ack_push(k, seg.sn), seg)
    ELSE k

\* IKCP_CMD_PUSH: acknowledged when it is in the window or before it.
Push(k, seg) ==
    IF Diff(seg.sn, Plus(k.rcv_nxt, RcvWnd)) < 0
    THEN ikcp_parse_data(ikcp_ack_push(k, seg.sn), seg)
    ELSE k

InputSegment(k, seg) ==
    LET k1 == ikcp_shrink_buf(ikcp_parse_una([k EXCEPT !.rmt_wnd = seg.wnd], seg.una))
    IN  CASE seg.cmd = "ACK"  -> ikcp_shrink_buf(ikcp_parse_ack(k1, seg.sn))
          [] seg.cmd = "PUSH" -> Push(k1, seg)
          [] seg.cmd = "WASK" -> [k1 EXCEPT !.probe = @ \cup {"TELL"}]
          [] seg.cmd = "WINS" -> k1

\* The segments of a datagram in turn, then the fast acknowledgement.
ikcp_input(k, dgram) ==
    LET after[n \in 0..Len(dgram)] ==
            IF n = 0 THEN k ELSE InputSegment(after[n - 1], dgram[n])
        k1   == after[Len(dgram)]
        acks == [i \in DOMAIN dgram |-> dgram[i].sn]
        isAck == {i \in DOMAIN dgram : dgram[i].cmd = "ACK"}
        Later(i, j) == Diff(acks[i], acks[j])
        maxack == CHOOSE i \in isAck : \A j \in isAck : Later(i, j) >= 0
    IN  IF isAck = {} THEN k1 ELSE ikcp_parse_fastack(k1, acks[maxack])

ikcp_wnd_unused(k) == RcvWnd - Len(k.rcv_queue)

\* Mutant: a message is returned before all its fragments are there.
ikcp_peeksize_partial(k) ==
    IF k.rcv_queue = <<>> THEN 0
    ELSE Min({Len(k.rcv_queue), Head(k.rcv_queue).frg + 1})

\* ikcp_peeksize: the fragments of the first message, 0 if it is not complete.
ikcp_peeksize(k) ==
    IF k.rcv_queue = <<>> \/ Len(k.rcv_queue) < Head(k.rcv_queue).frg + 1
    THEN 0
    ELSE CHOOSE n \in DOMAIN k.rcv_queue :
            k.rcv_queue[n].frg = 0 /\ \A i \in 1..n - 1 : k.rcv_queue[i].frg # 0

\* ikcp_recv, for a message that fits into BUFLEN.
ikcp_recv(k) ==
    LET k1 == MoveReady([k EXCEPT !.rcv_queue =
                            SubSeq(@, ikcp_peeksize(k) + 1, Len(@))])
        recover == Len(k.rcv_queue) >= RcvWnd /\ Len(k1.rcv_queue) < RcvWnd
    IN  IF recover THEN [k1 EXCEPT !.probe = @ \cup {"TELL"}] ELSE k1

-----------------------------------------------------------------------------
(***************************************************************************)
(* Sending.                                                                *)
(***************************************************************************)
\* The segment header that ikcp_flush fills in for all segments of a flush.
Segment(k, cmd, sn, data) ==
    [cmd |-> cmd, sn |-> sn, data |-> data,
     wnd |-> ikcp_wnd_unused(k), una |-> k.rcv_nxt]

\* The probe timer is armed when the remote window closes, and may have
\* expired at any later flush.
ProbeTimer(k, expired) ==
    IF k.rmt_wnd > 0 THEN [k EXCEPT !.probe_wait = FALSE]
    ELSE IF ~k.probe_wait THEN [k EXCEPT !.probe_wait = TRUE]
    ELSE IF expired THEN [k EXCEPT !.probe = @ \cup {"SEND"}]
    ELSE k

\* From snd_queue to snd_buf, as far as both windows allow.
FillWindow(k) ==
    LET cwnd == Min({SndWnd, k.rmt_wnd})
        room == cwnd - Diff(k.snd_nxt, k.snd_una)
        n    == Max({0, Min({room, Len(k.snd_queue)})})
        new  == [i \in 1..n |-> [sn |-> Plus(k.snd_nxt, i - 1), data |-> k.snd_queue[i],
                                 fastack |-> FALSE, xmit |-> 0]]
    IN  [k EXCEPT !.snd_queue = SubSeq(@, n + 1, Len(@)),
                  !.snd_buf = @ \o new,
                  !.snd_nxt = Plus(@, n)]

NeedSend(seg, expired) ==
    \/ seg.xmit = 0
    \/ seg.sn \in expired
    \/ seg.fastack /\ seg.xmit <= FastLimit

Resent(seg, expired) ==
    IF ~NeedSend(seg, expired) THEN seg
    ELSE [seg EXCEPT !.xmit = Min({@ + 1, FastLimit + 1}),
                     !.fastack = @ /\ (seg.xmit = 0 \/ seg.sn \in expired)]

\* The segments of buf that a flush sends, in order.
Due(buf, expired) ==
    LET due[n \in 0..Len(buf)] ==
            IF n = 0 THEN <<>>
            ELSE IF NeedSend(buf[n], expired) THEN Append(due[n - 1], buf[n])
            ELSE due[n - 1]
    IN  due[Len(buf)]

\* Segments packed into datagrams of at most Mtu units.
UnitsOf(segs) ==
    Len(segs) + Cardinality({i \in DOMAIN segs : segs[i].cmd = "PUSH"})

Pack(dgrams, seg) ==
    IF dgrams # <<>> /\ UnitsOf(Append(Last(dgrams), seg)) <= Mtu
    THEN Append(Front(dgrams), Append(Last(dgrams), seg))
    ELSE Append(dgrams, <<seg>>)

Datagrams(segs) ==
    LET packed[n \in 0..Len(segs)] ==
            IF n = 0 THEN <<>> ELSE Pack(packed[n - 1], segs[n])
    IN  packed[Len(segs)]

NoData == [id |-> 0, frg |-> 0]

\* What ikcp_flush sends: acknowledgements, probes and segments; and the
\* control block after it.
ikcp_flush(k, expired, probe_expired) ==
    IF ~k.updated THEN [k |-> k, out |-> <<>>] ELSE
    LET k1    == FillWindow(ProbeTimer(k, probe_expired))
        probe == ProbeTimer(k, probe_expired).probe
        acks  == [i \in DOMAIN k.acklist |-> Segment(k, "ACK", k.acklist[i], NoData)]
        Cmd(ask, cmd) == IF ask \in probe THEN <<Segment(k, cmd, 0, NoData)>> ELSE <<>>
        due   == Due(k1.snd_buf, expired)
        data  == [i \in DOMAIN due |-> Segment(k, "PUSH", due[i].sn, due[i].data)]
    IN  [k |-> [k1 EXCEPT !.acklist = <<>>, !.probe = {},
                          !.snd_buf = [i \in DOMAIN @ |-> Resent(@[i], expired)]],
         out |-> Datagrams(acks \o Cmd("SEND", "WASK") \o Cmd("TELL", "WINS") \o data)]

-----------------------------------------------------------------------------
(***************************************************************************)
(* The threads.                                                            *)
(***************************************************************************)
\* ikcp_output: the datagrams go to the other end.
ikcp_output(e, dgrams) == net' = [net EXCEPT ![Peer(e)] = @ \o dgrams]

\* A flush of the control block k at e, which puts its datagrams on the net.
FlushFrom(e, k, expired, probe_expired) ==
    LET f == ikcp_flush(k, expired, probe_expired)
    IN  /\ kcp' = [kcp EXCEPT ![e] = f.k]
        /\ ikcp_output(e, f.out)

\* ikcp_send queues a message; in streaming mode, which is off, it would fill
\* up the last fragment first.
ikcp_send(k, m) == [k EXCEPT !.snd_queue = @ \o m]

\* ikcp_send refuses a message of RcvWnd fragments or more.
Fragments == 1..RcvWnd - 1

\* kcp_client_send_pkt, kcp_server_send_pkt: ikcp_send and a flush.
SendPkt(e) ==
    \E n \in Fragments :
        LET m == Message(Len(sent[e]) + 1, n)
        IN  /\ Len(sent[e]) < MaxSent[e]
            /\ FlushFrom(e, ikcp_send(kcp[e], m), {}, FALSE)
            /\ sent' = [sent EXCEPT ![e] = Append(@, m)]
            /\ starts' = [starts EXCEPT ![e] = Append(@, Last(@) + n)]
            /\ UNCHANGED <<pc, faults, received>>

\* Nothing is on its way: a timer that expires now is not early.
Quiet == \A e \in Ends : net[e] = <<>> /\ kcp[e].acklist = <<>> /\ pc[e] = "wait"

\* ikcp_update with the flush due and no timer expired.
Update(e) ==
    /\ FlushFrom(e, [kcp[e] EXCEPT !.updated = TRUE], {}, FALSE)
    /\ UNCHANGED <<pc, faults, sent, starts, received>>

\* ikcp_update when timers have expired, of some segments or of the probe.
Retransmit(e, expired, probe_expired) ==
    /\ kcp[e].updated
    /\ expired # {} \/ (probe_expired /\ kcp[e].probe_wait)
    /\ IF Quiet THEN UNCHANGED faults
       ELSE faults < MaxFaults /\ faults' = faults + 1
    /\ FlushFrom(e, kcp[e], expired, probe_expired)
    /\ UNCHANGED <<pc, sent, starts, received>>

Pending(e) == {kcp[e].snd_buf[i].sn : i \in DOMAIN kcp[e].snd_buf}

\* A turn of the thread that updates every control block each millisecond.
UpdateThread(e) ==
    \/ Update(e)
    \/ \E expired \in SUBSET Pending(e), probe_expired \in BOOLEAN :
           Retransmit(e, expired, probe_expired)

\* recvfrom and ikcp_input.
Input(e) ==
    /\ pc[e] = "wait" /\ net[e] # <<>>
    /\ \E i \in DOMAIN net[e], copies \in {0, 1} :
         LET cost == copies + (IF i = 1 THEN 0 ELSE 1)
         IN  /\ faults + cost <= MaxFaults /\ faults' = faults + cost
             /\ kcp' = [kcp EXCEPT ![e] = ikcp_input(@, net[e][i])]
             /\ net' = [net EXCEPT ![e] = IF copies = 1 THEN @ ELSE RemoveAt(@, i)]
    /\ pc' = [pc EXCEPT ![e] = "recv"]
    /\ UNCHANGED <<sent, starts, received>>

\* _kcp_recvdata: the next complete message, or the end of the loop.
Recv(e) ==
    LET n == ikcp_peeksize(kcp[e])
    IN  /\ pc[e] = "recv"
        /\ IF n = 0
           THEN pc' = [pc EXCEPT ![e] = "wait"] /\ UNCHANGED <<kcp, received>>
           ELSE /\ kcp' = [kcp EXCEPT ![e] = ikcp_recv(@)]
                /\ received' = [received EXCEPT ![e] =
                                   Append(@, SubSeq(kcp[e].rcv_queue, 1, n))]
                /\ UNCHANGED pc
        /\ UNCHANGED <<net, faults, sent, starts>>

\* The network loses a datagram.
Lose(e) ==
    /\ faults < MaxFaults /\ faults' = faults + 1
    /\ \E i \in DOMAIN net[e] : net' = [net EXCEPT ![e] = RemoveAt(@, i)]
    /\ UNCHANGED <<kcp, pc, sent, starts, received>>

Next ==
    \E e \in Ends :
        SendPkt(e) \/ UpdateThread(e) \/ Input(e) \/ Recv(e) \/ Lose(e)

Spec == Init /\ [][Next]_vars

CanUpdate(e) ==
    ikcp_flush(kcp[e], {}, FALSE) # [k |-> [kcp[e] EXCEPT !.updated = TRUE], out |-> <<>>]

CanRetransmit(e) == Quiet /\ kcp[e].updated /\ (Pending(e) # {} \/ kcp[e].probe_wait)

\* Threads run, a datagram that is not lost arrives, and a timer expires when
\* nothing else happens; whether anything is sent stays open.  Each line is
\* weak fairness with the enabling condition of the action written out.
FairSpec ==
    /\ Spec
    /\ \A e \in Ends :
         /\ []<>~CanUpdate(e) \/ []<><<Update(e)>>_vars
         /\ []<>(pc[e] # "wait" \/ net[e] = <<>>) \/ []<><<Input(e)>>_vars
         /\ []<>(pc[e] # "recv") \/ []<><<Recv(e)>>_vars
         /\ []<>~CanRetransmit(e) \/ []<><<Retransmit(e, Pending(e), TRUE)>>_vars

-----------------------------------------------------------------------------

Fragment == [id : Nat, frg : 0..RcvWnd]
SeqNumber == 0..Modulus - 1

\* A segment waiting for its acknowledgement, and one that has come.
SegmentsOut ==
    [sn : SeqNumber, data : Fragment, fastack : BOOLEAN, xmit : 1..FastLimit + 1]
SegmentsIn == [sn : SeqNumber, data : Fragment]

ControlBlocks ==
    [snd_queue : Seq(Fragment), snd_buf : Seq(SegmentsOut),
     rcv_buf : Seq(SegmentsIn), rcv_queue : Seq(Fragment),
     snd_una : SeqNumber, snd_nxt : SeqNumber, rcv_nxt : SeqNumber,
     acklist : Seq(SeqNumber), rmt_wnd : 0..RcvWnd,
     probe : SUBSET {"SEND", "TELL"}, probe_wait : BOOLEAN, updated : BOOLEAN]

TypeOK ==
    /\ kcp \in [Ends -> ControlBlocks]
    /\ \A e \in Ends : Len(kcp[e].rcv_queue) <= RcvWnd

Has(buf, sn) == \E i \in DOMAIN buf : buf[i].sn = sn

\* The values have their types, and the windows of the two ends agree whatever
\* the network did to the datagrams: at most SndWnd segments are outstanding,
\* what the receiver has got was sent, what it has not got is still with the
\* sender, both buffers are in order, and the comparison modulo 2^32 never
\* takes an old number for a new one.
WindowsAgree ==
    /\ TypeOK
    /\ \A e \in Ends :
        LET s == kcp[e]  r == kcp[Peer(e)]
        IN  /\ Diff(s.snd_nxt, s.snd_una) \in 0..SndWnd
            /\ Diff(s.snd_nxt, r.rcv_nxt) >= 0
            /\ \A n \in 0..Diff(s.snd_nxt, r.rcv_nxt) - 1 :
                   \/ Has(s.snd_buf, Plus(r.rcv_nxt, n))
                   \/ Has(r.rcv_buf, Plus(r.rcv_nxt, n))
            /\ \A i \in DOMAIN s.snd_buf : Outstanding(s, s.snd_buf[i].sn)
            /\ \A i \in DOMAIN r.rcv_buf :
                   Diff(r.rcv_buf[i].sn, r.rcv_nxt) \in 0..Diff(s.snd_nxt, r.rcv_nxt) - 1
            /\ \A i \in 2..Len(s.snd_buf) :
                   Diff(s.snd_buf[i].sn, s.snd_buf[i - 1].sn) > 0
            /\ \A i \in 2..Len(r.rcv_buf) :
                   Diff(r.rcv_buf[i].sn, r.rcv_buf[i - 1].sn) > 0

\* Each direction is a channel of messages: whole, once and in order.
Channel ==
    INSTANCE MessageChannel WITH
        Senders <- Ends,
        Messages <- {Message(id, n) : id \in 1..Max({MaxSent[e] : e \in Ends}),
                                      n \in Fragments},
        received <- [e \in Ends |-> received[Peer(e)]]

ImplementsChannel == Channel!Spec

\* Every message arrives, when the network does not lose for ever.
AllDelivered ==
    \A e \in Ends : \A n \in 1..MaxSent[e] :
        Len(sent[e]) >= n ~> Len(received[Peer(e)]) >= n
=============================================================================
