--------------------------- MODULE TcpServer_proofs ---------------------------
(***************************************************************************)
(* Theorems about TcpServer, for every number of clients and every size of *)
(* the send ring, of a video packet and of a response.                     *)
(***************************************************************************)
EXTENDS TcpServer, TLAPS

USE DEF clientVars, lockVars, tcpVars, kcpVars

\* What TcpEpoll may report: for a client of the table at most one event.
LEMMA BatchEvents ==
  ASSUME NEW B \in Batches
  PROVE  /\ \A e \in B :
               \/ e = <<"ACCEPT", 0>>
               \/ e[2] \in Table /\ e \in {<<interest[e[2]], e[2]>>, <<"ERR", e[2]>>}
         /\ \A e, f \in B : e[2] = f[2] => e = f
<1>1. B \subseteq Reports /\ \A e, f \in B : e[2] = f[2] => e = f
  BY Zenon DEF Batches
<1>2. ASSUME NEW e \in Reports
      PROVE  \/ e = <<"ACCEPT", 0>>
             \/ e[2] \in Table /\ e \in {<<interest[e[2]], e[2]>>, <<"ERR", e[2]>>}
  <2>1. CASE \E c \in Table : e = <<interest[c], c>>
    BY <2>1
  <2>2. CASE \E c \in Table : e = <<"ERR", c>>
    BY <2>2
  <2>3. CASE e = <<"ACCEPT", 0>>
    BY <2>3
  <2>4. QED
    BY <2>1, <2>2, <2>3, Zenon DEF Reports
<1>3. ASSUME NEW e \in B
      PROVE  \/ e = <<"ACCEPT", 0>>
             \/ e[2] \in Table /\ e \in {<<interest[e[2]], e[2]>>, <<"ERR", e[2]>>}
  <2>1. e \in Reports
    BY <1>1
  <2>2. QED
    BY <1>2, <2>1, Zenon
<1>4. QED
  BY <1>1, <1>3, Zenon

\* A part of the state that a step leaves alone stays well typed.
LEMMA UnchangedTypes ==
  ASSUME TypeOK
  PROVE  /\ UNCHANGED clientVars => ClientsTyped'
         /\ UNCHANGED kcpVars /\ UNCHANGED told => KcpTyped'
         /\ UNCHANGED <<pc, cur, events, todo, have>> => SendersTyped'
         /\ UNCHANGED <<lock, net_cb_lock, mpc, time, inputs, broadcasts,
                        teardowns, waited, fault>> => OthersTyped'
<1>1. UNCHANGED clientVars => ClientsTyped'
  BY DEF TypeOK, ClientsTyped
<1>2. UNCHANGED kcpVars /\ UNCHANGED told => KcpTyped'
  BY DEF TypeOK, KcpTyped
<1>3. UNCHANGED <<pc, cur, events, todo, have>> => SendersTyped'
  BY DEF TypeOK, SendersTyped
<1>4. UNCHANGED <<lock, net_cb_lock, mpc, time, inputs, broadcasts, teardowns,
                 waited, fault>> => OthersTyped'
  BY Zenon DEF TypeOK, OthersTyped
<1>5. QED
  BY <1>1, <1>2, <1>3, <1>4, Zenon

\* What is left of a sequence without its first k elements.
LEMMA RestOfSequence ==
  ASSUME NEW S, NEW q \in Seq(S), NEW k \in 0..Len(q)
  PROVE  /\ SubSeq(q, k + 1, Len(q)) \in Seq(S)
         /\ Len(SubSeq(q, k + 1, Len(q))) = Len(q) - k
         /\ \A i \in 1..Len(q) - k : SubSeq(q, k + 1, Len(q))[i] = q[i + k]
OBVIOUS

\* What is put into a ring is at most RingSize units.
LEMMA UnitsPut ==
  ASSUME NEW s \in Senders
  PROVE  /\ Header(s) \in Seq(Unit) /\ Len(Header(s)) = 1
         /\ Body(s) \in Seq(Unit) /\ Len(Body(s)) = BodyLen(s)
<1>1. BodyLen(s) \in 0..RingSize
  BY SizesAssumption DEF BodyLen, Senders
<1>2. Header(s) \in Seq(Unit) /\ Len(Header(s)) = 1
  BY <1>1 DEF Header, Unit, Senders
<1>3. \A i \in 1..BodyLen(s) : <<s, BodyLen(s) - i>> \in Unit
  BY <1>1, SizesAssumption DEF Unit, Senders
<1>4. Body(s) \in Seq(Unit) /\ Len(Body(s)) = BodyLen(s)
  BY <1>1, <1>3 DEF Body
<1>5. QED
  BY <1>2, <1>4

\* Putting units keeps the types, whoever puts them and whether there is room
\* for them or not.
LEMMA PutTypes ==
  ASSUME TypeOK, NEW s \in Senders, NEW units \in Seq(Unit),
         NEW from \in {"header", "body"}, NEW mutex, NEW to \in {"body", "sent"},
         NEW mutex_after \in Senders \cup {"none"},
         Put(s, units, from, mutex, to, mutex_after)
  PROVE  TypeOK'
<1> DEFINE c == cur[s]
<1> USE SizesAssumption
    DEF TypeOK, ClientsTyped, SendersTyped, OthersTyped, Ids, Senders, Answering,
        TcpWorking, BcastWorking, TcpStates, BcastStates
<1>1. c \in Ids /\ pc[s] = from
  BY DEF Put
<1>2. UNCHANGED <<client, priv, interest, wire, lockVars, cur, tcpVars, todo,
                 kcpVars, mpc, inputs, told, broadcasts, teardowns, fault>>
  BY DEF Put
<1>3. /\ ring' \in [Ids -> Seq(Unit)] /\ \A d \in Ids : Len(ring'[d]) <= RingSize
      /\ send_buf_lock' \in [Ids -> Senders \cup {"none"}]
      /\ pc' \in {[pc EXCEPT ![s] = p] : p \in {to, WaitFor(from)}}
      /\ waited' \in BOOLEAN
  <2>1. ASSUME Len(units) <= Free(c), ring' = [ring EXCEPT ![c] = @ \o units],
               send_buf_lock' = [send_buf_lock EXCEPT ![c] = mutex_after],
               pc' = [pc EXCEPT ![s] = to], UNCHANGED waited
        PROVE  <1>3!:
    <3>1. ring[c] \o units \in Seq(Unit) /\ Len(ring[c] \o units) <= RingSize
      BY <1>1, <2>1 DEF Free
    <3>2. /\ ring' \in [Ids -> Seq(Unit)]
          /\ \A d \in Ids : Len(ring'[d]) <= RingSize
      BY <1>1, <2>1, <3>1
    <3>3. QED
      BY <2>1, <3>2
  <2>2. ASSUME send_buf_lock' = [send_buf_lock EXCEPT ![c] = "none"],
               pc' = [pc EXCEPT ![s] = WaitFor(from)],
               waited' = TRUE, UNCHANGED ring
        PROVE  <1>3!:
    BY <2>2
  <2>3. QED
    BY <2>1, <2>2 DEF Put
<1>4. WaitFor(from) \in {"wait_header", "wait_body"}
  BY DEF WaitFor
<1>5. ClientsTyped'
  BY <1>2, <1>3
<1>6. SendersTyped'
  <2>1. PICK p \in {to, WaitFor(from)} : pc' = [pc EXCEPT ![s] = p]
    BY <1>3
  <2>2. p \in Answering
    BY <1>4, <2>1
  <2>3. QED
    BY <1>1, <1>2, <2>1, <2>2
<1>7. KcpTyped'
  BY <1>2, UnchangedTypes
<1>8. OthersTyped'
  BY <1>2, <1>3, Zenon
<1>9. QED
  BY <1>5, <1>6, <1>7, <1>8

\* So does taking units out of a ring.
LEMMA SendTypes ==
  ASSUME TypeOK, TcpSend
  PROVE  TypeOK'
<1> DEFINE c == cur["tcp"]
           rest(k) == SubSeq(ring[c], k + 1, Len(ring[c]))
<1>1. /\ pc["tcp"] = "send"
      /\ UNCHANGED <<client, priv, send_buf_lock, lockVars, cur, events, have, todo,
                     kcpVars, mpc, inputs, told, broadcasts, teardowns, waited, fault>>
  BY DEF TcpSend
<1>2. /\ c \in Ids
      /\ ring \in [Ids -> Seq(Unit)] /\ \A d \in Ids : Len(ring[d]) <= RingSize
      /\ wire \in [Ids -> Unit]
  BY <1>1 DEF TypeOK, ClientsTyped, SendersTyped, TcpWorking
<1>3. PICK k \in 0..Len(ring[c]) : /\ ring' = [ring EXCEPT ![c] = rest(k)]
                                  /\ wire' = [wire EXCEPT ![c] = IF k = 0 THEN @ ELSE ring[c][k]]
  BY DEF TcpSend
<1>4. rest(k) \in Seq(Unit) /\ Len(rest(k)) <= RingSize
  <2>1. ring[c] \in Seq(Unit) /\ Len(ring[c]) <= RingSize
    BY <1>2
  <2>2. rest(k) \in Seq(Unit) /\ Len(rest(k)) = Len(ring[c]) - k
    BY <2>1, RestOfSequence
  <2>3. QED
    BY <2>1, <2>2, SizesAssumption
<1>5. k # 0 => ring[c][k] \in Unit
  BY <1>2
<1>6. ring' \in [Ids -> Seq(Unit)] /\ \A d \in Ids : Len(ring'[d]) <= RingSize
  BY <1>2, <1>3, <1>4
<1>7. wire' \in [Ids -> Unit]
  BY <1>2, <1>3, <1>5
<1>8. interest' \in [Ids -> {"IN", "OUT"}] /\ time' \in 0..SignalLimit
  BY <1>2, LimitsAssumption DEF TcpSend, TypeOK, ClientsTyped, OthersTyped
<1>9. ClientsTyped'
  BY <1>1, <1>6, <1>7, <1>8 DEF TypeOK, ClientsTyped
<1>10. SendersTyped'
  <2>1. /\ pc' \in [Senders -> TcpStates \cup BcastStates]
        /\ pc'["tcp"] = "next" /\ pc'["bcast"] \in BcastStates
        /\ pc'["bcast"] \in BcastWorking => pc["bcast"] \in BcastWorking
    BY DEF TcpSend, TypeOK, SendersTyped, Senders, TcpStates, BcastStates, TcpWorking,
           BcastWorking, Answering
  <2>2. QED
    BY <1>1, <2>1 DEF TypeOK, SendersTyped, TcpStates, TcpWorking, Answering
<1>11. OthersTyped'
  BY <1>1, <1>8, Zenon DEF TypeOK, OthersTyped
<1>12. QED
  BY <1>1, <1>9, <1>10, <1>11, UnchangedTypes DEF TypeOK

\* What the threads that send work on stays typed when the TCP thread goes on.
LEMMA TcpGoes ==
  ASSUME SendersTyped, NEW p \in TcpStates, pc' = [pc EXCEPT !["tcp"] = p],
         NEW c \in Ids \cup {0}, cur' = [cur EXCEPT !["tcp"] = c],
         p \in TcpWorking => c \in Ids,
         have' \in 0..MaxInput, p \in {"handle"} \cup Answering => have' > 0,
         events' \subseteq Events, UNCHANGED todo
  PROVE  SendersTyped'
<1>1. /\ pc' \in [Senders -> TcpStates \cup BcastStates]
      /\ pc'["tcp"] = p /\ pc'["bcast"] = pc["bcast"]
  BY DEF SendersTyped, Senders
<1>2. /\ cur' \in [Senders -> Ids \cup {0}]
      /\ cur'["tcp"] = c /\ cur'["bcast"] = cur["bcast"]
  BY DEF SendersTyped, Senders
<1>3. QED
  BY Zenon, <1>1, <1>2 DEF SendersTyped

\* The same when it stays with the client it works on.
LEMMA TcpGoesOn ==
  ASSUME SendersTyped, NEW p \in TcpStates, pc' = [pc EXCEPT !["tcp"] = p],
         p \in TcpWorking => pc["tcp"] \in TcpWorking,
         have' \in 0..MaxInput, p \in {"handle"} \cup Answering => have' > 0,
         UNCHANGED <<cur, events, todo>>
  PROVE  SendersTyped'
<1>1. cur["tcp"] \in Ids \cup {0} /\ (p \in TcpWorking => cur["tcp"] \in Ids)
  BY DEF SendersTyped, Senders
<1>2. cur' = [cur EXCEPT !["tcp"] = cur["tcp"]]
  BY DEF SendersTyped, Senders
<1>3. events' \subseteq Events
  BY DEF SendersTyped
<1>4. QED
  BY <1>1, <1>2, <1>3, TcpGoes

\* The same when the broadcaster goes on.
LEMMA BcastGoes ==
  ASSUME SendersTyped, NEW p \in BcastStates, pc' = [pc EXCEPT !["bcast"] = p],
         NEW c \in Ids \cup {0}, cur' = [cur EXCEPT !["bcast"] = c],
         p \in BcastWorking => c \in Ids,
         UNCHANGED <<events, have>>, todo' \subseteq Ids
  PROVE  SendersTyped'
<1>1. /\ pc' \in [Senders -> TcpStates \cup BcastStates]
      /\ pc'["bcast"] = p /\ pc'["tcp"] = pc["tcp"]
  BY DEF SendersTyped, Senders
<1>2. /\ cur' \in [Senders -> Ids \cup {0}]
      /\ cur'["bcast"] = c /\ cur'["tcp"] = cur["tcp"]
  BY DEF SendersTyped, Senders
<1>3. QED
  BY Zenon, <1>1, <1>2 DEF SendersTyped

\* The same when it stays with the client it works on.
LEMMA BcastGoesOn ==
  ASSUME SendersTyped, NEW p \in BcastStates, pc' = [pc EXCEPT !["bcast"] = p],
         p \in BcastWorking => pc["bcast"] \in BcastWorking,
         UNCHANGED <<cur, events, have>>, todo' \subseteq Ids
  PROVE  SendersTyped'
<1>1. cur["bcast"] \in Ids \cup {0} /\ (p \in BcastWorking => cur["bcast"] \in Ids)
  BY DEF SendersTyped, Senders
<1>2. cur' = [cur EXCEPT !["bcast"] = cur["bcast"]]
  BY DEF SendersTyped, Senders
<1>3. QED
  BY <1>1, <1>2, BcastGoes

\* What is read is within the bound on what the peers send.
LEMMA InputsRead ==
  ASSUME inputs \in 0..MaxInput, NEW h \in 0..MaxInput - inputs
  PROVE  inputs + h \in 0..MaxInput /\ h \in 0..MaxInput
BY LimitsAssumption

\* One packet less to handle, and some left unless it was the last.
LEMMA OneHandled ==
  ASSUME NEW n \in 0..MaxInput, n > 0
  PROVE  n - 1 \in 0..MaxInput /\ (n # 1 => n - 1 > 0)
BY LimitsAssumption

\* Every reachable state of the transport is well typed.
THEOREM TcpTypeCorrect == Spec => []TypeOK
<1> USE SizesAssumption, LimitsAssumption
    DEF TypeOK, ClientsTyped, SendersTyped, KcpTyped, OthersTyped, Ids, Senders, Unit, Answering, TcpWorking, BcastWorking, TcpStates, BcastStates, Events,
        Goto, Alive, KcpStep
<1>1. Init => TypeOK
  <2> SUFFICES ASSUME Init PROVE TypeOK
    OBVIOUS
  <2>1. <<"tcp", 0>> \in Unit
    BY SMT
  <2>2. /\ ring \in [Ids -> Seq(Unit)]
        /\ \A c \in Ids : Len(ring[c]) <= RingSize
    BY DEF Init
  <2>3. /\ priv \in [Ids -> BOOLEAN] /\ waited \in BOOLEAN
        /\ wire \in [Ids -> Unit]
    BY <2>1, Zenon DEF Init, NoUnit
  <2>4. ClientsTyped
    BY <2>2, <2>3, Zenon DEF Init
  <2>5. SendersTyped
    BY DEF Init
  <2>6. KcpTyped
    BY Zenon DEF Init
  <2>7. OthersTyped
    BY <2>3 DEF Init
  <2>8. QED
    BY <2>4, <2>5, <2>6, <2>7, Zenon
<1>2. TypeOK /\ [Next]_vars => TypeOK'
  <2> SUFFICES ASSUME TypeOK, [Next]_vars PROVE TypeOK'
    OBVIOUS
  <2>1. CASE TcpEpoll
    <3>1. events' \in Batches /\ pc' = [pc EXCEPT !["tcp"] = "next"]
      BY <2>1 DEF TcpEpoll
    <3>2. events' \subseteq Events
      BY <3>1, BatchEvents DEF Table
    <3>3. SendersTyped'
      BY <2>1, <3>1, <3>2 DEF TcpEpoll
    <3>4. QED
      BY <2>1, <3>3, UnchangedTypes DEF TcpEpoll
  <2> HIDE DEF ClientsTyped, SendersTyped
  <2>0. SendersTyped
    BY Zenon
  <2>2. CASE TcpNext
    <3>0. UNCHANGED <<clientVars, lockVars, time, todo, kcpVars, mpc, told,
                      broadcasts, teardowns, waited, fault>>
      BY <2>2, Zenon DEF TcpNext
    <3>1. ClientsTyped' /\ KcpTyped'
      BY Zenon, <3>0, UnchangedTypes
    <3>2. inputs' \in 0..MaxInput => OthersTyped'
      BY Zenon, <3>0
    <3>3. ASSUME pc' = [pc EXCEPT !["tcp"] = "check"],
                 cur' = [cur EXCEPT !["tcp"] = 0],
                 UNCHANGED <<events, have, inputs>>
          PROVE  TypeOK'
      <4>1. have' \in 0..MaxInput /\ events' \subseteq Events /\ UNCHANGED todo
        BY Zenon, <3>0, <3>3 DEF SendersTyped
      <4>2. SendersTyped'
        <5>1. /\ "check" \in TcpStates /\ "check" \notin TcpWorking
              /\ "check" \notin {"handle"} \cup Answering /\ 0 \in Ids \cup {0}
          OBVIOUS
        <5> HIDE DEF TypeOK, TcpStates, TcpWorking, BcastStates, BcastWorking, Answering, Ids, Events, Senders
        <5>2. QED
          BY <2>0, <3>3, <4>1, <5>1, TcpGoes
      <4>3. QED
        BY Zenon, <3>1, <3>2, <3>3, <4>2
    <3>4. ASSUME NEW e \in events, NEW p,
                 events' = events \ {e},
                 cur' = [cur EXCEPT !["tcp"] = e[2]],
                 have' \in IF e[1] = "IN" THEN 0..MaxInput - inputs ELSE {0},
                 inputs' = inputs + have',
                 pc' = [pc EXCEPT !["tcp"] = p],
                 p = CASE e[1] = "ACCEPT" -> "insert"
                       [] e[1] = "OUT" -> "send"
                       [] e[1] = "IN" /\ have' > 0 -> "handle"
                       [] OTHER -> "remove"
          PROVE  TypeOK'
      <4>1. e \in Events /\ events' \subseteq Events
        BY Zenon, <3>4 DEF SendersTyped
      <4>2. e[2] \in Ids \cup {0} /\ (e[1] # "ACCEPT" => e[2] \in Ids)
        BY <4>1
      <4>3. inputs' \in 0..MaxInput /\ have' \in 0..MaxInput
        <5>1. inputs \in 0..MaxInput
          BY Zenon
        <5>2. CASE e[1] = "IN"
          BY Zenon, <3>4, <5>1, <5>2, InputsRead
        <5>3. CASE e[1] # "IN"
          <6>1. have' = 0 /\ inputs' = inputs
            BY <3>4, <5>1, <5>3
          <6>2. QED
            BY <5>1, <6>1
        <5>4. QED
          BY <5>2, <5>3
      <4>4. /\ p \in {"insert", "send", "handle", "remove"}
            /\ p = "insert" => e[1] = "ACCEPT"
            /\ e[1] = "ACCEPT" => p = "insert"
            /\ p = "handle" => have' > 0
        BY <3>4
      <4>5. UNCHANGED todo
        BY Zenon, <3>0
      <4>6. SendersTyped'
        <5>1. /\ p \in TcpStates /\ (p \in TcpWorking => p # "insert")
              /\ p \in {"handle"} \cup Answering => p = "handle"
          BY <4>4
        <5> HIDE DEF TypeOK, TcpStates, TcpWorking, BcastStates, BcastWorking, Answering, Ids, Events, Senders
        <5>2. p \in TcpWorking => e[2] \in Ids
          BY Zenon, <4>2, <4>4, <5>1
        <5>3. p \in {"handle"} \cup Answering => have' > 0
          BY Zenon, <4>4, <5>1
        <5>4. QED
          BY <2>0, <3>4, <4>1, <4>2, <4>3, <4>5, <5>1, <5>2, <5>3, TcpGoes
      <4>7. QED
        BY Zenon, <3>1, <3>2, <4>3, <4>6
    <3>5. QED
      BY <2>2, <3>3, <3>4 DEF TcpNext
  <2>3. CASE TcpInsert
    <3>1. PICK c \in Ids : /\ client' = [client EXCEPT ![c] = "open"]
                          /\ cur' = [cur EXCEPT !["tcp"] = c]
      BY <2>3, Zenon DEF TcpInsert
    <3>2. /\ pc' = [pc EXCEPT !["tcp"] = "connect"]
          /\ UNCHANGED <<priv, interest, ring, wire, send_buf_lock, lockVars, tcpVars,
                         todo, kcpVars, mpc, inputs, told, broadcasts, teardowns,
                         waited, fault>>
      BY <2>3, Zenon DEF TcpInsert
    <3>3. ClientsTyped'
      BY <3>1, <3>2 DEF ClientsTyped
    <3>4. have' \in 0..MaxInput /\ events' \subseteq Events
      BY Zenon, <3>2 DEF SendersTyped
    <3>5. SendersTyped'
      <4>1. /\ "connect" \in TcpStates /\ "connect" \notin {"handle"} \cup Answering
            /\ c \in Ids \cup {0} /\ UNCHANGED todo
        BY <3>2
      <4> HIDE DEF TypeOK, TcpStates, TcpWorking, BcastStates, BcastWorking, Answering, Ids, Events, Senders
      <4>2. QED
        BY <2>0, <3>1, <3>2, <3>4, <4>1, TcpGoes
    <3>6. KcpTyped' /\ OthersTyped'
      BY <3>2, UnchangedTypes, Zenon
    <3>7. QED
      BY Zenon, <3>3, <3>5, <3>6
  <2>4. CASE TcpConnect
    <3>1. ClientsTyped'
      BY <2>4 DEF TcpConnect, ClientsTyped
    <3>2. SendersTyped'
      <4>1. /\ pc' = [pc EXCEPT !["tcp"] = "next"] /\ pc["tcp"] = "connect"
            /\ UNCHANGED <<cur, events, have, todo>>
        BY <2>4, Zenon DEF TcpConnect
      <4>2. have' \in 0..MaxInput
        BY Zenon, <4>1 DEF SendersTyped
      <4>3. QED
        BY <4>1, <4>2, TcpGoesOn
    <3>3. KcpTyped' /\ OthersTyped'
      BY <2>4, UnchangedTypes, Zenon DEF TcpConnect
    <3>4. QED
      BY Zenon, <3>1, <3>2, <3>3
  <2>5. CASE TcpInput
    <3>1. ClientsTyped'
      BY <2>5, UnchangedTypes, Zenon DEF TcpInput
    <3>2. SendersTyped'
      <4>1. /\ pc' = [pc EXCEPT !["tcp"] = IF have = 1 THEN "next" ELSE "handle"]
            /\ pc["tcp"] = "handle" /\ have' = have - 1
            /\ UNCHANGED <<cur, events, todo>>
        BY <2>5, Zenon DEF TcpInput
      <4>2. have \in 0..MaxInput /\ have > 0
        BY <4>1 DEF SendersTyped
      <4>3. have' \in 0..MaxInput /\ (have # 1 => have' > 0)
        BY Zenon, <4>1, <4>2, OneHandled
      <4>4. QED
        BY <4>1, <4>3, TcpGoesOn
    <3>3. KcpTyped' /\ OthersTyped'
      BY <2>5, UnchangedTypes, Zenon DEF TcpInput
    <3>4. QED
      BY Zenon, <3>1, <3>2, <3>3
  <2>6. CASE TcpRequest
    <3>1. ClientsTyped'
      BY <2>6, UnchangedTypes, Zenon DEF TcpRequest
    <3>2. SendersTyped'
      <4>1. /\ pc' = [pc EXCEPT !["tcp"] = IF cur["tcp"] \in kcp_enable THEN "sent"
                                                                     ELSE "header"]
            /\ pc["tcp"] = "handle" /\ UNCHANGED <<cur, events, have, todo>>
        BY <2>6, Zenon DEF TcpRequest
      <4>2. have' \in 0..MaxInput /\ have' > 0
        BY <4>1 DEF SendersTyped
      <4>3. QED
        BY <4>1, <4>2, TcpGoesOn
    <3>3. KcpTyped'
      <4>1. cur["tcp"] \in Ids
        BY <2>6 DEF TcpRequest, SendersTyped
      <4>2. QED
        BY <2>6, <4>1 DEF TcpRequest
    <3>4. OthersTyped'
      BY <2>6, Zenon DEF TcpRequest
    <3>5. QED
      BY Zenon, <3>1, <3>2, <3>3, <3>4
  <2>7. ASSUME NEW s \in Senders, PutHeader(s) PROVE TypeOK'
    <3>1. Put(s, Header(s), "header", {"none"}, "body", s)
      BY <2>7, Zenon DEF PutHeader
    <3>2. Header(s) \in Seq(Unit)
      BY UnitsPut, Zenon
    <3> HIDE DEF TypeOK, Senders, Unit
    <3>3. QED
      BY <3>1, <3>2, PutTypes
  <2>8. ASSUME NEW s \in Senders, PutBody(s) PROVE TypeOK'
    <3>1. Put(s, Body(s), "body", {"none", s}, "sent", "none")
      BY <2>8, Zenon DEF PutBody
    <3>2. Body(s) \in Seq(Unit)
      BY UnitsPut, Zenon
    <3> HIDE DEF TypeOK, Senders, Unit
    <3>3. QED
      BY <3>1, <3>2, PutTypes
  <2>9. CASE TcpAnswered
    <3>1. ClientsTyped'
      BY <2>9, UnchangedTypes, Zenon DEF TcpAnswered
    <3>2. SendersTyped'
      <4>1. /\ pc' = [pc EXCEPT !["tcp"] = IF have = 1 THEN "next" ELSE "handle"]
            /\ pc["tcp"] = "sent" /\ have' = have - 1
            /\ UNCHANGED <<cur, events, todo>>
        BY <2>9, Zenon DEF TcpAnswered
      <4>2. have \in 0..MaxInput /\ have > 0
        BY <4>1 DEF SendersTyped
      <4>3. have' \in 0..MaxInput /\ (have # 1 => have' > 0)
        BY Zenon, <4>1, <4>2, OneHandled
      <4>4. QED
        BY <4>1, <4>3, TcpGoesOn
    <3>3. KcpTyped' /\ OthersTyped'
      BY <2>9, UnchangedTypes, Zenon DEF TcpAnswered
    <3>4. QED
      BY Zenon, <3>1, <3>2, <3>3
  <2>10. CASE TcpRemove
    <3>1. ClientsTyped'
      BY <2>10 DEF TcpRemove, ClientsTyped
    <3>2. SendersTyped'
      <4>1. /\ pc' = [pc EXCEPT !["tcp"] = "next"] /\ pc["tcp"] = "remove"
            /\ UNCHANGED <<cur, events, have, todo>>
        BY <2>10, Zenon DEF TcpRemove
      <4>2. have' \in 0..MaxInput
        BY Zenon, <4>1 DEF SendersTyped
      <4>3. QED
        BY <4>1, <4>2, TcpGoesOn
    <3>3. KcpTyped' /\ OthersTyped'
      BY <2>10, UnchangedTypes, Zenon DEF TcpRemove
    <3>4. QED
      BY Zenon, <3>1, <3>2, <3>3
  <2>11. CASE TcpSend
    BY <2>11, SendTypes, Zenon
  <2>12. CASE TcpCheck
    <3>1. ClientsTyped'
      BY <2>12 DEF TcpCheck, CheckNeedSend, ClientsTyped
    <3>2. SendersTyped'
      <4>1. /\ pc' = [pc EXCEPT !["tcp"] = "idle"] /\ pc["tcp"] = "check"
            /\ UNCHANGED <<cur, events, have, todo>>
        BY <2>12, Zenon DEF TcpCheck, CheckNeedSend
      <4>2. have' \in 0..MaxInput
        BY Zenon, <4>1 DEF SendersTyped
      <4>3. QED
        BY <4>1, <4>2, TcpGoesOn
    <3>3. KcpTyped' /\ OthersTyped'
      BY <2>12, UnchangedTypes, Zenon DEF TcpCheck, CheckNeedSend
    <3>4. QED
      BY Zenon, <3>1, <3>2, <3>3
  <2>13. CASE BcastLock
    <3>1. ClientsTyped'
      BY <2>13, UnchangedTypes, Zenon DEF BcastLock
    <3>2. SendersTyped'
      <4>1. /\ pc' = [pc EXCEPT !["bcast"] = "next"] /\ pc["bcast"] = "idle"
            /\ UNCHANGED <<cur, events, have>>
        BY <2>13, Zenon DEF BcastLock
      <4>2. todo' \subseteq Ids
        BY <2>13 DEF BcastLock, Table
      <4>3. QED
        BY <4>1, <4>2, BcastGoesOn
    <3>3. KcpTyped'
      BY <2>13, UnchangedTypes, Zenon DEF BcastLock
    <3>4. broadcasts' \in 0..MaxBroadcasts
      BY <2>13 DEF BcastLock
    <3>5. OthersTyped'
      BY <2>13, <3>4, Zenon DEF BcastLock
    <3>6. QED
      BY Zenon, <3>1, <3>2, <3>3, <3>5
  <2>14. CASE BcastNext
    <3>0. UNCHANGED <<clientVars, net_cb_lock, tcpVars, kcpVars, mpc, inputs,
                      told, broadcasts, teardowns, waited, fault>>
      BY <2>14, Zenon DEF BcastNext, NextClient
    <3>1. ClientsTyped' /\ KcpTyped' /\ (lock' \in {"none", "bcast"} => OthersTyped')
      BY Zenon, <3>0, UnchangedTypes
    <3>2. ASSUME lock' = "none",
                 pc' = [pc EXCEPT !["bcast"] = "idle"],
                 cur' = [cur EXCEPT !["bcast"] = 0],
                 UNCHANGED todo
          PROVE  TypeOK'
      <4>1. UNCHANGED <<events, have>> /\ todo' \subseteq Ids
        BY Zenon, <3>0, <3>2 DEF SendersTyped
      <4>2. SendersTyped'
        <5>1. /\ "idle" \in BcastStates /\ "idle" \notin BcastWorking
              /\ 0 \in Ids \cup {0}
          OBVIOUS
        <5> HIDE DEF TypeOK, TcpStates, TcpWorking, BcastStates, BcastWorking, Answering, Ids, Events, Senders
        <5>2. QED
          BY <2>0, <3>2, <4>1, <5>1, BcastGoes
      <4>3. QED
        BY <3>1, <3>2, <4>2
    <3>3. ASSUME NEW c \in todo, NEW p,
                 todo' = todo \ {c},
                 cur' = [cur EXCEPT !["bcast"] = c],
                 p = CASE ~priv[c] -> "next"
                       [] priv[c] /\ c \in kcp_enable -> "kcp"
                       [] OTHER -> "room",
                 pc' = [pc EXCEPT !["bcast"] = p],
                 UNCHANGED lock
          PROVE  TypeOK'
      <4>1. p \in {"next", "kcp", "room"}
        BY <3>3
      <4>2. UNCHANGED <<events, have>> /\ todo' \subseteq Ids /\ c \in Ids
        BY Zenon, <3>0, <3>3 DEF SendersTyped
      <4>3. SendersTyped'
        <5>1. p \in BcastStates /\ c \in Ids \cup {0}
          BY <4>1, <4>2
        <5> HIDE DEF TypeOK, TcpStates, TcpWorking, BcastStates, BcastWorking, Answering, Ids, Events, Senders
        <5>2. QED
          BY <2>0, <3>3, <4>2, <5>1, BcastGoes
      <4>4. QED
        BY <3>1, <3>3, <4>3
    <3>4. QED
      BY <2>14, <3>2, <3>3 DEF BcastNext, NextClient
  <2>15. CASE BcastKcp
    <3>1. ClientsTyped'
      BY <2>15, UnchangedTypes, Zenon DEF BcastKcp
    <3>2. SendersTyped'
      <4>1. /\ pc' = [pc EXCEPT !["bcast"] = "next"] /\ pc["bcast"] = "kcp"
            /\ UNCHANGED <<cur, events, have>>
        BY <2>15, Zenon DEF BcastKcp
      <4>2. todo' \subseteq Ids
        BY <2>15 DEF BcastKcp, SendersTyped
      <4>3. QED
        BY <4>1, <4>2, BcastGoesOn
    <3>3. KcpTyped' /\ OthersTyped'
      BY <2>15, UnchangedTypes, Zenon DEF BcastKcp
    <3>4. QED
      BY Zenon, <3>1, <3>2, <3>3
  <2>16. CASE BcastRoom
    <3>1. ClientsTyped'
      BY <2>16, UnchangedTypes, Zenon DEF BcastRoom, RoomFor
    <3>2. SendersTyped'
      <4>1. /\ pc' = [pc EXCEPT !["bcast"] = IF Free(cur["bcast"]) < VideoLen + 1 THEN "next" ELSE "header"] /\ pc["bcast"] = "room"
            /\ UNCHANGED <<cur, events, have>>
        BY <2>16, Zenon DEF BcastRoom, RoomFor
      <4>2. todo' \subseteq Ids
        BY <2>16 DEF BcastRoom, RoomFor, SendersTyped
      <4>3. QED
        BY <4>1, <4>2, BcastGoesOn
    <3>3. KcpTyped' /\ OthersTyped'
      BY <2>16, UnchangedTypes, Zenon DEF BcastRoom, RoomFor
    <3>4. QED
      BY Zenon, <3>1, <3>2, <3>3
  <2>17. ASSUME NEW c \in Ids, KcpRecv(c) PROVE TypeOK'
    BY <2>17, UnchangedTypes DEF KcpRecv, NewClient
  <2>18. CASE KcpFind
    BY <2>18, UnchangedTypes DEF KcpFind, Found
  <2>19. CASE KcpUse
    <3>1. kcur \in kcp_table
      BY <2>19 DEF KcpUse
    <3>2. CASE client[kcur] = "open"
      <4>1. ClientsTyped' /\ SendersTyped'
        BY <2>19, UnchangedTypes DEF KcpUse
      <4>2. KcpTyped'
        <5>1. /\ kcp_client' = kcp_client \cup {kcur} /\ kcp_priv' = kcp_priv \cup {kcur}
              /\ kpc' = "enable" /\ UNCHANGED <<kcur, kcp_table, kcp_enable, told>>
          BY <2>19, <3>2 DEF KcpUse
        <5>2. QED
          BY <3>1, <5>1
      <4>3. OthersTyped'
        BY <2>19, <3>2, UnchangedTypes DEF KcpUse
      <4>4. QED
        BY <4>1, <4>2, <4>3
    <3>3. CASE client[kcur] # "open"
      BY <2>19, <3>1, <3>3, UnchangedTypes DEF KcpUse
    <3>4. QED
      BY <3>2, <3>3
  <2>20. CASE KcpEnable
    BY <2>20, UnchangedTypes DEF KcpEnable
  <2>21. CASE KcpNothing
    BY <2>21, UnchangedTypes DEF KcpNothing
  <2>22. CASE KcpInput
    <3>1. inputs' \in 0..MaxInput
      BY <2>22 DEF KcpInput
    <3>2. QED
      BY <2>22, <3>1, UnchangedTypes DEF KcpInput
  <2>23. CASE KcpRequest
    <3>1. inputs' \in 0..MaxInput
      BY <2>23 DEF KcpRequest, RequestFrom
    <3>2. QED
      BY <2>23, <3>1, UnchangedTypes DEF KcpRequest, RequestFrom
  <2>24. ASSUME NEW getid \in BOOLEAN, KcpRespond(getid) PROVE TypeOK'
    BY <2>24, UnchangedTypes DEF KcpRespond
  <2>25. CASE MainLock
    <3>1. ClientsTyped' /\ SendersTyped' /\ KcpTyped'
      BY <2>25, UnchangedTypes DEF MainLock
    <3>2. teardowns' \in 0..MaxTearDowns
      BY <2>25 DEF MainLock
    <3>3. OthersTyped'
      BY <2>25, <3>2, Zenon DEF MainLock
    <3>4. QED
      BY <3>1, <3>3
  <2>26. CASE MainJoin
    BY <2>26, UnchangedTypes DEF MainJoin
  <2>27. CASE UNCHANGED vars
    BY <2>27, UnchangedTypes DEF vars
  <2>28. QED
    BY <2>1, <2>2, <2>3, <2>4, <2>5, <2>6, <2>7, <2>8, <2>9, <2>10, <2>11,
       <2>12, <2>13, <2>14, <2>15, <2>16, <2>17, <2>18, <2>19, <2>20, <2>21,
       <2>22, <2>23, <2>24, <2>25, <2>26, <2>27
    DEF Next, TcpThread, BcastWork, KcpThread
<1>3. QED
  BY <1>1, <1>2, PTL DEF Spec

-----------------------------------------------------------------------------

\* net_cb_lock is with the thread whose program counter says so.
CallbackLock ==
    /\ kpc = "respond" => net_cb_lock = "kcp"
    /\ pc["tcp"] \in Answering => net_cb_lock = "tcp"
    /\ mpc = "join" => net_cb_lock = "main"

\* A thread that answers a request has net_cb_lock until the answer is copied.
LEMMA CallbackLockStep ==
  ASSUME TypeOK, CallbackLock, [Next]_vars
  PROVE  CallbackLock'
<1> USE DEF CallbackLock, Answering, Goto, Alive, KcpStep
<1>0. pc \in [Senders -> TcpStates \cup BcastStates] /\ "tcp" \in Senders /\ "bcast" \in Senders
  BY DEF TypeOK, SendersTyped, Senders
<1>1. CASE TcpEpoll
  BY <1>0, <1>1 DEF TcpEpoll
<1>2. CASE TcpNext
  BY <1>0, <1>2 DEF TcpNext
<1>3. CASE TcpInsert
  BY <1>0, <1>3 DEF TcpInsert
<1>4. CASE TcpConnect
  BY <1>0, <1>4 DEF TcpConnect
<1>5. CASE TcpInput
  BY <1>0, <1>5 DEF TcpInput
<1>6. CASE TcpRequest
  BY <1>0, <1>6 DEF TcpRequest
<1>7. ASSUME NEW s \in Senders, PutHeader(s) \/ PutBody(s) PROVE CallbackLock'
  <2>1. /\ pc[s] \in Answering /\ \E p \in Answering : pc' = [pc EXCEPT ![s] = p]
        /\ UNCHANGED <<net_cb_lock, kpc, mpc>>
    BY <1>7 DEF PutHeader, PutBody, Put, WaitFor
  <2>2. QED
    BY <1>0, <2>1 DEF Senders
<1>9. CASE TcpAnswered
  BY <1>0, <1>9 DEF TcpAnswered
<1>10. CASE TcpRemove
  BY <1>0, <1>10 DEF TcpRemove
<1>11. CASE TcpSend
  BY <1>0, <1>11 DEF TcpSend
<1>12. CASE TcpCheck
  BY <1>0, <1>12 DEF TcpCheck, CheckNeedSend
<1>13. CASE BcastLock
  BY <1>0, <1>13 DEF BcastLock
<1>14. CASE BcastNext
  BY <1>0, <1>14 DEF BcastNext, NextClient
<1>15. CASE BcastKcp
  BY <1>0, <1>15 DEF BcastKcp
<1>16. CASE BcastRoom
  BY <1>0, <1>16 DEF BcastRoom, RoomFor
<1>17. ASSUME NEW c \in Ids, KcpRecv(c) PROVE CallbackLock'
  BY <1>17 DEF KcpRecv, NewClient
<1>18. CASE KcpFind
  BY <1>18 DEF KcpFind, Found
<1>19. CASE KcpUse
  BY <1>19 DEF KcpUse
<1>20. CASE KcpEnable
  BY <1>20 DEF KcpEnable
<1>21. CASE KcpNothing
  BY <1>21 DEF KcpNothing
<1>22. CASE KcpInput
  BY <1>22 DEF KcpInput
<1>23. CASE KcpRequest
  BY <1>23 DEF KcpRequest, RequestFrom
<1>24. ASSUME NEW getid \in BOOLEAN, KcpRespond(getid) PROVE CallbackLock'
  BY <1>24 DEF KcpRespond
<1>25. CASE MainLock
  BY <1>25 DEF MainLock
<1>26. CASE MainJoin
  BY <1>26 DEF MainJoin
<1>27. CASE UNCHANGED vars
  BY <1>27 DEF vars
<1>28. QED
  BY <1>1, <1>2, <1>3, <1>4, <1>5, <1>6, <1>7, <1>9, <1>10, <1>11, <1>12, <1>13,
     <1>14, <1>15, <1>16, <1>17, <1>18, <1>19, <1>20, <1>21, <1>22, <1>23,
     <1>24, <1>25, <1>26, <1>27
  DEF Next, TcpThread, BcastWork, KcpThread, Senders

\* The KCP thread never builds a response in the static buffer of
\* server_send_event while the TCP thread still copies from it.
THEOREM ResponseBuffer == Spec => []ResponseBufferExclusive
<1>1. Init => CallbackLock
  BY DEF Init, CallbackLock, Answering, Senders
<1>2. CallbackLock => ResponseBufferExclusive
  BY DEF CallbackLock, ResponseBufferExclusive, Answering
<1>3. QED
  BY <1>1, <1>2, CallbackLockStep, TcpTypeCorrect, PTL DEF Spec

-----------------------------------------------------------------------------

\* What a thread works on, still has to work on or has an event for is in the
\* table; while the broadcaster has any of that it holds the lock of the table,
\* and the TCP thread has one event for a client at most.
WorkLive ==
    /\ lock = "none" => pc["bcast"] = "idle" /\ todo = {}
    /\ pc["bcast"] = "idle" => todo = {}
    /\ todo \subseteq Table
    /\ pc["bcast"] \in BcastWorking => cur["bcast"] \in Table
    /\ \A e \in events : e = <<"ACCEPT", 0>> \/ e[2] \in Table
    /\ \A e, f \in events : e[2] = f[2] => e = f
    /\ pc["tcp"] \in TcpWorking =>
           cur["tcp"] \in Table /\ \A e \in events : e[2] # cur["tcp"]

\* What a step has to keep for WorkLive when it leaves the clients alone and
\* takes up no new work.
LEMMA SameWork ==
  ASSUME WorkLive, UNCHANGED <<client, lock, cur, events, todo>>,
         pc'["bcast"] = "idle" <=> pc["bcast"] = "idle",
         pc'["bcast"] \in BcastWorking => pc["bcast"] \in BcastWorking,
         pc'["tcp"] \in TcpWorking => pc["tcp"] \in TcpWorking
  PROVE  WorkLive'
BY DEF WorkLive, Table

\* A client leaves the table only by TcpRemove, while no broadcast runs and
\* no other event of the batch is for it.
LEMMA WorkLiveStep ==
  ASSUME TypeOK, WorkLive, [Next]_vars
  PROVE  WorkLive'
<1> USE DEF Goto, Alive, KcpStep
<1>0. /\ pc \in [Senders -> TcpStates \cup BcastStates] /\ cur \in [Senders -> Ids \cup {0}]
      /\ client \in [Ids -> {"none", "open", "freed"}]
      /\ "tcp" \in Senders /\ "bcast" \in Senders
  BY DEF TypeOK, ClientsTyped, SendersTyped, Senders
<1>1. CASE TcpEpoll
  <2>1. /\ events' \in Batches /\ pc' = [pc EXCEPT !["tcp"] = "next"]
        /\ UNCHANGED <<client, lock, cur, todo>>
    BY <1>1 DEF TcpEpoll
  <2>2. /\ \A e \in events' : e = <<"ACCEPT", 0>> \/ e[2] \in Table
        /\ \A e, f \in events' : e[2] = f[2] => e = f
    BY <2>1, BatchEvents
  <2>3. pc'["tcp"] \notin TcpWorking /\ pc'["bcast"] = pc["bcast"]
    BY <1>0, <2>1 DEF TcpWorking, Answering
  <2>4. QED
    BY <2>1, <2>2, <2>3 DEF WorkLive, Table
<1>2. CASE TcpNext
  <2>1. UNCHANGED <<client, lock, todo>>
    BY <1>2 DEF TcpNext
  <2>2. ASSUME pc' = [pc EXCEPT !["tcp"] = "check"],
               cur' = [cur EXCEPT !["tcp"] = 0], UNCHANGED events
        PROVE  WorkLive'
    <3>1. /\ pc'["bcast"] = pc["bcast"] /\ cur'["bcast"] = cur["bcast"]
          /\ pc'["tcp"] \notin TcpWorking
      BY <1>0, <2>2 DEF TcpWorking, Answering
    <3>2. QED
      BY <2>1, <2>2, <3>1 DEF WorkLive, Table
  <2>3. ASSUME NEW e \in events, NEW p, events' = events \ {e},
               cur' = [cur EXCEPT !["tcp"] = e[2]],
               pc' = [pc EXCEPT !["tcp"] = p],
               e[1] = "ACCEPT" => p = "insert"
        PROVE  WorkLive'
    <3>1. /\ pc'["bcast"] = pc["bcast"] /\ cur'["bcast"] = cur["bcast"]
          /\ pc'["tcp"] = p /\ cur'["tcp"] = e[2]
      BY <1>0, <2>3
    <3>2. \A f \in events' : f \in events /\ f[2] # e[2]
      BY <2>3 DEF WorkLive
    <3>3. p \in TcpWorking => e[2] \in Table
      BY <2>3 DEF WorkLive, TcpWorking, Answering
    <3>4. QED
      BY <2>1, <3>1, <3>2, <3>3 DEF WorkLive, Table
  <2>4. QED
    BY <1>2, <2>2, <2>3 DEF TcpNext
<1>3. CASE TcpInsert
  <2>1. PICK c \in Ids : /\ client[c] = "none" /\ client' = [client EXCEPT ![c] = "open"]
                        /\ cur' = [cur EXCEPT !["tcp"] = c]
    BY <1>3 DEF TcpInsert, NewId
  <2>2. /\ pc'["bcast"] = pc["bcast"] /\ cur'["bcast"] = cur["bcast"] /\ cur'["tcp"] = c
        /\ UNCHANGED <<lock, events, todo>>
    BY <1>0, <1>3, <2>1 DEF TcpInsert, Senders
  <2>3. c \notin Table /\ Table' = Table \cup {c} /\ c # 0
    BY <1>0, <2>1 DEF Table, Ids
  <2>4. \A e \in events : e[2] # c
    BY <2>3 DEF WorkLive
  <2>5. QED
    BY <2>2, <2>3, <2>4 DEF WorkLive
<1>4. CASE TcpConnect
  BY <1>0, <1>4, SameWork DEF TcpConnect, TcpWorking, Answering
<1>5. CASE TcpInput
  BY <1>0, <1>5, SameWork DEF TcpInput, TcpWorking, Answering
<1>6. CASE TcpRequest
  BY <1>0, <1>6, SameWork DEF TcpRequest, TcpWorking, Answering
<1>7. ASSUME NEW s \in Senders, PutHeader(s) \/ PutBody(s) PROVE WorkLive'
  <2>1. /\ pc[s] \in Answering /\ \E p \in Answering : pc' = [pc EXCEPT ![s] = p]
        /\ UNCHANGED <<client, lock, cur, events, todo>>
    BY <1>7 DEF PutHeader, PutBody, Put, WaitFor, Answering
  <2>2. /\ pc'["bcast"] = "idle" <=> pc["bcast"] = "idle"
        /\ pc'["bcast"] \in BcastWorking => pc["bcast"] \in BcastWorking
        /\ pc'["tcp"] \in TcpWorking => pc["tcp"] \in TcpWorking
    BY <1>0, <2>1 DEF Senders, Answering, BcastWorking, TcpWorking
  <2>3. QED
    BY <2>1, <2>2, SameWork
<1>9. CASE TcpAnswered
  BY <1>0, <1>9, SameWork DEF TcpAnswered, TcpWorking, Answering
<1>10. CASE TcpRemove
  <2> DEFINE c == cur["tcp"]
  <2>1. /\ lock = "none" /\ pc["tcp"] = "remove" /\ pc' = [pc EXCEPT !["tcp"] = "next"]
        /\ client' = [client EXCEPT ![c] = "freed"]
        /\ UNCHANGED <<lock, cur, events, todo>>
    BY <1>10 DEF TcpRemove
  <2>2. /\ pc["bcast"] = "idle" /\ pc'["bcast"] = "idle" /\ pc'["tcp"] = "next"
        /\ todo = {}
    BY <1>0, <2>1 DEF WorkLive, Senders
  <2>3. c \in Table /\ \A e \in events : e[2] # c
    BY <2>1 DEF WorkLive, TcpWorking
  <2>4. Table' = Table \ {c}
    BY <1>0, <2>1, <2>3 DEF Table
  <2>5. QED
    BY <2>1, <2>2, <2>3, <2>4 DEF WorkLive, TcpWorking, BcastWorking, Answering
<1>11. CASE TcpSend
  <2>1. /\ pc["tcp"] = "send" /\ pc'["tcp"] = "next"
        /\ \/ pc'["bcast"] = pc["bcast"]
           \/ pc["bcast"] \in Answering /\ pc'["bcast"] \in Answering
        /\ UNCHANGED <<client, lock, cur, events, todo>>
    BY <1>0, <1>11 DEF TcpSend, Answering
  <2>2. QED
    BY <2>1, SameWork DEF TcpWorking, BcastWorking, Answering
<1>12. CASE TcpCheck
  BY <1>0, <1>12, SameWork DEF TcpCheck, CheckNeedSend, TcpWorking, Answering
<1>13. CASE BcastLock
  <2>1. /\ lock' = "bcast" /\ todo' = Table /\ pc' = [pc EXCEPT !["bcast"] = "next"]
        /\ UNCHANGED <<client, cur, events>>
    BY <1>13 DEF BcastLock
  <2>2. pc'["bcast"] = "next" /\ pc'["tcp"] = pc["tcp"]
    BY <1>0, <2>1 DEF Senders
  <2>3. QED
    BY <2>1, <2>2 DEF WorkLive, Table, BcastWorking, Answering
<1>14. CASE BcastNext
  <2>1. UNCHANGED <<client, events>> /\ pc["bcast"] # "idle"
    BY <1>14 DEF BcastNext, NextClient
  <2>2. ASSUME todo = {}, lock' = "none", pc' = [pc EXCEPT !["bcast"] = "idle"],
               cur' = [cur EXCEPT !["bcast"] = 0], UNCHANGED todo
        PROVE  WorkLive'
    <3>1. pc'["bcast"] = "idle" /\ pc'["tcp"] = pc["tcp"] /\ cur'["tcp"] = cur["tcp"]
      BY <1>0, <2>2 DEF Senders
    <3>2. QED
      BY <2>1, <2>2, <3>1 DEF WorkLive, Table, BcastWorking, Answering
  <2>3. ASSUME NEW c \in todo, NEW p \in {"next", "kcp", "room"}, todo' = todo \ {c},
               cur' = [cur EXCEPT !["bcast"] = c],
               pc' = [pc EXCEPT !["bcast"] = p], UNCHANGED lock
        PROVE  WorkLive'
    <3>1. /\ pc'["bcast"] # "idle" /\ pc'["tcp"] = pc["tcp"]
          /\ cur'["tcp"] = cur["tcp"] /\ cur'["bcast"] = c
      BY <1>0, <2>3 DEF Senders
    <3>2. c \in Table
      BY DEF WorkLive
    <3>3. QED
      BY <2>1, <2>3, <3>1, <3>2 DEF WorkLive, Table
  <2>4. QED
    BY <1>14, <2>2, <2>3 DEF BcastNext, NextClient
<1>15. CASE BcastKcp
  BY <1>0, <1>15, SameWork DEF BcastKcp, BcastWorking, Answering
<1>16. CASE BcastRoom
  BY <1>0, <1>16, SameWork DEF BcastRoom, RoomFor, BcastWorking, Answering
<1>17. CASE KcpThread \/ MainLock \/ MainJoin \/ UNCHANGED vars
  <2>1. UNCHANGED <<client, lock, cur, events, todo, pc>>
    BY <1>17 DEF KcpThread, KcpRecv, KcpFind, Found, KcpUse, KcpEnable, KcpNothing,
                 KcpInput, KcpRequest, RequestFrom, KcpRespond, MainLock, MainJoin, vars
  <2>2. QED
    BY <2>1, SameWork
<1>28. QED
  BY <1>1, <1>2, <1>3, <1>4, <1>5, <1>6, <1>7, <1>9, <1>10, <1>11, <1>12, <1>13,
     <1>14, <1>15, <1>16, <1>17
  DEF Next, TcpThread, BcastWork, Senders

\* The broadcaster never works on a client that was freed under it, nor the
\* TCP thread on one it has removed earlier in the same batch of events.
THEOREM NoWorkOnFreed == Spec => []ClientsLive
<1>1. Init => WorkLive
  BY DEF Init, WorkLive, Table, Senders, BcastWorking, TcpWorking, Answering
<1>2. TypeOK /\ WorkLive => ClientsLive
  BY DEF TypeOK, SendersTyped, WorkLive, ClientsLive, Table, BcastStates, TcpStates
<1>3. QED
  BY <1>1, <1>2, WorkLiveStep, TcpTypeCorrect, PTL DEF Spec

-----------------------------------------------------------------------------

\* The ids a peer may know are ids of clients; a KCP client that is not bound
\* to its server_client is about to be, or its TCP client was freed.
KcpBound ==
    /\ \A c \in told : client[c] # "none"
    /\ \A c \in kcp_table \ kcp_priv :
           client[c] = "freed" \/ (kpc \in {"find", "use"} /\ kcur = c)
    /\ FaultsNeedDisconnect

\* A step of another thread: freed clients stay freed.
LEMMA SameBinding ==
  ASSUME KcpBound, UNCHANGED <<kpc, kcur, kcp_table, kcp_priv, fault>>,
         \A c \in told : client[c] = "freed" => client'[c] = "freed",
         \A c \in told' : client'[c] # "none",
         told \subseteq told', kcp_table \subseteq told
  PROVE  KcpBound'
BY DEF KcpBound, FaultsNeedDisconnect, Alive

\* Every step leaves the KCP sessions bound to clients.
LEMMA KcpBoundStep ==
  ASSUME TypeOK, WorkLive, KcpBound, [Next]_vars
  PROVE  KcpBound'
<1> USE DEF Goto, KcpStep
<1>0. /\ client \in [Ids -> {"none", "open", "freed"}]
      /\ told \subseteq Ids /\ kcp_table \subseteq told /\ kcp_priv \subseteq kcp_table
      /\ kcur \in kcp_table \cup IF kpc = "idle" THEN {0} ELSE {}
  BY DEF TypeOK, ClientsTyped, KcpTyped
<1>1. CASE TcpInsert
  <2>1. PICK c \in Ids : client[c] = "none" /\ client' = [client EXCEPT ![c] = "open"]
    BY <1>1 DEF TcpInsert, NewId
  <2>2. c \notin told
    BY <2>1 DEF KcpBound
  <2>3. \A d \in told : client'[d] = client[d]
    BY <1>0, <2>1, <2>2
  <2>4. UNCHANGED <<kcpVars, fault, told>>
    BY <1>1 DEF TcpInsert
  <2>5. QED
    BY <1>0, <2>3, <2>4, SameBinding DEF KcpBound
<1>2. CASE TcpRemove
  <2>1. client' = [client EXCEPT ![cur["tcp"]] = "freed"]
    BY <1>2 DEF TcpRemove
  <2>2. \A d \in told : client'[d] \in {client[d], "freed"}
    BY <1>0, <2>1
  <2>3. UNCHANGED <<kcpVars, fault, told>>
    BY <1>2 DEF TcpRemove
  <2>4. QED
    BY <1>0, <2>2, <2>3, SameBinding DEF KcpBound
<1>3. CASE TcpRequest
  <2>1. cur["tcp"] \in Table
    BY <1>3 DEF TcpRequest, WorkLive, TcpWorking
  <2>2. told' = told \cup {cur["tcp"]} /\ UNCHANGED <<client, kcpVars, fault>>
    BY <1>3 DEF TcpRequest
  <2>3. QED
    BY <1>0, <2>1, <2>2, SameBinding DEF KcpBound, Table
<1>4. CASE UNCHANGED <<client, told, kcpVars, fault>>
  BY <1>0, <1>4, SameBinding DEF KcpBound
<1>5. ASSUME NEW c \in Ids, KcpRecv(c) PROVE KcpBound'
  <2>1. /\ c \in told /\ kpc = "idle" /\ fault = "none"
        /\ UNCHANGED <<client, told, kcp_priv>>
    BY <1>5 DEF KcpRecv, Alive
  <2>2. \A d \in kcp_table \ kcp_priv : client[d] = "freed"
    BY <2>1 DEF KcpBound
  <2>3. CASE c \in kcp_table
    <3>1. UNCHANGED <<kcp_table, fault>>
      BY <1>5, <2>3 DEF KcpRecv
    <3>2. QED
      BY <2>1, <2>2, <3>1 DEF KcpBound, FaultsNeedDisconnect, Alive
  <2>4. CASE c \notin kcp_table /\ server_has_client(c)
    <3>1. /\ kcp_table' = kcp_table \cup {c} /\ kcur' = c /\ kpc' = "find"
          /\ UNCHANGED fault
      BY <1>5, <2>4 DEF KcpRecv, NewClient
    <3>2. QED
      BY <2>1, <2>2, <3>1 DEF KcpBound, FaultsNeedDisconnect, Alive
  <2>5. CASE c \notin kcp_table /\ ~server_has_client(c)
    <3>1. client[c] = "freed"
      BY <1>0, <2>1, <2>5 DEF KcpBound, server_has_client
    <3>2. UNCHANGED <<kcp_table, kpc, kcur>>
      BY <1>5, <2>5 DEF KcpRecv
    <3>3. QED
      BY <2>1, <2>2, <3>1, <3>2 DEF KcpBound, FaultsNeedDisconnect
  <2>6. QED
    BY <2>3, <2>4, <2>5
<1>6. CASE KcpFind \/ KcpUse \/ KcpEnable \/ KcpNothing \/ KcpInput \/ KcpRequest
            \/ \E getid \in BOOLEAN : KcpRespond(getid)
  <2>1. /\ fault = "none" /\ kpc # "idle" /\ kcur \in kcp_table
        /\ UNCHANGED <<client, told, kcur, kcp_table>>
    BY <1>0, <1>6 DEF KcpFind, Found, KcpUse, KcpEnable, KcpNothing, KcpInput, KcpRequest,
                      RequestFrom, KcpRespond, Alive
  <2>2. client[kcur] \in {"open", "freed"} /\ kcur \in told
    BY <1>0, <2>1 DEF KcpBound
  <2>3. \A d \in kcp_table \ kcp_priv : client[d] = "freed" \/ d = kcur
    BY DEF KcpBound
  <2>4. CASE KcpFind
    BY <2>1, <2>2, <2>3, <2>4 DEF KcpFind, Found, KcpBound, FaultsNeedDisconnect, Alive
  <2>5. CASE KcpUse
    BY <2>1, <2>2, <2>3, <2>5 DEF KcpUse, KcpBound, FaultsNeedDisconnect, Alive
  <2>6. CASE KcpEnable
    BY <2>1, <2>6 DEF KcpEnable, KcpBound, FaultsNeedDisconnect, Alive
  <2>7. CASE KcpNothing
    BY <2>1, <2>7 DEF KcpNothing, KcpBound, FaultsNeedDisconnect, Alive
  <2>8. CASE KcpInput
    BY <2>1, <2>8 DEF KcpInput, KcpBound, FaultsNeedDisconnect, Alive
  <2>9. CASE KcpRequest
    <3>1. kcur \notin kcp_priv => client[kcur] = "freed"
      BY <2>1, <2>9 DEF KcpRequest, RequestFrom, KcpBound
    <3>2. QED
      BY <2>1, <2>2, <2>9, <3>1 DEF KcpRequest, RequestFrom, KcpBound, FaultsNeedDisconnect, Alive
  <2>10. ASSUME NEW getid \in BOOLEAN, KcpRespond(getid) PROVE KcpBound'
    BY <2>1, <2>2, <2>10 DEF KcpRespond, KcpBound, FaultsNeedDisconnect, Alive
  <2>11. QED
    BY <1>6, <2>4, <2>5, <2>6, <2>7, <2>8, <2>9, <2>10
<1>7. CASE \/ TcpEpoll \/ TcpNext \/ TcpConnect \/ TcpInput \/ TcpAnswered \/ TcpSend
           \/ TcpCheck \/ BcastLock \/ BcastNext \/ BcastKcp \/ BcastRoom \/ MainLock
           \/ MainJoin \/ \E s \in Senders : PutHeader(s) \/ PutBody(s) \/ UNCHANGED vars
  <2>1. UNCHANGED <<client, told, kcpVars, fault>>
    BY <1>7 DEF TcpEpoll, TcpNext, TcpConnect, TcpInput, TcpAnswered, TcpSend, TcpCheck,
         CheckNeedSend, BcastLock, BcastNext, NextClient, BcastKcp, BcastRoom, RoomFor,
         MainLock, MainJoin, PutHeader, PutBody, Put, vars
  <2>2. QED
    BY <1>4, <2>1
<1>8. QED
  BY <1>1, <1>2, <1>3, <1>5, <1>6, <1>7
  DEF Next, TcpThread, BcastWork, KcpThread, Senders

\* The KCP thread follows a bad pointer - the client of a datagram before, the
\* freed client it has looked up, a server_client that was never attached -
\* only after a client that knew its id has disconnected.
THEOREM FaultsAfterDisconnect == Spec => []FaultsNeedDisconnect
<1>1. Init => KcpBound /\ WorkLive
  BY DEF Init, KcpBound, FaultsNeedDisconnect, Alive, WorkLive, Table, Senders,
         BcastWorking, TcpWorking, Answering
<1>2. KcpBound => FaultsNeedDisconnect
  BY DEF KcpBound
<1>3. QED
  BY <1>1, <1>2, WorkLiveStep, KcpBoundStep, TcpTypeCorrect, PTL DEF Spec

-----------------------------------------------------------------------------

\* The units r that come after the unit w are whole packets, as far as they go.
Chain(w, r) ==
    /\ r # <<>> => FollowsIn(w, r[1])
    /\ \A i \in 1..Len(r) - 1 : FollowsIn(r[i], r[i + 1])

Last(w, r) == IF r = <<>> THEN w ELSE r[Len(r)]

\* A stream without units is the empty one.
LEMMA NoUnits ==
  ASSUME NEW S, NEW q \in Seq(S)
  PROVE  q = <<>> <=> Len(q) = 0
OBVIOUS

\* The last unit sent is a unit.
LEMMA LastUnit ==
  ASSUME NEW S, NEW w \in S, NEW r \in Seq(S)
  PROVE  Last(w, r) \in S
BY DEF Last

\* The two halves of a stream make one where they meet.
LEMMA ChainAppend ==
  ASSUME NEW S, NEW w \in S, NEW r \in Seq(S), NEW u \in Seq(S),
         Chain(w, r), Chain(Last(w, r), u)
  PROVE  /\ Chain(w, r \o u)
         /\ Last(w, r \o u) = Last(Last(w, r), u)
<1> DEFINE q == r \o u
<1>1. /\ q \in Seq(S) /\ Len(q) = Len(r) + Len(u)
      /\ \A i \in 1..Len(r) : q[i] = r[i]
      /\ \A i \in 1..Len(u) : q[Len(r) + i] = u[i]
  OBVIOUS
<1>2. /\ Len(r) \in Nat /\ Len(u) \in Nat
      /\ r = <<>> <=> Len(r) = 0
      /\ u = <<>> <=> Len(u) = 0
      /\ q = <<>> <=> Len(q) = 0
  BY NoUnits, <1>1
<1> HIDE DEF q
<1>3. q # <<>> => FollowsIn(w, q[1])
  <2>1. CASE r = <<>>
    BY <1>1, <1>2, <2>1 DEF Chain, Last
  <2>2. CASE r # <<>>
    BY <1>1, <1>2, <2>2 DEF Chain
  <2>3. QED
    BY <2>1, <2>2
<1>4. ASSUME NEW i \in 1..Len(q) - 1 PROVE FollowsIn(q[i], q[i + 1])
  <2>1. CASE i < Len(r)
    <3>1. i \in 1..Len(r) - 1 /\ q[i] = r[i] /\ q[i + 1] = r[i + 1]
      BY <1>1, <1>2, <2>1
    <3>2. QED
      BY <3>1 DEF Chain
  <2>2. CASE i = Len(r)
    <3>1. /\ r # <<>> /\ u # <<>> /\ q[i] = r[Len(r)] /\ q[i + 1] = u[1]
      BY <1>1, <1>2, <2>2
    <3>2. QED
      BY <3>1 DEF Chain, Last
  <2>3. CASE i > Len(r)
    <3>1. PICK j \in 1..Len(u) - 1 : i = Len(r) + j
      <4>1. i - Len(r) \in 1..Len(u) - 1
        BY <1>1, <1>2, <2>3
      <4>2. i = Len(r) + (i - Len(r))
        BY <1>2
      <4>3. QED
        BY <4>1, <4>2
    <3>2. q[i] = u[j] /\ q[i + 1] = u[j + 1]
      BY <1>1, <1>2, <3>1
    <3>3. QED
      BY <3>1, <3>2 DEF Chain
  <2>4. QED
    BY <1>2, <2>1, <2>2, <2>3
<1>5. Last(w, q) = Last(Last(w, r), u)
  <2>1. CASE u = <<>>
    BY <1>1, <1>2, <2>1 DEF Last
  <2>2. CASE u # <<>>
    BY <1>1, <1>2, <2>2 DEF Last
  <2>3. QED
    BY <2>1, <2>2
<1>6. QED
  BY <1>3, <1>4, <1>5 DEF Chain, q

\* What is left of a stream follows the last unit taken from it.
LEMMA ChainDrop ==
  ASSUME NEW S, NEW w \in S, NEW r \in Seq(S), NEW k \in 1..Len(r), Chain(w, r)
  PROVE  /\ Chain(r[k], SubSeq(r, k + 1, Len(r)))
         /\ Last(r[k], SubSeq(r, k + 1, Len(r))) = Last(w, r)
<1> DEFINE q == SubSeq(r, k + 1, Len(r))
<1>1. /\ q \in Seq(S) /\ Len(q) = Len(r) - k
      /\ \A i \in 1..Len(r) - k : q[i] = r[i + k]
  BY RestOfSequence
<1>2. Len(r) \in Nat /\ r # <<>> /\ (q = <<>> <=> Len(q) = 0)
  BY <1>1, NoUnits
<1> HIDE DEF q
<1>3. q # <<>> => FollowsIn(r[k], q[1])
  <2>1. q # <<>> => k \in 1..Len(r) - 1 /\ q[1] = r[k + 1]
    BY <1>1, <1>2
  <2>2. QED
    BY <2>1 DEF Chain
<1>4. ASSUME NEW i \in 1..Len(q) - 1 PROVE FollowsIn(q[i], q[i + 1])
  <2>1. i + k \in 1..Len(r) - 1 /\ q[i] = r[i + k] /\ q[i + 1] = r[i + k + 1]
    BY <1>1, <1>2
  <2>2. QED
    BY <2>1 DEF Chain
<1>5. Last(r[k], q) = r[Len(r)]
  BY <1>1, <1>2 DEF Last
<1>6. QED
  BY <1>2, <1>3, <1>4, <1>5 DEF Chain, Last, q

\* A header fits after a whole packet, a body after its header.
LEMMA ChainPut ==
  ASSUME NEW s \in Senders
  PROVE  /\ \A w \in Unit : w[2] = 0 => Chain(w, Header(s))
         /\ \A w : Last(w, Header(s)) = Header(s)[1]
         /\ Chain(Header(s)[1], Body(s))
         /\ \A w : Last(w, Body(s))[2] = 0
<1>1. BodyLen(s) \in Nat \ {0}
  BY SizesAssumption DEF BodyLen, Senders
<1>2. Header(s) # <<>> /\ Len(Header(s)) = 1 /\ Header(s)[1] = <<s, BodyLen(s)>>
  BY DEF Header
<1>3. /\ Body(s) # <<>> /\ Len(Body(s)) = BodyLen(s)
      /\ \A i \in 1..BodyLen(s) : Body(s)[i] = <<s, BodyLen(s) - i>>
  <2>1. Len(Body(s)) = BodyLen(s)
    BY UnitsPut
  <2>2. Len(<<>>) = 0
    OBVIOUS
  <2>3. QED
    BY <1>1, <2>1, <2>2 DEF Body
<1>4. \A w \in Unit : w[2] = 0 => Chain(w, Header(s))
  BY <1>2 DEF Chain, FollowsIn
<1>5. Chain(Header(s)[1], Body(s))
  <2>1. FollowsIn(Header(s)[1], Body(s)[1])
    BY <1>1, <1>2, <1>3 DEF FollowsIn
  <2>2. ASSUME NEW i \in 1..BodyLen(s) - 1 PROVE FollowsIn(Body(s)[i], Body(s)[i + 1])
    <3>1. Body(s)[i] = <<s, BodyLen(s) - i>> /\ Body(s)[i + 1] = <<s, BodyLen(s) - (i + 1)>>
      BY <1>1, <1>3
    <3>2. BodyLen(s) - i # 0 /\ BodyLen(s) - (i + 1) = BodyLen(s) - i - 1
      BY <1>1
    <3>3. QED
      BY <3>1, <3>2 DEF FollowsIn
  <2>3. QED
    BY <1>3, <2>1, <2>2 DEF Chain
<1>6. \A w : Last(w, Body(s))[2] = 0
  BY <1>1, <1>3 DEF Last
<1>7. QED
  BY <1>2, <1>4, <1>5, <1>6 DEF Last

\* As long as nobody has waited: a mutex is held exactly between the header
\* and the body, and the stream of a client ends with a whole packet unless
\* its mutex is held, when it ends with the header of the holder.
StreamOf(c) ==
    /\ Chain(wire[c], ring[c])
    /\ \A s \in Senders : send_buf_lock[c] = s => Last(wire[c], ring[c]) = Header(s)[1]
    /\ send_buf_lock[c] = "none" => Last(wire[c], ring[c])[2] = 0

HeldBetween(s, c) == send_buf_lock[c] = s <=> (pc[s] = "body" /\ cur[s] = c)

StreamsWhole ==
    ~waited =>
        /\ \A s \in Senders : pc[s] \notin {"wait_header", "wait_body"}
        /\ \A s \in Senders, c \in Ids : HeldBetween(s, c)
        /\ \A c \in Ids : StreamOf(c)

\* A step that neither sends, takes from a ring nor moves between header and
\* body.
LEMMA SameStreams ==
  ASSUME StreamsWhole, UNCHANGED <<ring, wire, send_buf_lock, waited>>,
         \A s \in Senders : \/ pc'[s] = pc[s] /\ cur'[s] = cur[s]
                           \/ /\ pc[s] \notin {"body", "wait_header", "wait_body"}
                              /\ pc'[s] \notin {"body", "wait_header", "wait_body"}
  PROVE  StreamsWhole'
<1> SUFFICES ASSUME ~waited PROVE StreamsWhole'
  BY DEF StreamsWhole
<1>1. \A c \in Ids : StreamOf(c)'
  BY DEF StreamsWhole, StreamOf
<1>2. \A s \in Senders : pc'[s] \notin {"wait_header", "wait_body"}
  BY DEF StreamsWhole
<1>3. ASSUME NEW s \in Senders, NEW c \in Ids PROVE HeldBetween(s, c)'
  <2>1. HeldBetween(s, c)
    BY DEF StreamsWhole
  <2>2. QED
    BY <2>1 DEF HeldBetween
<1>4. QED
  BY <1>1, <1>2, <1>3 DEF StreamsWhole

\* A unit put into the ring continues the client's stream.
LEMMA PutStreams ==
  ASSUME TypeOK, StreamsWhole, NEW s \in Senders, PutHeader(s) \/ PutBody(s)
  PROVE  StreamsWhole'
<1> SUFFICES ASSUME ~waited' PROVE StreamsWhole'
  BY DEF StreamsWhole
<1> DEFINE c == cur[s]
<1>0. /\ c \in Ids /\ UNCHANGED <<wire, cur>>
      /\ pc \in [Senders -> TcpStates \cup BcastStates]
      /\ ring \in [Ids -> Seq(Unit)] /\ wire \in [Ids -> Unit]
      /\ send_buf_lock \in [Ids -> Senders \cup {"none"}]
  BY DEF TypeOK, ClientsTyped, SendersTyped, PutHeader, PutBody, Put, TcpWorking, BcastWorking,
         Answering, Senders
<1>1. ~waited
  BY DEF PutHeader, PutBody, Put
<1>2. /\ \A t \in Senders : pc[t] \notin {"wait_header", "wait_body"}
      /\ \A t \in Senders, d \in Ids : HeldBetween(t, d)
      /\ \A d \in Ids : StreamOf(d)
  BY <1>1 DEF StreamsWhole
<1>3. Chain(wire[c], ring[c]) /\ wire[c] \in Unit /\ ring[c] \in Seq(Unit)
  BY <1>0, <1>2 DEF StreamOf
<1>4. "none" \notin Senders
  BY DEF Senders
<1>5. CASE PutHeader(s)
  <2>1. /\ send_buf_lock[c] = "none" /\ pc[s] = "header"
        /\ pc' = [pc EXCEPT ![s] = "body"]
        /\ ring' = [ring EXCEPT ![c] = @ \o Header(s)]
        /\ send_buf_lock' = [send_buf_lock EXCEPT ![c] = s]
    BY <1>5 DEF PutHeader, Put
  <2>2. Last(wire[c], ring[c])[2] = 0 /\ Last(wire[c], ring[c]) \in Unit
    <3>1. Last(wire[c], ring[c])[2] = 0
      BY <1>0, <1>2, <2>1 DEF StreamOf
    <3>2. QED
      BY <1>3, <3>1, LastUnit
  <2>3. /\ Chain(wire[c], ring[c] \o Header(s))
        /\ Last(wire[c], ring[c] \o Header(s)) = Header(s)[1]
    BY <1>3, <2>2, ChainPut, ChainAppend, UnitsPut
  <2>4. /\ send_buf_lock'[c] = s /\ ring'[c] = ring[c] \o Header(s)
        /\ \A d \in Ids \ {c} : send_buf_lock'[d] = send_buf_lock[d] /\ ring'[d] = ring[d]
        /\ pc'[s] = "body" /\ \A t \in Senders \ {s} : pc'[t] = pc[t]
    BY <1>0, <2>1
  <2>5. ASSUME NEW d \in Ids PROVE StreamOf(d)'
    <3>1. CASE d = c
      BY <1>0, <1>4, <2>3, <2>4, <3>1 DEF StreamOf
    <3>2. CASE d # c
      BY <1>0, <1>2, <2>4, <3>2 DEF StreamOf
    <3>3. QED
      BY <3>1, <3>2
  <2>6. ASSUME NEW t \in Senders, NEW d \in Ids PROVE HeldBetween(t, d)'
    BY <1>0, <1>2, <1>4, <2>1, <2>4 DEF HeldBetween
  <2>7. QED
    BY <1>2, <2>4, <2>5, <2>6 DEF StreamsWhole
<1>6. CASE PutBody(s)
  <2>1. /\ pc[s] = "body" /\ pc' = [pc EXCEPT ![s] = "sent"]
        /\ ring' = [ring EXCEPT ![c] = @ \o Body(s)]
        /\ send_buf_lock' = [send_buf_lock EXCEPT ![c] = "none"]
    BY <1>6 DEF PutBody, Put
  <2>2. send_buf_lock[c] = s
    BY <1>0, <1>2, <2>1 DEF HeldBetween
  <2>3. Last(wire[c], ring[c]) = Header(s)[1]
    BY <1>0, <1>2, <2>2 DEF StreamOf
  <2>4. /\ Chain(wire[c], ring[c] \o Body(s))
        /\ Last(wire[c], ring[c] \o Body(s))[2] = 0
    BY <1>3, <2>3, ChainPut, ChainAppend, UnitsPut
  <2>5. /\ send_buf_lock'[c] = "none" /\ ring'[c] = ring[c] \o Body(s)
        /\ \A d \in Ids \ {c} : send_buf_lock'[d] = send_buf_lock[d] /\ ring'[d] = ring[d]
        /\ pc'[s] = "sent" /\ \A t \in Senders \ {s} : pc'[t] = pc[t]
    BY <1>0, <2>1
  <2>6. ASSUME NEW d \in Ids PROVE StreamOf(d)'
    <3>1. CASE d = c
      BY <1>0, <1>4, <2>4, <2>5, <3>1 DEF StreamOf
    <3>2. CASE d # c
      BY <1>0, <1>2, <2>5, <3>2 DEF StreamOf
    <3>3. QED
      BY <3>1, <3>2
  <2>7. ASSUME NEW t \in Senders, NEW d \in Ids PROVE HeldBetween(t, d)'
    BY <1>0, <1>2, <1>4, <2>1, <2>2, <2>5 DEF HeldBetween
  <2>8. QED
    BY <1>2, <2>5, <2>6, <2>7 DEF StreamsWhole
<1>7. QED
  BY <1>5, <1>6

\* What is sent is taken from the ring's front.
LEMMA SendStreams ==
  ASSUME TypeOK, StreamsWhole, TcpSend
  PROVE  StreamsWhole'
<1> SUFFICES ASSUME ~waited' PROVE StreamsWhole'
  BY DEF StreamsWhole
<1> DEFINE c == cur["tcp"]
           rest(k) == SubSeq(ring[c], k + 1, Len(ring[c]))
<1>1. /\ pc["tcp"] = "send" /\ send_buf_lock[c] = "none" /\ ~waited
      /\ UNCHANGED <<cur, send_buf_lock>>
  BY DEF TcpSend
<1>2. /\ \A s \in Senders : pc[s] \notin {"wait_header", "wait_body"}
      /\ \A s \in Senders, d \in Ids : HeldBetween(s, d)
      /\ \A d \in Ids : StreamOf(d)
  BY <1>1 DEF StreamsWhole
<1>3. /\ c \in Ids /\ pc \in [Senders -> TcpStates \cup BcastStates]
      /\ ring \in [Ids -> Seq(Unit)] /\ wire \in [Ids -> Unit]
  BY <1>1 DEF TypeOK, ClientsTyped, SendersTyped, TcpWorking
<1>4. pc' = [pc EXCEPT !["tcp"] = "next"]
  BY <1>2, <1>3 DEF TcpSend, Senders
<1>5. PICK k \in 0..Len(ring[c]) : /\ ring' = [ring EXCEPT ![c] = rest(k)]
                                  /\ wire' = [wire EXCEPT ![c] = IF k = 0 THEN @ ELSE ring[c][k]]
  BY DEF TcpSend
<1>6. /\ ring'[c] = rest(k) /\ wire'[c] = IF k = 0 THEN wire[c] ELSE ring[c][k]
      /\ \A d \in Ids \ {c} : ring'[d] = ring[d] /\ wire'[d] = wire[d]
  BY <1>3, <1>5
<1>7. ring[c] \in Seq(Unit) /\ wire[c] \in Unit /\ Chain(wire[c], ring[c])
  BY <1>2, <1>3 DEF StreamOf
<1>8. /\ Chain(wire'[c], ring'[c])
      /\ Last(wire'[c], ring'[c]) = Last(wire[c], ring[c])
  <2>1. CASE k = 0
    <3>1. rest(k) = ring[c]
      BY <1>7, <2>1
    <3>2. QED
      BY <1>6, <1>7, <2>1, <3>1
  <2>2. CASE k # 0
    <3>1. k \in 1..Len(ring[c])
      BY <1>5, <2>2
    <3>2. /\ Chain(ring[c][k], rest(k))
          /\ Last(ring[c][k], rest(k)) = Last(wire[c], ring[c])
      BY <1>7, <3>1, ChainDrop
    <3>3. QED
      BY <1>6, <2>2, <3>2
  <2>3. QED
    BY <2>1, <2>2
<1>9. ASSUME NEW d \in Ids PROVE StreamOf(d)'
  <2>1. CASE d = c
    BY <1>1, <1>2, <1>8, <2>1 DEF StreamOf
  <2>2. CASE d # c
    BY <1>1, <1>2, <1>6, <2>2 DEF StreamOf
  <2>3. QED
    BY <2>1, <2>2
<1>10. ASSUME NEW s \in Senders, NEW d \in Ids PROVE HeldBetween(s, d)'
  <2>1. pc'[s] = "body" <=> pc[s] = "body"
    BY <1>1, <1>3, <1>4
  <2>2. HeldBetween(s, d)
    BY <1>2
  <2>3. QED
    BY <1>1, <2>1, <2>2 DEF HeldBetween
<1>11. \A s \in Senders : pc'[s] \notin {"wait_header", "wait_body"}
  BY <1>2, <1>3, <1>4
<1>12. QED
  BY <1>9, <1>10, <1>11 DEF StreamsWhole

\* Only who holds the mutex of a client puts into its ring.
LEMMA StreamsWholeStep ==
  ASSUME TypeOK, StreamsWhole, [Next]_vars
  PROVE  StreamsWhole'
<1> USE DEF Goto, Alive
<1>0. /\ pc \in [Senders -> TcpStates \cup BcastStates] /\ cur \in [Senders -> Ids \cup {0}]
      /\ Senders = {"tcp", "bcast"}
  BY DEF TypeOK, SendersTyped, Senders
<1>1. ASSUME UNCHANGED <<ring, wire, send_buf_lock, waited>>, NEW s \in Senders,
             \E p : pc' = [pc EXCEPT ![s] = p]
                   /\ p \notin {"body", "wait_header", "wait_body"},
             pc[s] \notin {"body", "wait_header", "wait_body"},
             \A t \in Senders \ {s} : cur'[t] = cur[t]
      PROVE  StreamsWhole'
  BY <1>0, <1>1, SameStreams
<1>2. CASE TcpEpoll \/ TcpConnect \/ TcpInput \/ TcpRequest \/ TcpAnswered \/ TcpRemove
            \/ TcpCheck
  <2>1. UNCHANGED <<ring, wire, send_buf_lock, waited, cur>>
    BY <1>2 DEF TcpEpoll, TcpConnect, TcpInput, TcpRequest, TcpAnswered, TcpRemove, TcpCheck,
                CheckNeedSend
  <2>2. pc["tcp"] \in {"idle", "connect", "handle", "sent", "remove", "check"}
    BY <1>2 DEF TcpEpoll, TcpConnect, TcpInput, TcpRequest, TcpAnswered, TcpRemove, TcpCheck,
                CheckNeedSend
  <2>3. \E p \in {"idle", "next", "handle", "header", "sent"} : pc' = [pc EXCEPT !["tcp"] = p]
    BY <1>2, Zenon DEF TcpEpoll, TcpConnect, TcpInput, TcpRequest, TcpAnswered, TcpRemove,
                       TcpCheck, CheckNeedSend
  <2>4. QED
    BY <1>0, <1>1, <2>1, <2>2, <2>3
<1>3. CASE TcpNext
  <2>1. UNCHANGED <<ring, wire, send_buf_lock, waited>> /\ pc["tcp"] = "next"
    BY <1>3 DEF TcpNext
  <2>2. \E p \in {"check", "insert", "send", "handle", "remove"} :
           pc' = [pc EXCEPT !["tcp"] = p]
    BY <1>3, Zenon DEF TcpNext
  <2>3. cur'["bcast"] = cur["bcast"]
    BY <1>0, <1>3 DEF TcpNext
  <2>4. QED
    BY <1>0, <1>1, <2>1, <2>2, <2>3
<1>4. CASE TcpInsert
  <2>1. UNCHANGED <<ring, wire, send_buf_lock, waited>> /\ cur'["bcast"] = cur["bcast"]
    BY <1>0, <1>4 DEF TcpInsert
  <2>2. pc["tcp"] = "insert" /\ pc'["tcp"] = "connect" /\ pc'["bcast"] = pc["bcast"]
    BY <1>0, <1>4 DEF TcpInsert
  <2>3. QED
    BY <1>0, <2>1, <2>2, SameStreams
<1>5. ASSUME NEW s \in Senders, PutHeader(s) \/ PutBody(s) PROVE StreamsWhole'
  BY <1>5, PutStreams
<1>6. CASE TcpSend
  BY <1>6, SendStreams
<1>7. CASE BcastLock \/ BcastKcp \/ BcastRoom
  <2>1. /\ UNCHANGED <<ring, wire, send_buf_lock, waited, cur>>
        /\ pc["bcast"] \in {"idle", "kcp", "room"}
    BY <1>7 DEF BcastLock, BcastKcp, BcastRoom, RoomFor
  <2>2. \E p \in {"next", "header"} : pc' = [pc EXCEPT !["bcast"] = p]
    BY <1>7, Zenon DEF BcastLock, BcastKcp, BcastRoom, RoomFor
  <2>3. QED
    BY <1>0, <1>1, <2>1, <2>2
<1>8. CASE BcastNext
  <2>1. /\ UNCHANGED <<ring, wire, send_buf_lock, waited>>
        /\ pc["bcast"] \in {"next", "sent"} /\ cur'["tcp"] = cur["tcp"]
    BY <1>0, <1>8 DEF BcastNext, NextClient
  <2>2. \E p \in {"idle", "next", "kcp", "room"} : pc' = [pc EXCEPT !["bcast"] = p]
    BY <1>8, Zenon DEF BcastNext, NextClient
  <2>3. QED
    BY <1>0, <1>1, <2>1, <2>2
<1>9. CASE KcpThread \/ MainLock \/ MainJoin \/ UNCHANGED vars
  <2>1. UNCHANGED <<ring, wire, send_buf_lock, waited, cur, pc>>
    BY <1>9 DEF KcpThread, KcpRecv, KcpFind, Found, KcpUse, KcpEnable, KcpNothing,
                 KcpInput, KcpRequest, RequestFrom, KcpRespond, MainLock, MainJoin, vars
  <2>2. QED
    BY <2>1, SameStreams
<1>10. QED
  BY <1>2, <1>3, <1>4, <1>5, <1>6, <1>7, <1>8, <1>9
  DEF Next, TcpThread, BcastWork, Senders

\* The pairs of neighbours of a stream are those of its last unit on the wire
\* and of the units of the ring.
LEMMA ChainStream ==
  ASSUME NEW S, NEW w \in S, NEW r \in Seq(S), Chain(w, r)
  PROVE  LET stream == <<w>> \o r
         IN  \A i \in 1..Len(stream) - 1 : FollowsIn(stream[i], stream[i + 1])
<1> DEFINE stream == <<w>> \o r
<1>1. /\ Len(stream) = Len(r) + 1 /\ stream[1] = w
      /\ \A i \in 1..Len(r) : stream[i + 1] = r[i]
  OBVIOUS
<1> HIDE DEF stream
<1>2. ASSUME NEW i \in 1..Len(stream) - 1 PROVE FollowsIn(stream[i], stream[i + 1])
  <2>1. i \in 1..Len(r) /\ Len(r) \in Nat /\ stream[i + 1] = r[i]
    BY <1>1
  <2>2. CASE i = 1
    <3>1. r # <<>>
      BY <2>1, NoUnits
    <3>2. QED
      BY <1>1, <2>1, <2>2, <3>1 DEF Chain
  <2>3. CASE i # 1
    <3>1. i - 1 \in 1..Len(r) - 1 /\ i = (i - 1) + 1
      BY <2>1, <2>3
    <3>2. stream[i] = r[i - 1]
      BY <1>1, <3>1
    <3>3. FollowsIn(r[i - 1], r[i - 1 + 1])
      BY <3>1 DEF Chain
    <3>4. QED
      BY <2>1, <3>1, <3>2, <3>3
  <2>4. QED
    BY <2>2, <2>3
<1>3. QED
  BY <1>2 DEF stream

\* What a client receives is whole packets, a header and then its body and
\* nothing else, as long as no sender has had to wait for room, although the
\* responses and the broadcasts go into one ring from two threads.
THEOREM PacketsWhole == Spec => []Framed
<1>1. Init => StreamsWhole
  <2> SUFFICES ASSUME Init PROVE StreamsWhole
    OBVIOUS
  <2>1. ASSUME NEW c \in Ids PROVE StreamOf(c)
    <3>1. /\ ring[c] = <<>> /\ Len(<<>>) = 0 /\ wire[c] = <<"tcp", 0>>
          /\ send_buf_lock[c] = "none"
      BY DEF Init, NoUnit
    <3>2. QED
      BY <3>1 DEF StreamOf, Chain, Last, Senders
  <2>2. QED
    BY <2>1 DEF Init, StreamsWhole, HeldBetween, Senders
<1>2. TypeOK /\ StreamsWhole => Framed
  <2> SUFFICES ASSUME TypeOK, StreamsWhole, ~waited, NEW c \in Ids
               PROVE  LET stream == <<wire[c]>> \o ring[c]
                      IN  \A i \in 1..Len(stream) - 1 : FollowsIn(stream[i], stream[i + 1])
    BY DEF Framed
  <2>1. wire[c] \in Unit /\ ring[c] \in Seq(Unit) /\ Chain(wire[c], ring[c])
    BY DEF TypeOK, ClientsTyped, StreamsWhole, StreamOf
  <2>2. QED
    BY <2>1, ChainStream
<1>3. QED
  BY <1>1, <1>2, StreamsWholeStep, TcpTypeCorrect, PTL DEF Spec
=============================================================================
