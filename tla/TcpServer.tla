------------------------------ MODULE TcpServer ------------------------------
(***************************************************************************)
(* The transport of the server: the TCP thread with its epoll loop and its *)
(* client table (net/tcp_server.c), the broadcast thread, the thread that  *)
(* receives KCP datagrams (net/kcp_server.c), the binding of both kinds of *)
(* client (net/net_server.c), and the main thread where it holds           *)
(* net_cb_lock and waits for the broadcaster (server.c, tear-down).        *)
(*                                                                         *)
(* A client is its client_id.  A send ring is the sequence of units that   *)
(* DataQueue promises, a packet is one unit of header (its length) and a   *)
(* body of BodyLen(sender) units; a unit is <<sender, units that follow it *)
(* in its packet>>.  The KCP calls below ikcp_send and ikcp_input hold a   *)
(* lock of their own, never wait and are left to module Kcp.               *)
(***************************************************************************)
EXTENDS Integers, Sequences, FiniteSets

CONSTANTS
    RingSize,       \* QUEUE_DATA_SIZE, in units
    VideoLen,       \* units in the body of a video packet
    ReplyLen,       \* units in the body of a response
    SignalLimit,    \* 10: calls of _callback_senddata that may signal
    MaxClients,     \* bound: connections
    MaxInput,       \* bound: packets from the clients
    MaxBroadcasts,  \* bound: video packets
    MaxTearDowns    \* bound: tear-downs of the pipeline

ASSUME SizesAssumption ==
    /\ VideoLen \in Nat \ {0} /\ ReplyLen \in Nat \ {0}
    /\ RingSize \in Nat /\ RingSize > VideoLen /\ RingSize > ReplyLen
ASSUME LimitsAssumption ==
    /\ SignalLimit \in Nat /\ MaxClients \in Nat /\ MaxInput \in Nat
    /\ MaxBroadcasts \in Nat /\ MaxTearDowns \in Nat

Ids == 1..MaxClients
Senders == {"tcp", "bcast"}

VARIABLES
    client,         \* [Ids -> {"none", "open", "freed"}], open: in the table
    priv,           \* [Ids -> BOOLEAN], its struct server_client is attached
    interest,       \* [Ids -> {"IN", "OUT"}], ev->events
    ring,           \* [Ids -> Seq(Unit)], the send_queue
    wire,           \* [Ids -> Unit], the last unit put on the socket
    send_buf_lock,  \* [Ids -> Senders \cup {"none"}]
    lock,           \* tcp_server.lock: "none" or "bcast"
    net_cb_lock,    \* "none", "tcp", "kcp" or "main"
    pc, cur,        \* [Senders -> ...]: program counter and client in hand
    events, have,   \* TCP thread: events of this batch, packets received
    time,           \* calls of _callback_senddata, up to SignalLimit
    todo,           \* broadcaster: clients still to serve
    kpc, kcur,      \* KCP thread
    kcp_table,      \* ids in kcp_server.client_table
    kcp_priv,       \* ids whose KCP client has its server_client
    kcp_client, kcp_enable,  \* ids, fields of struct server_client
    mpc,            \* main thread: "run" or "join"
    told,           \* ids whose peer has had an answer, so may know its id
    inputs, broadcasts, teardowns,  \* bounds of the environment
    waited,         \* history: some sender has found its ring full
    fault           \* why the process has died, or "none"

clientVars == <<client, priv, interest, ring, wire, send_buf_lock>>
lockVars   == <<lock, net_cb_lock>>
tcpVars    == <<events, have, time>>
kcpVars    == <<kpc, kcur, kcp_table, kcp_priv, kcp_client, kcp_enable>>
vars == <<clientVars, lockVars, pc, cur, tcpVars, todo, kcpVars, mpc, inputs,
          told, broadcasts, teardowns, waited, fault>>

-----------------------------------------------------------------------------

BodyLen(s) == IF s = "bcast" THEN VideoLen ELSE ReplyLen
Header(s)  == <<<<s, BodyLen(s)>>>>
Body(s)    == [i \in 1..BodyLen(s) |-> <<s, BodyLen(s) - i>>]
NoUnit     == <<"tcp", 0>>      \* as after a whole packet
Unit       == {"tcp", "bcast"} \X (0..RingSize)

\* Mutant: the ring is taken for one unit longer.
FreeOneMore(c) == RingSize + 1 - Len(ring[c])

Free(c) == RingSize - Len(ring[c])
Table   == {c \in Ids : client[c] = "open"}
Alive   == fault = "none"

Goto(s, from, to) == Alive /\ pc[s] = from /\ pc' = [pc EXCEPT ![s] = to]

Init ==
    /\ client = [c \in Ids |-> "none"]
    /\ priv = [c \in Ids |-> FALSE]
    /\ interest = [c \in Ids |-> "IN"]
    /\ ring = [c \in Ids |-> <<>>]
    /\ wire = [c \in Ids |-> NoUnit]
    /\ send_buf_lock = [c \in Ids |-> "none"]
    /\ lock = "none" /\ net_cb_lock = "none"
    /\ pc = [s \in Senders |-> "idle"] /\ cur = [s \in Senders |-> 0]
    /\ events = {} /\ have = 0 /\ time = 0 /\ todo = {}
    /\ kpc = "idle" /\ kcur = 0
    /\ kcp_table = {} /\ kcp_priv = {} /\ kcp_client = {} /\ kcp_enable = {}
    /\ mpc = "run"
    /\ told = {} /\ inputs = 0 /\ broadcasts = 0 /\ teardowns = 0
    /\ waited = FALSE /\ fault = "none"

-----------------------------------------------------------------------------
(***************************************************************************)
(* tcp_send_data_safe, run by the TCP thread for a response and by the     *)
(* broadcaster.  The wait on the condition releases send_buf_lock, also    *)
(* between the header and the body.                                        *)
(***************************************************************************)
WaitFor(from) == IF from = "header" THEN "wait_header" ELSE "wait_body"

Put(s, units, from, mutex, to, mutex_after) ==
    LET c == cur[s]
    IN  /\ Alive /\ pc[s] = from
        /\ send_buf_lock[c] \in mutex
        /\ \/ /\ Len(units) <= Free(c)
              /\ ring' = [ring EXCEPT ![c] = @ \o units]
              /\ send_buf_lock' = [send_buf_lock EXCEPT ![c] = mutex_after]
              /\ pc' = [pc EXCEPT ![s] = to]
              /\ UNCHANGED waited
           \/ /\ Len(units) > Free(c)
              /\ send_buf_lock' = [send_buf_lock EXCEPT ![c] = "none"]
              /\ pc' = [pc EXCEPT ![s] = WaitFor(from)]
              /\ waited' = TRUE
              /\ UNCHANGED ring
    /\ UNCHANGED <<client, priv, interest, wire, lockVars, cur, tcpVars, todo,
                   kcpVars, mpc, inputs, told, broadcasts, teardowns, fault>>

\* Mutant: the mutex is not kept between header and body.
PutHeaderUnlocks(s) == Put(s, Header(s), "header", {"none"}, "body", "none")

\* Mutant: the mutex is not released after the body.
PutBodyKeepsMutex(s) == Put(s, Body(s), "body", {"none", s}, "sent", s)

PutHeader(s) == Put(s, Header(s), "header", {"none"}, "body", s)

\* The mutex is still held, or free for who has been woken up.
PutBody(s) == Put(s, Body(s), "body", {"none", s}, "sent", "none")

-----------------------------------------------------------------------------
(***************************************************************************)
(* The TCP thread.                                                         *)
(***************************************************************************)
\* epoll_wait reports, for a socket, what is watched or an error; when peers
\* connect, send, read or close shows here and nowhere else.
Reports ==
    {<<interest[c], c>> : c \in Table} \cup {<<"ERR", c>> : c \in Table}
        \cup {<<"ACCEPT", 0>> : c \in {d \in Ids : client[d] = "none"}}

Batches == {B \in SUBSET Reports : \A e, f \in B : e[2] = f[2] => e = f}

TcpEpoll ==
    /\ Goto("tcp", "idle", "next")
    /\ events' \in Batches
    /\ UNCHANGED <<clientVars, lockVars, cur, have, time, todo, kcpVars, mpc,
                   inputs, told, broadcasts, teardowns, waited, fault>>

\* _process_event: recv takes the packets there are, or finds the end of file.
TcpNext ==
    /\ Alive /\ pc["tcp"] = "next"
    /\ \/ /\ events = {}
          /\ pc' = [pc EXCEPT !["tcp"] = "check"]
          /\ cur' = [cur EXCEPT !["tcp"] = 0]
          /\ UNCHANGED <<events, have, inputs>>
       \/ \E e \in events :
            /\ events' = events \ {e}
            /\ cur' = [cur EXCEPT !["tcp"] = e[2]]
            /\ have' \in IF e[1] = "IN" THEN 0..MaxInput - inputs ELSE {0}
            /\ inputs' = inputs + have'
            /\ pc' = [pc EXCEPT !["tcp"] =
                         CASE e[1] = "ACCEPT" -> "insert"
                           [] e[1] = "OUT" -> "send"
                           [] e[1] = "IN" /\ have' > 0 -> "handle"
                           [] OTHER -> "remove"]
    /\ UNCHANGED <<clientVars, lockVars, time, todo, kcpVars, mpc, told,
                   broadcasts, teardowns, waited, fault>>

\* server_client_newid counts up, and never hands out an id again.
NewId(c) == client[c] = "none" /\ \A d \in Ids : d < c => client[d] # "none"

\* _callback_accept puts the client into the table ...
TcpInsert ==
    /\ Goto("tcp", "insert", "connect")
    /\ lock = "none"
    /\ \E c \in Ids :
         /\ NewId(c)
         /\ client' = [client EXCEPT ![c] = "open"]
         /\ cur' = [cur EXCEPT !["tcp"] = c]
    /\ UNCHANGED <<priv, interest, ring, wire, send_buf_lock, lockVars, tcpVars,
                   todo, kcpVars, mpc, inputs, told,
                   broadcasts, teardowns, waited, fault>>

\* ... before tcp_server_client_connect attaches its server_client.
TcpConnect ==
    /\ Goto("tcp", "connect", "next")
    /\ priv' = [priv EXCEPT ![cur["tcp"]] = TRUE]
    /\ UNCHANGED <<client, interest, ring, wire, send_buf_lock, lockVars, cur,
                   tcpVars, todo, kcpVars, mpc, inputs, told, broadcasts,
                   teardowns, waited, fault>>

\* server_on_pkg for an event that needs no answer.
TcpInput ==
    /\ Alive /\ pc["tcp"] = "handle" /\ net_cb_lock = "none"
    /\ have' = have - 1
    /\ pc' = [pc EXCEPT !["tcp"] = IF have = 1 THEN "next" ELSE "handle"]
    /\ UNCHANGED <<clientVars, lockVars, cur, events, time, todo, kcpVars, mpc,
                   inputs, told, broadcasts, teardowns, waited, fault>>

\* on_request: the answer goes over KCP once that is enabled.
TcpRequest ==
    /\ Alive /\ pc["tcp"] = "handle"
    /\ net_cb_lock = "none" /\ net_cb_lock' = "tcp"
    /\ told' = told \cup {cur["tcp"]}
    /\ pc' = [pc EXCEPT !["tcp"] =
                 IF cur["tcp"] \in kcp_enable THEN "sent" ELSE "header"]
    /\ UNCHANGED <<clientVars, lock, cur, tcpVars, todo, kcpVars, mpc, inputs,
                   broadcasts, teardowns, waited, fault>>

TcpAnswered ==
    /\ Alive /\ pc["tcp"] = "sent"
    /\ net_cb_lock' = "none"
    /\ have' = have - 1
    /\ pc' = [pc EXCEPT !["tcp"] = IF have = 1 THEN "next" ELSE "handle"]
    /\ UNCHANGED <<clientVars, lock, cur, events, time, todo, kcpVars, mpc,
                   inputs, told, broadcasts, teardowns, waited, fault>>

\* Mutant: the client is removed without the lock of the table.
TcpRemoveUnlocked ==
    /\ Goto("tcp", "remove", "next")
    /\ client' = [client EXCEPT ![cur["tcp"]] = "freed"]
    /\ UNCHANGED <<priv, interest, ring, wire, send_buf_lock, lockVars, cur,
                   tcpVars, todo, kcpVars, mpc, inputs, told, broadcasts,
                   teardowns, waited, fault>>

\* _remove_client, under the lock of the table; the struct is freed.
TcpRemove ==
    /\ Goto("tcp", "remove", "next")
    /\ lock = "none"
    /\ client' = [client EXCEPT ![cur["tcp"]] = "freed"]
    /\ UNCHANGED <<priv, interest, ring, wire, send_buf_lock, lockVars, cur,
                   tcpVars, todo, kcpVars, mpc, inputs, told, broadcasts,
                   teardowns, waited, fault>>

\* _callback_senddata: the socket takes k units, none when it would block.
\* Only the first SignalLimit calls signal the condition.
TcpSend ==
    LET c == cur["tcp"]
        Wakes == cur["bcast"] = c /\ pc["bcast"] \in {"wait_header", "wait_body"}
    IN  /\ Alive /\ pc["tcp"] = "send" /\ send_buf_lock[c] = "none"
        /\ \E k \in 0..Len(ring[c]) :
             /\ ring' = [ring EXCEPT ![c] = SubSeq(@, k + 1, Len(@))]
             /\ wire' = [wire EXCEPT ![c] = IF k = 0 THEN @ ELSE ring[c][k]]
             /\ pc' = [pc EXCEPT !["tcp"] = "next",
                                 !["bcast"] =
                  IF k > 0 /\ time < SignalLimit /\ Wakes
                  THEN IF @ = "wait_header" THEN "header" ELSE "body" ELSE @]
        /\ time' = IF time < SignalLimit THEN time + 1 ELSE time
        /\ interest' = [interest EXCEPT ![c] = "IN"]
    /\ UNCHANGED <<client, priv, send_buf_lock, lockVars, cur, events, have,
                   todo, kcpVars, mpc, inputs, told, broadcasts, teardowns,
                   waited, fault>>


\* _check_need_send
CheckNeedSend(C) ==
    /\ Goto("tcp", "check", "idle")
    /\ lock = "none"
    /\ interest' = [c \in Ids |-> IF c \in C THEN "OUT" ELSE interest[c]]
    /\ UNCHANGED <<client, priv, ring, wire, send_buf_lock, lockVars, cur,
                   tcpVars, todo, kcpVars, mpc, inputs, told, broadcasts,
                   teardowns, waited, fault>>

TcpCheck == CheckNeedSend({c \in Table : ring[c] # <<>>})

-----------------------------------------------------------------------------
(***************************************************************************)
(* The broadcast thread: tcp_foreach_client(_foreach_bradcast), with the   *)
(* lock of the table held throughout.                                      *)
(***************************************************************************)
BcastLock ==
    /\ Goto("bcast", "idle", "next")
    /\ broadcasts < MaxBroadcasts
    /\ lock = "none" /\ lock' = "bcast"
    /\ todo' = Table
    /\ broadcasts' = broadcasts + 1
    /\ UNCHANGED <<clientVars, net_cb_lock, cur, tcpVars, kcpVars, mpc, inputs,
                   told, teardowns, waited, fault>>

NextClient(guard) ==
    /\ Alive /\ pc["bcast"] \in {"next", "sent"} /\ guard
    /\ \/ /\ todo = {} /\ lock' = "none"
          /\ pc' = [pc EXCEPT !["bcast"] = "idle"]
          /\ cur' = [cur EXCEPT !["bcast"] = 0]
          /\ UNCHANGED todo
       \/ \E c \in todo :
            /\ todo' = todo \ {c}
            /\ cur' = [cur EXCEPT !["bcast"] = c]
            /\ pc' = [pc EXCEPT !["bcast"] =
                         CASE ~priv[c] -> "next"
                           [] priv[c] /\ c \in kcp_enable -> "kcp"
                           [] OTHER -> "room"]
            /\ UNCHANGED lock
    /\ UNCHANGED <<clientVars, net_cb_lock, tcpVars, kcpVars, mpc, inputs,
                   told, broadcasts, teardowns, waited, fault>>

\* Mutant: the broadcaster needs net_cb_lock to go on.
BcastNextCallback == NextClient(net_cb_lock = "none")

BcastNext == NextClient(TRUE)

\* kcp_server_send_pkt, below which nothing waits.
BcastKcp ==
    /\ Goto("bcast", "kcp", "next")
    /\ UNCHANGED <<clientVars, lockVars, cur, tcpVars, todo, kcpVars, mpc,
                   inputs, told, broadcasts, teardowns, waited, fault>>

\* tcp_send_data_unsafe reads the free count without the mutex.
RoomFor(n) ==
    /\ Alive /\ pc["bcast"] = "room"
    /\ pc' = [pc EXCEPT !["bcast"] =
                 IF Free(cur["bcast"]) < n THEN "next" ELSE "header"]
    /\ UNCHANGED <<clientVars, lockVars, cur, tcpVars, todo, kcpVars, mpc,
                   inputs, told, broadcasts, teardowns, waited, fault>>

BcastRoom == RoomFor(VideoLen + 1)

-----------------------------------------------------------------------------
(***************************************************************************)
(* The KCP thread.  A peer that was told its id sends datagrams with it.   *)
(***************************************************************************)
KcpStep(from) == Alive /\ kpc = from

server_has_client(c) == client[c] = "open"

\* _new_client, whose KCP context is put into the table.
NewClient(c) == kcp_table' = kcp_table \cup {c} /\ kcur' = c /\ kpc' = "find"

\* server_has_client, or the client found in the table.  Without either the
\* variable client keeps the client of the datagram before, NULL at first.
KcpRecv(c) ==
    /\ KcpStep("idle") /\ c \in told
    /\ \/ /\ c \in kcp_table
          /\ kpc' = "deliver" /\ kcur' = c
          /\ UNCHANGED <<kcp_table, fault>>
       \/ /\ c \notin kcp_table /\ lock = "none"
          /\ server_has_client(c)
          /\ NewClient(c)
          /\ UNCHANGED fault
       \/ /\ c \notin kcp_table /\ lock = "none"
          /\ ~server_has_client(c)
          /\ fault' = IF kcur = 0 THEN "null_client" ELSE "none"
          /\ UNCHANGED <<kcp_table, kpc, kcur>>
    /\ UNCHANGED <<clientVars, lockVars, pc, cur, tcpVars, todo, kcp_priv,
                   kcp_client, kcp_enable, mpc, inputs, told, broadcasts,
                   teardowns, waited>>

\* kcp_server_client_connect looks the client up once more ...
Found(is_open, not_open) ==
    /\ KcpStep("find") /\ lock = "none"
    /\ kpc' = IF client[kcur] = "open" THEN is_open ELSE not_open
    /\ UNCHANGED <<clientVars, lockVars, pc, cur, tcpVars, todo, kcur,
                   kcp_table, kcp_priv, kcp_client, kcp_enable, mpc, inputs,
                   told, broadcasts, teardowns, waited, fault>>

\* Mutant: the result of the second look is tested the wrong way round.
KcpFindInverted == Found("deliver", "use")

KcpFind == Found("use", "deliver")

\* ... and follows the pointer after the lock was released.
KcpUse ==
    /\ KcpStep("use")
    /\ IF client[kcur] = "open"
       THEN /\ kcp_client' = kcp_client \cup {kcur}
            /\ kcp_priv' = kcp_priv \cup {kcur}
            /\ kpc' = "enable" /\ UNCHANGED fault
       ELSE /\ fault' = "bind_freed"
            /\ UNCHANGED <<kcp_client, kcp_priv, kpc>>
    /\ UNCHANGED <<clientVars, lockVars, pc, cur, tcpVars, todo, kcur,
                   kcp_table, kcp_enable, mpc, inputs, told, broadcasts,
                   teardowns, waited>>

KcpEnable ==
    /\ KcpStep("enable")
    /\ kcp_enable' = kcp_enable \cup {kcur}
    /\ kpc' = "deliver"
    /\ UNCHANGED <<clientVars, lockVars, pc, cur, tcpVars, todo, kcur,
                   kcp_table, kcp_priv, kcp_client, mpc, inputs, told,
                   broadcasts, teardowns, waited, fault>>

\* ikcp_input, then _kcp_recvdata: no packet is complete, or one is, an
\* input event or a request; a request uses the client of the packet.
KcpNothing ==
    /\ KcpStep("deliver")
    /\ kpc' = "idle"
    /\ UNCHANGED <<clientVars, lockVars, pc, cur, tcpVars, todo, kcur,
                   kcp_table, kcp_priv, kcp_client, kcp_enable, mpc, inputs,
                   told, broadcasts, teardowns, waited, fault>>

KcpInput ==
    /\ KcpStep("deliver") /\ net_cb_lock = "none" /\ inputs < MaxInput
    /\ inputs' = inputs + 1
    /\ UNCHANGED <<clientVars, lockVars, pc, cur, tcpVars, todo, kcpVars, mpc,
                   told, broadcasts,
                   teardowns, waited, fault>>

RequestFrom(guard, owner) ==
    /\ KcpStep("deliver") /\ inputs < MaxInput
    /\ guard /\ net_cb_lock' = owner
    /\ inputs' = inputs + 1
    /\ IF kcur \in kcp_priv
       THEN kpc' = "respond" /\ UNCHANGED fault
       ELSE fault' = "null_priv" /\ UNCHANGED kpc
    /\ UNCHANGED <<clientVars, lock, pc, cur, tcpVars, todo, kcur, kcp_table,
                   kcp_priv, kcp_client, kcp_enable, mpc, told, broadcasts, teardowns, waited>>

\* Mutant: the request is handled without net_cb_lock.
KcpRequestUnlocked == RequestFrom(TRUE, net_cb_lock)

KcpRequest == RequestFrom(net_cb_lock = "none", "kcp")

\* GET_CLIENT_ID reads the struct of the TCP client; the answer is sent.
KcpRespond(getid) ==
    /\ KcpStep("respond")
    /\ IF getid /\ client[kcur] # "open"
       THEN fault' = "getid_freed" /\ UNCHANGED <<kpc, net_cb_lock>>
       ELSE /\ kpc' = "deliver" /\ UNCHANGED fault
            /\ net_cb_lock' = "none"
    /\ UNCHANGED <<clientVars, lock, pc, cur, tcpVars, todo, kcur, kcp_table,
                   kcp_priv, kcp_client, kcp_enable, mpc, inputs, told,
                   broadcasts, teardowns, waited>>

-----------------------------------------------------------------------------
(***************************************************************************)
(* The main thread, at the end of a pipeline: with net_cb_lock held it     *)
(* joins the encoder, which waits for the broadcaster to be done.          *)
(***************************************************************************)
MainLock ==
    /\ Alive /\ mpc = "run" /\ teardowns < MaxTearDowns
    /\ net_cb_lock = "none" /\ net_cb_lock' = "main"
    /\ mpc' = "join" /\ teardowns' = teardowns + 1
    /\ UNCHANGED <<clientVars, lock, pc, cur, tcpVars, todo, kcpVars, inputs,
                   told, broadcasts, waited, fault>>

MainJoin ==
    /\ Alive /\ mpc = "join" /\ pc["bcast"] = "idle"
    /\ mpc' = "run" /\ net_cb_lock' = "none"
    /\ UNCHANGED <<clientVars, lock, pc, cur, tcpVars, todo, kcpVars, inputs,
                   told, broadcasts, teardowns, waited, fault>>
-----------------------------------------------------------------------------

TcpThread ==
    \/ TcpEpoll \/ TcpNext \/ TcpInsert \/ TcpConnect \/ TcpInput \/ TcpRequest
    \/ PutHeader("tcp") \/ PutBody("tcp") \/ TcpAnswered
    \/ TcpRemove \/ TcpSend \/ TcpCheck

BcastWork ==
    \/ BcastNext \/ BcastKcp \/ BcastRoom
    \/ PutHeader("bcast") \/ PutBody("bcast")

KcpThread ==
    \/ \E c \in Ids : KcpRecv(c)
    \/ KcpFind \/ KcpUse \/ KcpEnable
    \/ KcpNothing \/ KcpInput \/ KcpRequest
    \/ \E getid \in BOOLEAN : KcpRespond(getid)

Next ==
    \/ TcpThread \/ BcastLock \/ BcastWork \/ KcpThread
    \/ MainLock \/ MainJoin

Spec == Init /\ [][Next]_vars

\* Every thread goes on running, and is given in the end a lock that is free
\* again and again; which events and packets there are stays open.
FairSpec ==
    /\ Spec
    /\ SF_vars(TcpThread) /\ WF_vars(BcastWork)
    /\ WF_vars(KcpThread) /\ WF_vars(MainJoin)

-----------------------------------------------------------------------------

Answering == {"header", "body", "sent", "wait_header", "wait_body"}
TcpWorking == {"connect", "handle", "remove", "send"} \cup Answering
BcastWorking == {"kcp", "room"} \cup Answering
TcpStates == {"idle", "next", "insert", "check"} \cup TcpWorking
BcastStates == {"idle", "next"} \cup BcastWorking
Events == {<<"ACCEPT", 0>>} \cup {"IN", "OUT", "ERR"} \X Ids

ClientsTyped ==
    /\ client \in [Ids -> {"none", "open", "freed"}]
    /\ priv \in [Ids -> BOOLEAN]
    /\ interest \in [Ids -> {"IN", "OUT"}]
    /\ ring \in [Ids -> Seq(Unit)] /\ \A c \in Ids : Len(ring[c]) <= RingSize
    /\ wire \in [Ids -> Unit]
    /\ send_buf_lock \in [Ids -> Senders \cup {"none"}]

SendersTyped ==
    /\ pc \in [Senders -> TcpStates \cup BcastStates]
    /\ pc["tcp"] \in TcpStates /\ pc["bcast"] \in BcastStates
    /\ cur \in [Senders -> Ids \cup {0}]
    /\ pc["tcp"] \in TcpWorking => cur["tcp"] \in Ids
    /\ pc["bcast"] \in BcastWorking => cur["bcast"] \in Ids
    /\ events \subseteq Events /\ todo \subseteq Ids
    /\ have \in 0..MaxInput
    /\ pc["tcp"] \in {"handle"} \cup Answering => have > 0

KcpTyped ==
    /\ kpc \in {"idle", "find", "use", "enable", "deliver", "respond"}
    /\ kcur \in kcp_table \cup IF kpc = "idle" THEN {0} ELSE {}
    /\ told \subseteq Ids /\ kcp_table \subseteq told
    /\ kcp_client \subseteq kcp_table /\ kcp_priv \subseteq kcp_table
    /\ kcp_enable \subseteq kcp_table

OthersTyped ==
    /\ lock \in {"none", "bcast"} /\ net_cb_lock \in {"none", "tcp", "kcp", "main"}
    /\ mpc \in {"run", "join"}
    /\ time \in 0..SignalLimit /\ inputs \in 0..MaxInput
    /\ broadcasts \in 0..MaxBroadcasts /\ teardowns \in 0..MaxTearDowns
    /\ waited \in BOOLEAN
    /\ fault \in {"none", "null_client", "bind_freed", "null_priv", "getid_freed"}

\* Every variable has its type, what a thread works on is a client, what it
\* answers is a packet received, and KCP knows only ids that were told.
TypeOK == ClientsTyped /\ SendersTyped /\ KcpTyped /\ OthersTyped

\* The broadcaster never works on a client that was freed under it, nor does
\* the TCP thread on one it has removed earlier in the same batch of events.
ClientsLive ==
    /\ pc["bcast"] \notin {"idle", "next", "sent"} => client[cur["bcast"]] = "open"
    /\ pc["tcp"] \notin {"idle", "next", "insert", "check"} =>
           client[cur["tcp"]] = "open"

\* As long as no sender has had to wait for room, what a client receives is
\* whole packets: a header, then its body and nothing else, although the
\* responses and the broadcasts go into one ring from two threads.
FollowsIn(a, b) ==
    IF a[2] = 0 THEN \E s \in Senders : b = Header(s)[1] ELSE b = <<a[1], a[2] - 1>>

Framed ==
    ~waited =>
    \A c \in Ids :
        LET stream == <<wire[c]>> \o ring[c]
        IN  \A i \in 1..Len(stream) - 1 : FollowsIn(stream[i], stream[i + 1])

\* server_send_event builds every response in one static buffer: the KCP
\* thread does not use it while the TCP thread still copies from it.
ResponseBufferExclusive ==
    kpc = "respond" => pc["tcp"] \notin {"header", "body", "sent", "wait_header", "wait_body"}

\* The KCP thread follows a bad pointer only after a client has disconnected.
FaultsNeedDisconnect ==
    ~Alive => \E c \in told : client[c] = "freed"

Stuck == waited \/ ~Alive

\* A broadcast comes to its end, unless a sender had to wait for room.
BroadcastEnds == pc["bcast"] # "idle" ~> pc["bcast"] = "idle" \/ Stuck

\* The tear-down of a pipeline under net_cb_lock comes to its end: no client
\* holds it up, unless a sender had to wait for room.
TearDownEnds == mpc = "join" ~> mpc = "run" \/ Stuck
=============================================================================
