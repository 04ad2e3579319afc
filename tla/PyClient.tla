------------------------------ MODULE PyClient ------------------------------
(***************************************************************************)
(* The client of the Python GUI: the thread that receives from TCP         *)
(* (net/tcp_client.c), the one that receives from KCP, and the GUI thread  *)
(* with its timer (clients/pyqt/pyqt_proxy.c and the modules around it),   *)
(* which share a ring of video packets with its counter, and a table of    *)
(* requests that wait for their responses.                                 *)
(*                                                                         *)
(* A video packet is its number, which is also the number of its picture;  *)
(* 0 is no packet.  A request is its id.  The ring counts in packets:      *)
(* module DataQueue shows what a ring of bytes does.  The server (external)*)
(* streams packets in order and answers requests in order, on KCP once it  *)
(* has heard the client there.  Memory of requests is a set of blocks that *)
(* calloc may hand out again.                                              *)
(***************************************************************************)
EXTENDS DevIdQueue, FiniteSetsExt, Sequences

CONSTANTS
    Buffers,        \* 5: the ids of the buffers of client_pool are 0..Buffers-1
    RingSize,       \* QUEUE_DATA_SIZE, in packets
    Blocks,         \* blocks of memory for struct request_obj
    KcpRequest,     \* the id of the GET_CLIENT_ID request
    MaxVideo,       \* bound: packets the server streams
    MaxRequests,    \* bound: requests of the GUI
    MaxMisses       \* bound: packets that decode to no picture

NULL == "NULL"

ASSUME SizesAssumption ==
    /\ Buffers \in Nat /\ Buffers >= 3 /\ RingSize \in Nat \ {0}
    /\ MaxVideo \in Nat /\ MaxRequests \in Nat /\ MaxMisses \in Nat
    /\ KcpRequest \in Nat
    /\ IsFiniteSet(Blocks) /\ Blocks # {} /\ NULL \notin Blocks

Threads == {"tcp", "kcp"}
Ids == 0..(MaxRequests - 1)
NoId == -1
Video == 0..MaxVideo

VARIABLES
    conn,           \* the socket: "idle", "trying", "open", "refused" or "eof"
    gui,            \* where the GUI thread is
    net,            \* [Threads -> Seq(message)]: on their way to the client
    asked,          \* requests on their way to the server
    streamed,       \* packets the server has streamed
    bound,          \* the server knows the KCP end of this client
    kcp_enable,     \* client_net->kcp_enable
    pc, hand,       \* [Threads -> ...]: receive threads, and what they handle
    slots, buffer_head, buffer_tail,  \* recv_queue
    recv_pkt_count,
    recv_pkt,       \* the packet _decode_pkt has in hand
    buf_q, pic,     \* the decoder's ring, and the picture in each buffer
    shown,          \* the picture on the display
    live, idOf, nxt, req_obj_head,    \* the request table and its memory
    nextId,         \* the static id of _send_request_data
    answered,       \* ids whose callback has been called
    misses,         \* packets that gave no picture
    mixed,          \* history: KCP brought a packet before TCP had ended
    early,          \* history: a packet came before atomic_init
    vain,           \* history: a miss left the tail behind the unused slot
    overtaken,      \* history: a request left the table before an older one
    wild            \* a walk of the table has come to freed memory or in a circle

connVars == <<conn, early>>
ringVars == <<slots, buffer_head, buffer_tail, recv_pkt_count>>
decVars == <<recv_pkt, buf_q, pic, shown, misses, vain>>
reqVars == <<live, idOf, nxt, req_obj_head, nextId, answered, overtaken, wild>>
srvVars == <<asked, streamed, bound>>
netVars == <<net, pc, hand, kcp_enable, mixed>>
vars == <<conn, gui, net, asked, streamed, bound, kcp_enable, pc, hand, slots,
          buffer_head, buffer_tail, recv_pkt_count, recv_pkt, buf_q, pic, shown,
          live, idOf, nxt, req_obj_head, nextId, answered, misses, mixed, early,
          vain, overtaken, wild>>

Message == [type : {"video"}, n : Video] \cup [type : {"response"}, n : Ids]
Bound == gui \notin {"login", "select", "bind"}
Running == ~wild /\ gui # "exit"

TypeOK ==
    /\ conn \in {"idle", "trying", "open", "refused", "eof"}
    /\ gui \in {"login", "select", "bind", "count", "devs", "idle", "put", "send",
                "exit"}
    /\ net \in [Threads -> Seq(Message)] /\ asked \in [Threads -> Seq(Ids)]
    /\ streamed \in Video /\ bound \in BOOLEAN /\ kcp_enable \in BOOLEAN
    /\ pc \in [Threads -> {"recv", "enqueue", "copied", "published", "respond"}]
    /\ hand \in [Threads -> Video \cup Ids \cup Blocks]
    /\ slots \in [0..(RingSize - 1) -> Video]
    /\ buffer_head \in Nat /\ buffer_tail \in 0..buffer_head
    /\ buffer_head - buffer_tail <= RingSize + 1
    /\ recv_pkt_count \in 0..(buffer_head - buffer_tail + IF gui \in {"put", "exit"} THEN 1 ELSE 0)
    /\ recv_pkt \in Video /\ shown \in Video
    /\ buf_q.used \subseteq 1..(Buffers - 1) /\ buf_q.free \subseteq buf_q.used
    /\ buf_q.tail \in Nat /\ buf_q.head \in 0..(buf_q.tail + 1)
    /\ pic \in [0..(Buffers - 1) -> Video]
    /\ live \subseteq Blocks /\ idOf \in [Blocks -> Ids \cup {NoId}]
    /\ nxt \in [Blocks -> Blocks \cup {NULL}]
    /\ req_obj_head \in Blocks \cup {NULL} /\ nextId \in 0..MaxRequests
    /\ answered \subseteq Ids /\ misses \in 0..MaxMisses
    /\ {mixed, early, vain, overtaken, wild} \subseteq BOOLEAN

Init ==
    /\ conn = "idle" /\ gui = "login"
    /\ net = [t \in Threads |-> <<>>] /\ asked = [t \in Threads |-> <<>>] /\ streamed = 0
    /\ bound = FALSE /\ kcp_enable = FALSE
    /\ pc = [t \in Threads |-> "recv"] /\ hand = [t \in Threads |-> 0]
    /\ slots = [i \in 0..(RingSize - 1) |-> 0]
    /\ buffer_head = 0 /\ buffer_tail = 0 /\ recv_pkt_count = 0
    /\ recv_pkt = 0 /\ shown = 0 /\ misses = 0
    /\ buf_q = EmptyQueue /\ pic = [b \in 0..(Buffers - 1) |-> 0]
    /\ live = {} /\ idOf = [b \in Blocks |-> NoId]
    /\ nxt = [b \in Blocks |-> NULL] /\ req_obj_head = NULL
    /\ nextId = 0 /\ answered = {}
    /\ mixed = FALSE /\ early = FALSE /\ vain = FALSE
    /\ overtaken = FALSE /\ wild = FALSE
-----------------------------------------------------------------------------
(* tcp_client_init and client_net_init, called by the GUI thread.  The      *)
(* socket connects without blocking, and select tells what it is ready for. *)

Connect ==
    /\ Running /\ gui = "login"
    /\ conn' = "trying" /\ gui' = "select"
    /\ UNCHANGED <<early, netVars, ringVars, decVars, reqVars, srvVars>>

\* The network (external): the server accepts or refuses.
Settle ==
    /\ conn = "trying" /\ conn' \in {"open", "refused"}
    /\ UNCHANGED <<early, gui, netVars, ringVars, decVars, reqVars, srvVars>>

Writable == conn \in {"open", "refused"}
Readable == conn = "refused" \/ net["tcp"] # <<>>

\* Mutant: a refused connection is taken for one.
ReadyWritable == Writable

\* connect_timeout: only a socket that is ready for one thing is taken for
\* connected; one that is also readable has failed, or its peer spoke first.
Ready == Writable /\ ~Readable

Select ==
    /\ Running /\ gui = "select"
    /\ IF Ready THEN /\ gui' = "bind"
                     /\ UNCHANGED <<conn, net>>
                ELSE /\ gui' = "login" /\ conn' = "idle"
                     /\ net' = [net EXCEPT !["tcp"] = <<>>]
    /\ UNCHANGED <<early, kcp_enable, pc, hand, mixed, ringVars, decVars, reqVars,
                   srvVars>>

\* py_client_connect: the callback is bound while packets already come.
BindCallback ==
    /\ Running /\ gui = "bind" /\ gui' = "count"
    /\ UNCHANGED <<connVars, netVars, ringVars, decVars, reqVars, srvVars>>

InitCount ==
    /\ Running /\ gui = "count" /\ gui' = "devs"
    /\ recv_pkt_count' = 0
    /\ UNCHANGED <<connVars, netVars, slots, buffer_head, buffer_tail, decVars,
                   reqVars, srvVars>>

\* decodec_map_fb for the five buffers.
MapBuffers ==
    /\ Running /\ gui = "devs" /\ gui' = "idle"
    /\ buf_q' = [used |-> 1..(Buffers - 1), free |-> 1..(Buffers - 1),
                 head |-> 0, tail |-> 0, max_idx |-> Buffers - 1]
    /\ UNCHANGED <<connVars, netVars, ringVars, recv_pkt, pic, shown, misses, vain,
                   reqVars, srvVars>>
-----------------------------------------------------------------------------
(* The server.                                                              *)

Route == IF bound THEN "kcp" ELSE "tcp"

\* server_bradcast_data
Stream ==
    /\ conn = "open" /\ streamed < MaxVideo
    /\ streamed' = streamed + 1
    /\ net' = [net EXCEPT ![Route] = Append(@, [type |-> "video", n |-> streamed'])]
    /\ UNCHANGED <<connVars, gui, kcp_enable, pc, hand, mixed, ringVars, decVars,
                   reqVars, asked, bound>>

\* on_request, in the thread of either transport.
Answer(t) ==
    /\ conn = "open" /\ asked[t] # <<>> /\ (t = "kcp" => bound)
    /\ asked' = [asked EXCEPT ![t] = Tail(@)]
    /\ net' = [net EXCEPT ![Route] =
                   Append(@, [type |-> "response", n |-> Head(asked[t])])]
    /\ UNCHANGED <<connVars, gui, kcp_enable, pc, hand, mixed, ringVars, decVars,
                   reqVars, streamed, bound>>

\* kcp_server_client_connect: the first datagram of the client.
Bind ==
    /\ kcp_enable /\ ~bound /\ bound' = TRUE
    /\ UNCHANGED <<connVars, gui, netVars, ringVars, decVars, reqVars, asked, streamed>>

Close ==
    /\ conn = "open" /\ conn' = "eof"
    /\ UNCHANGED <<early, gui, netVars, ringVars, decVars, reqVars, srvVars>>
-----------------------------------------------------------------------------
(* The table of requests, a list of blocks.                                 *)

Before(x, y) == x < y

\* The blocks a walk from the head visits, NULL after the end.
Path ==
    LET f[k \in 0..Cardinality(Blocks)] ==
            IF k = 0 THEN req_obj_head
            ELSE IF f[k - 1] = NULL THEN NULL ELSE nxt[f[k - 1]]
    IN f

\* Where the walk for an id stops: at its request, or at memory it may not read.
Stops(id) == {k \in DOMAIN Path : Path[k] # NULL
                                  /\ (Path[k] \notin live \/ idOf[Path[k]] = id)}
Found(id) == Stops(id) # {} /\ Path[Min(Stops(id))] \in live
Hit(id) == Path[Min(Stops(id))]

\* get_del_request: a request in mid-list is taken out, one at the head stays
\* there, since last and ret are the same.
Unlinked(id) ==
    LET k == Min(Stops(id)) IN
    IF k = 0 THEN nxt ELSE [nxt EXCEPT ![Path[k - 1]] = nxt[Path[k]]]

\* Older requests that nobody has taken from the table yet.
InHand == {hand[t] : t \in {u \in Threads : pc[u] = "respond"}}
Waiting(id) == {b \in live \ InHand : Before(idOf[b], id)}

add_request(b) ==
    /\ nxt' = [nxt EXCEPT ![b] = req_obj_head]
    /\ req_obj_head' = b

\* _send_request_data up to add_request, for a block calloc has cleared.
AddRequest(b) ==
    /\ Running /\ gui = "idle" /\ nextId < MaxRequests
    /\ b \notin live
    /\ live' = live \cup {b} /\ idOf' = [idOf EXCEPT ![b] = nextId]
    /\ add_request(b)
    /\ gui' = "send"
    /\ UNCHANGED <<connVars, netVars, ringVars, decVars, srvVars, nextId, answered,
                   overtaken, wild>>

\* Mutant: ids are not counted up.
NextIdSame(id) == id

NextId(id) == id + 1

\* _send_request_data and client_send_pkt: by KCP once there is one.
SendRequest ==
    /\ Running /\ gui = "send" /\ (conn = "open" \/ kcp_enable)
    /\ LET t == IF kcp_enable THEN "kcp" ELSE "tcp"
       IN asked' = [asked EXCEPT ![t] = Append(@, nextId)]
    /\ nextId' = NextId(nextId)
    /\ gui' = "idle"
    /\ UNCHANGED <<connVars, netVars, ringVars, decVars, streamed, bound, live, idOf,
                   nxt, req_obj_head, answered, overtaken, wild>>

\* _tcp_send_pkt fails when send does, on a connection that has ended.
SendRefused == conn = "eof" /\ ~kcp_enable

\* The send fails: the request is taken back.
SendFails ==
    /\ Running /\ gui = "send" /\ SendRefused
    /\ Found(nextId)
    /\ nxt' = [Unlinked(nextId) EXCEPT ![Hit(nextId)] = NULL]
    /\ live' = live \ {Hit(nextId)} /\ idOf' = [idOf EXCEPT ![Hit(nextId)] = NoId]
    /\ overtaken' = (overtaken \/ Waiting(nextId) # {})
    /\ gui' = "idle"
    /\ UNCHANGED <<connVars, netVars, ringVars, decVars, srvVars, req_obj_head, nextId,
                   answered, wild>>
-----------------------------------------------------------------------------
(* The receive threads: _tcp_recv_pkt and _kcp_recvdata call client_on_pkg  *)
(* and through it _on_client_recv.                                          *)

Take(t) ==
    /\ Running /\ pc[t] = "recv" /\ net[t] # <<>> /\ gui \notin {"login", "select"}
    /\ net' = [net EXCEPT ![t] = Tail(@)]
    /\ UNCHANGED <<conn, gui, kcp_enable, buffer_tail, decVars, srvVars>>

\* client_on_pkg before a callback is there.
Drop(t) ==
    /\ Take(t) /\ ~Bound
    /\ UNCHANGED <<early, pc, hand, mixed, slots, buffer_head, recv_pkt_count, reqVars>>

VideoUnderWay(t) ==
    \/ pc[t] \in {"enqueue", "copied", "published"}
    \/ \E i \in DOMAIN net[t] : net[t][i].type = "video"

RecvVideo(t) ==
    /\ Take(t) /\ Bound /\ Head(net[t]).type = "video"
    /\ pc' = [pc EXCEPT ![t] = "enqueue"]
    /\ hand' = [hand EXCEPT ![t] = Head(net[t]).n]
    /\ mixed' = (mixed \/ (t = "kcp" /\ VideoUnderWay("tcp")))
    /\ UNCHANGED <<early, slots, buffer_head, recv_pkt_count, reqVars>>

\* Mutant: the oldest packet is overwritten.
RoomAlways == TRUE

\* enqueue_data spins while there is no room; neither thread locks anything.
Room == buffer_head - buffer_tail < RingSize

Enqueue(t) ==
    /\ Running /\ pc[t] = "enqueue" /\ Room
    /\ slots' = [slots EXCEPT ![buffer_head % RingSize] = hand[t]]
    /\ pc' = [pc EXCEPT ![t] = "copied"]
    /\ UNCHANGED <<connVars, gui, net, kcp_enable, hand, mixed, buffer_head,
                   buffer_tail, recv_pkt_count, decVars, reqVars, srvVars>>

Publish(t) ==
    /\ Running /\ pc[t] = "copied"
    /\ buffer_head' = buffer_head + 1
    /\ pc' = [pc EXCEPT ![t] = "published"]
    /\ UNCHANGED <<connVars, gui, net, kcp_enable, hand, mixed, slots, buffer_tail,
                   recv_pkt_count, decVars, reqVars, srvVars>>

\* Mutant: the counter is not atomic, and an increment is lost to a decrement.
IncrementRaced(n) == IF gui = "put" THEN n ELSE n + 1

\* atomic_fetch_add
Increment(n) == n + 1

Count(t) ==
    /\ Running /\ pc[t] = "published"
    /\ recv_pkt_count' = Increment(recv_pkt_count)
    /\ early' = (early \/ gui = "count")
    /\ pc' = [pc EXCEPT ![t] = "recv"] /\ hand' = [hand EXCEPT ![t] = 0]
    /\ UNCHANGED <<conn, gui, net, kcp_enable, mixed, slots, buffer_head, buffer_tail,
                   decVars, reqVars, srvVars>>

\* _on_response up to the callback.
RecvResponse(t) ==
    /\ Take(t) /\ Bound /\ Head(net[t]).type = "response"
    /\ LET id == Head(net[t]).n IN
       /\ overtaken' = (overtaken \/ Waiting(id) # {})
       /\ IF Found(id)
          THEN /\ nxt' = Unlinked(id)
               /\ pc' = [pc EXCEPT ![t] = "respond"]
               /\ hand' = [hand EXCEPT ![t] = Hit(id)]
               /\ UNCHANGED wild
          ELSE /\ wild' = (Stops(id) # {} \/ Path[Cardinality(Blocks)] # NULL)
               /\ UNCHANGED <<nxt, pc, hand>>
    /\ UNCHANGED <<early, mixed, slots, buffer_head, recv_pkt_count, live, idOf,
                   req_obj_head, nextId, answered>>

\* The callback of GET_CLIENT_ID starts KCP.
client_kcp_connect(id) == kcp_enable' = (kcp_enable \/ id = KcpRequest)

\* The callback, then free.
Respond(t) ==
    /\ Running /\ pc[t] = "respond"
    /\ LET b == hand[t] IN
       /\ answered' = answered \cup {idOf[b]}
       /\ client_kcp_connect(idOf[b])
       /\ live' = live \ {b}
       /\ idOf' = [idOf EXCEPT ![b] = NoId] /\ nxt' = [nxt EXCEPT ![b] = NULL]
    /\ pc' = [pc EXCEPT ![t] = "recv"] /\ hand' = [hand EXCEPT ![t] = 0]
    /\ UNCHANGED <<connVars, gui, net, mixed, ringVars, decVars, srvVars, req_obj_head,
                   nextId, overtaken, wild>>

\* recv returns 0: the thread ends the process.
RecvEof ==
    /\ Running /\ conn = "eof" /\ net["tcp"] = <<>> /\ pc["tcp"] = "recv"
    /\ gui \notin {"login", "select"}
    /\ gui' = "exit"
    /\ UNCHANGED <<connVars, netVars, ringVars, decVars, reqVars, srvVars>>
-----------------------------------------------------------------------------
(* The timer of the GUI thread: py_client_init_config until a picture has   *)
(* been decoded, py_on_frame from then on.                                  *)

\* _decode_pkt: one packet out of the ring.
DequeuePkt ==
    /\ Running /\ gui = "idle" /\ recv_pkt_count > 0
    /\ recv_pkt' = slots[buffer_tail % RingSize]
    /\ buffer_tail' = buffer_tail + 1
    /\ gui' = "put"
    /\ UNCHANGED <<connVars, netVars, slots, buffer_head, recv_pkt_count, buf_q, pic,
                   shown, misses, vain, reqVars, srvVars>>

\* Mutant: a packet without a picture uses up its slot.
PushPktAlways(d, n, ok) ==
    LET q == SkipTail(d.q) IN
    IF Full(d.q) THEN d
    ELSE IF TailFree(q)
         THEN [d EXCEPT !.q = SubId(q),
                        !.pic = [@ EXCEPT ![Slot(q, q.tail)] = IF ok THEN n ELSE @]]
         ELSE [d EXCEPT !.q = q]

\* svc_push_pkt: the ring of the decoder and its pictures after packet n.
PushPkt(d, n, ok) ==
    LET q == SkipTail(d.q) IN
    IF Full(d.q) THEN d
    ELSE IF TailFree(q) /\ ok
         THEN [d EXCEPT !.q = SubId(q), !.pic = [@ EXCEPT ![Slot(q, q.tail)] = n]]
         ELSE [d EXCEPT !.q = q]

\* py_on_frame after decoding: the next buffer goes to the display, which
\* draws it at once, and comes back.
ShowFrame(d) ==
    LET q == SkipHead(d.q) IN
    IF Empty(d.q) THEN d
    ELSE IF HeadFree(q)
         THEN [d EXCEPT !.q = PutBuf(PassHead(TakeHead(q)), Slot(q, q.head)),
                        !.shown = d.pic[Slot(q, q.head)]]
         ELSE [d EXCEPT !.q = q]

Decoder == [q |-> buf_q, pic |-> pic, shown |-> shown]
Becomes(d) == buf_q' = d.q /\ pic' = d.pic /\ shown' = d.shown

\* svc_get_info knows the size of the picture.
HasInfo == \E b \in DOMAIN pic : pic[b] # 0

Frame(ok) ==
    /\ Running /\ gui = "put" /\ gui' = "idle"
    /\ recv_pkt_count' = recv_pkt_count - 1
    /\ LET d == PushPkt(Decoder, recv_pkt, ok)
       IN Becomes(IF HasInfo THEN ShowFrame(d) ELSE d)
    /\ recv_pkt' = 0
    /\ misses' = (IF ok THEN misses ELSE misses + 1) /\ misses' <= MaxMisses
    /\ vain' = (vain \/ (~ok /\ ~Full(buf_q) /\ SkipTail(buf_q) # buf_q))
    /\ UNCHANGED <<connVars, netVars, slots, buffer_head, buffer_tail, reqVars, srvVars>>

FrameWithoutPkt ==
    /\ Running /\ gui = "idle" /\ recv_pkt_count = 0 /\ HasInfo /\ ~Empty(buf_q)
    /\ Becomes(ShowFrame(Decoder))
    /\ UNCHANGED <<connVars, gui, netVars, ringVars, recv_pkt, misses, vain, reqVars,
                   srvVars>>
-----------------------------------------------------------------------------
Setup == Connect \/ Select \/ BindCallback \/ InitCount \/ MapBuffers
Timer == DequeuePkt \/ (\E ok \in BOOLEAN : Frame(ok)) \/ FrameWithoutPkt
Requests == (\E b \in Blocks : AddRequest(b)) \/ SendRequest \/ SendFails
Receive(t) ==
    \/ Drop(t) \/ RecvVideo(t) \/ Enqueue(t) \/ Publish(t) \/ Count(t)
    \/ RecvResponse(t) \/ Respond(t)
Server == Settle \/ Stream \/ (\E t \in Threads : Answer(t)) \/ Bind \/ Close

Next ==
    \/ Setup \/ Timer \/ Requests \/ Server \/ RecvEof
    \/ \E t \in Threads : Receive(t)

Spec == Init /\ [][Next]_vars

Gui == BindCallback \/ InitCount \/ MapBuffers \/ Timer \/ SendRequest \/ SendFails
Serve == Bind \/ (\E t \in Threads : Answer(t))

CanGui ==
    Running /\ \/ gui \in {"bind", "count", "devs", "put", "send"}
               \/ gui = "idle" /\ (recv_pkt_count > 0 \/ (HasInfo /\ ~Empty(buf_q)))
CanServe ==
    \/ kcp_enable /\ ~bound
    \/ conn = "open" /\ \E t \in Threads : asked[t] # <<>> /\ (t = "kcp" => bound)
CanReceive(t) ==
    Running /\ \/ pc[t] = "recv" /\ net[t] # <<>> /\ gui \notin {"login", "select"}
               \/ pc[t] = "enqueue" /\ Room
               \/ pc[t] \in {"copied", "published", "respond"}

\* The GUI thread's timer fires for ever; each receive thread and the server
\* go on.  Each line is weak fairness of all the steps of one thread, with
\* their enabling condition written out.
FairSpec ==
    /\ Spec
    /\ []<>~CanGui \/ []<><<Gui>>_vars
    /\ []<>~CanServe \/ []<><<Serve>>_vars
    /\ \A t \in Threads : []<>~CanReceive(t) \/ []<><<Receive(t)>>_vars
-----------------------------------------------------------------------------
(* Properties.                                                              *)

\* The table of requests goes bad only after a request has left it before an
\* older one, by an answer that overtook or a send that failed,
\* and only an open socket gets a receive thread.
FaultsExplained ==
    /\ wild => overtaken
    /\ gui \notin {"login", "select"} => conn \in {"open", "eof"}

\* Pictures reach the display in the order of the stream, none twice, unless
\* KCP overtook TCP or a packet without a picture came at the unused slot.
PicturesInOrder == [][shown' # shown => shown' > shown \/ mixed \/ vain']_vars

\* Every request sent is answered, every packet received is decoded and
\* every picture shown, unless the two threads met or the process ended.  A
\* count lost in atomic_init keeps as many packets in the ring, for ever.
Gone == ~Running \/ conn = "eof"
Ended == early \/ Gone
RequestsAnswered == (answered # 0..(nextId - 1)) ~> (answered = 0..(nextId - 1) \/ Ended)
PacketsShown ==
    (buffer_head # buffer_tail \/ \E b \in DOMAIN pic : pic[b] > shown)
        ~> (Ended \/ (buffer_head = buffer_tail
                     /\ (vain \/ mixed \/ \A b \in DOMAIN pic : pic[b] <= shown)))
Served == RequestsAnswered /\ PacketsShown
=============================================================================
