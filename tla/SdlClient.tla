----------------------------- MODULE SdlClient -----------------------------
(***************************************************************************)
(* The SDL client (client.c, display_dev/sdl_display.c): the thread that   *)
(* receives from TCP decodes every packet at once, the main thread sets    *)
(* everything up and then takes decoded buffers to the display, and a      *)
(* third thread polls SDL for events.  Nothing is locked: the decoder and  *)
(* the display share the ring of module DevIdQueue, the event thread and   *)
(* the main thread one slot, whose type is 0 when it is empty.             *)
(*                                                                         *)
(* A packet is its number, and so is its picture.  An event is the number  *)
(* of its turn among those that found the slot empty; the others are lost. *)
(***************************************************************************)
EXTENDS DevIdQueue, Sequences

CONSTANTS
    Buffers,        \* 5: the ids of the buffers of client_pool are 0..Buffers-1
    MaxVideo,       \* bound: packets received
    MaxEvents,      \* bound: events put into the slot
    MaxTail         \* bound: where the decoder stops to look for a used slot

ASSUME BoundsAssumption ==
    /\ Buffers \in Nat /\ Buffers >= 3
    /\ MaxVideo \in Nat /\ MaxEvents \in Nat /\ MaxTail \in Nat

VARIABLES
    main,           \* where client_main and sdl_main_loop are
    dec_obj,        \* it has been set
    mapped,         \* buffers mapped
    info,           \* the decoder knows the size of the picture
    buf_q,          \* the ring of buffer ids
    buf,            \* the buffer on its way to the display
    pic, shown,     \* the picture in each buffer, and on the display
    net,            \* where the receive thread is
    got,            \* packets received
    divisor, id,    \* max_idx as the decoder has read it, and its buffer
    event_type,     \* priv->event.type
    fields,         \* the event whose fields are in the slot
    poll,           \* where the event thread is
    accepted, sent, \* events that found the slot empty, and those sent
    startled,       \* history: a packet came before the buffers were mapped
    crossed,        \* history: head or tail came to the other over an unused slot
    gone            \* the process has ended

setupVars == <<dec_obj, mapped>>
ringVars == <<buf_q, pic, info>>
showVars == <<buf, shown>>
netVars == <<net, got, divisor, id>>
histVars == <<startled, crossed, gone>>
eventVars == <<event_type, fields, poll, accepted, sent>>
vars == <<main, setupVars, ringVars, showVars, netVars, eventVars, histVars>>

Ids == 0..(Buffers - 1)
Showing == {"advance", "show", "put"}
MainStates == {"start", "map", "info", "loop", "send", "clear", "frame", "mark"}
                  \cup Showing

Rings == [used : SUBSET Ids, free : SUBSET Ids, head : Nat, tail : Nat, max_idx : Ids]

RingTyped ==
    /\ mapped \in 0..Buffers
    /\ buf_q \in Rings
    /\ buf_q.used = {b \in Ids : 0 < b /\ b < mapped}
    /\ buf_q.free \subseteq buf_q.used
    /\ buf_q.max_idx = IF mapped = 0 THEN 0 ELSE mapped - 1
    /\ buf_q.head <= buf_q.tail + 1 /\ buf_q.tail <= MaxTail + 1
    /\ buf_q.tail <= buf_q.head + buf_q.max_idx + 1 \/ startled

PicturesTyped ==
    /\ buf \in Ids /\ divisor \in Ids /\ id \in Ids
    /\ pic \in [Ids -> 0..MaxVideo] /\ shown \in 0..MaxVideo /\ got \in 0..MaxVideo

SlotTyped ==
    /\ event_type \in 0..MaxEvents /\ fields \in 0..MaxEvents
    /\ poll \in {"idle", "fields"} /\ accepted \in 0..MaxEvents
    /\ sent \in Seq([type : 1..MaxEvents, fields : 0..MaxEvents])

StatesTyped ==
    /\ main \in MainStates /\ net \in {"recv", "skip", "decode", "sub"}
    /\ dec_obj \in BOOLEAN /\ info \in BOOLEAN /\ startled \in BOOLEAN
    /\ crossed \in BOOLEAN /\ gone \in BOOLEAN

TypeOK == StatesTyped /\ RingTyped /\ PicturesTyped /\ SlotTyped

Init ==
    /\ main = "start" /\ dec_obj = FALSE /\ mapped = 0 /\ info = FALSE
    /\ buf_q = EmptyQueue /\ buf = 0
    /\ pic = [b \in Ids |-> 0] /\ shown = 0
    /\ net = "recv" /\ got = 0 /\ divisor = 0 /\ id = 0
    /\ event_type = 0 /\ fields = 0 /\ poll = "idle" /\ accepted = 0 /\ sent = <<>>
    /\ startled = FALSE /\ crossed = FALSE /\ gone = FALSE
-----------------------------------------------------------------------------
(* client_main.  The receive thread is already there.                       *)

decodec_init == dec_obj' = TRUE

DecoderInit ==
    /\ ~gone /\ main = "start" /\ main' = "map"
    /\ decodec_init
    /\ UNCHANGED <<mapped, ringVars, showVars, netVars, eventVars, histVars>>

svc_map_fb(q, b) == SetStatus(q, b, TRUE)

MapBuffer ==
    /\ ~gone /\ main = "map"
    /\ buf_q' = svc_map_fb(buf_q, mapped)
    /\ mapped' = mapped + 1
    /\ main' = (IF mapped' = Buffers THEN "info" ELSE "map")
    /\ UNCHANGED <<dec_obj, pic, info, showVars, netVars, eventVars, histVars>>

\* decodec_get_info once a second, then the callbacks and the window.
GetInfo ==
    /\ ~gone /\ main = "info" /\ info
    /\ main' = "loop"
    /\ UNCHANGED <<setupVars, ringVars, showVars, netVars, eventVars, histVars>>
-----------------------------------------------------------------------------
(* sdl_main_loop: first the event ...                                       *)

LookAtSlot ==
    /\ ~gone /\ main = "loop"
    /\ main' = (IF event_type # 0 THEN "send" ELSE "frame")
    /\ UNCHANGED <<setupVars, ringVars, showVars, netVars, eventVars, histVars>>

\* on_event copies the slot into a packet and sends it, or ends the process.
SendEvent ==
    /\ ~gone /\ main = "send" /\ main' = "clear"
    /\ sent' = Append(sent, [type |-> event_type, fields |-> fields])
    /\ UNCHANGED <<setupVars, ringVars, showVars, netVars, event_type, fields, poll,
                   accepted, histVars>>

ClearSlot ==
    /\ ~gone /\ main = "clear" /\ main' = "frame"
    /\ event_type' = 0
    /\ UNCHANGED <<setupVars, ringVars, showVars, netVars, fields, poll, accepted, sent,
                   histVars>>

(* ... then display_on_frame.                                               *)

GetBuf ==
    /\ ~gone /\ main = "frame"
    /\ IF Empty(buf_q) THEN main' = "loop" /\ UNCHANGED <<buf_q, crossed>>
       ELSE /\ main' = "mark" /\ buf_q' = SkipHead(buf_q)
            /\ crossed' = (crossed \/ buf_q'.head >= buf_q.tail)
    /\ UNCHANGED <<setupVars, pic, info, buf, shown, netVars, eventVars, startled, gone>>

MarkBuf ==
    /\ ~gone /\ main = "mark"
    /\ IF HeadFree(buf_q) THEN /\ main' = "advance" /\ buf_q' = TakeHead(buf_q)
                               /\ buf' = Slot(buf_q, buf_q.head)
       ELSE main' = "loop" /\ UNCHANGED <<buf_q, buf>>
    /\ UNCHANGED <<setupVars, pic, info, shown, netVars, eventVars, histVars>>

AdvanceHead ==
    /\ ~gone /\ main = "advance" /\ main' = "show"
    /\ buf_q' = PassHead(buf_q)
    /\ UNCHANGED <<setupVars, pic, info, showVars, netVars, eventVars, histVars>>

\* display_put_fb and display_get_fb
Show ==
    /\ ~gone /\ main = "show" /\ main' = "put"
    /\ shown' = pic[buf]
    /\ UNCHANGED <<setupVars, ringVars, buf, netVars, eventVars, histVars>>

PutFb ==
    /\ ~gone /\ main = "put" /\ main' = "loop"
    /\ buf_q' = PutBuf(buf_q, buf) /\ buf' = 0
    /\ UNCHANGED <<setupVars, pic, info, shown, netVars, eventVars, histVars>>
-----------------------------------------------------------------------------
(* The receive thread: _on_client_pkt, on_package and svc_push_pkt.         *)

\* decodec_put_pkt passes a packet on if there is a decoder.
HasDecoder == dec_obj

RecvPkt ==
    /\ ~gone /\ net = "recv" /\ got < MaxVideo
    /\ got' = got + 1
    /\ IF HasDecoder /\ ~Full(buf_q)
       THEN /\ net' = "skip" /\ divisor' = buf_q.max_idx
            /\ startled' = (startled \/ mapped < Buffers)
       ELSE UNCHANGED <<net, divisor, startled>>
    /\ UNCHANGED <<main, setupVars, ringVars, showVars, id, eventVars, crossed, gone>>

\* One turn of the loop over unused slots, or the slot it ends with.  While
\* buffers are being mapped the compiled loop may divide by either max_idx.
GetId ==
    /\ ~gone /\ net = "skip" /\ buf_q.tail <= MaxTail
    /\ \E d \in {divisor, buf_q.max_idx} :
           LET q == [buf_q EXCEPT !.max_idx = d]
               s == Slot(q, q.tail)
           IN IF s \notin q.used
              THEN buf_q' = SubId(buf_q) /\ UNCHANGED <<net, id, crossed>>
              ELSE IF TailFree(q)
              THEN /\ net' = "decode" /\ id' = s
                   /\ crossed' = (crossed \/ Full(buf_q))
                   /\ UNCHANGED buf_q
              ELSE net' = "recv" /\ UNCHANGED <<buf_q, id, crossed>>
    /\ UNCHANGED <<main, setupVars, pic, info, showVars, got, divisor, eventVars, startled, gone>>

\* The library (external) decodes into the buffer, and has a picture or none.
Decode(ok) ==
    /\ ~gone /\ net = "decode"
    /\ IF ok THEN pic' = [pic EXCEPT ![id] = got] /\ info' = TRUE /\ net' = "sub"
             ELSE net' = "recv" /\ UNCHANGED <<pic, info>>
    /\ UNCHANGED <<main, setupVars, buf_q, showVars, got, divisor, id, eventVars, histVars>>

AdvanceTail ==
    /\ ~gone /\ net = "sub" /\ net' = "recv"
    /\ buf_q' = SubId(buf_q)
    /\ UNCHANGED <<main, setupVars, pic, info, showVars, got, divisor, id, eventVars, histVars>>
-----------------------------------------------------------------------------
(* The event thread, once there is a window.                                *)

Window == main \notin {"start", "map", "info"}

\* Mutant: an event overwrites the one before.
SlotAlways == TRUE

SlotFree == event_type = 0

\* _poll_event writes the type first ...
PollEvent ==
    /\ ~gone /\ Window /\ poll = "idle" /\ accepted < MaxEvents /\ SlotFree
    /\ accepted' = accepted + 1
    /\ event_type' = accepted' /\ poll' = "fields"
    /\ UNCHANGED <<main, setupVars, ringVars, showVars, netVars, fields, sent, histVars>>

\* ... and then the key and the position.
FillSlot ==
    /\ ~gone /\ poll = "fields" /\ poll' = "idle"
    /\ fields' = accepted
    /\ UNCHANGED <<main, setupVars, ringVars, showVars, netVars, event_type, accepted,
                   sent, histVars>>

EventThread == PollEvent \/ FillSlot

\* SDL_QUIT, a server that hangs up, or an event that cannot be sent.
Exit ==
    /\ ~gone /\ gone' = TRUE
    /\ UNCHANGED <<main, setupVars, ringVars, showVars, netVars, eventVars, startled, crossed>>
-----------------------------------------------------------------------------
Main ==
    \/ DecoderInit \/ MapBuffer \/ GetInfo \/ LookAtSlot \/ SendEvent \/ ClearSlot
    \/ GetBuf \/ MarkBuf \/ AdvanceHead \/ Show \/ PutFb
CanMain == ~gone /\ (main = "info" => info)

Receive == GetId \/ (\E ok \in BOOLEAN : Decode(ok)) \/ AdvanceTail
CanReceive ==
    ~gone /\ (net \in {"decode", "sub"} \/ (net = "skip" /\ buf_q.tail <= MaxTail))

Next == Main \/ RecvPkt \/ Receive \/ EventThread \/ Exit

Spec == Init /\ [][Next]_vars

\* The three threads run; packets and events need not come.  Each line is weak
\* fairness, with the enabling condition written out.
FairSpec ==
    /\ Spec
    /\ []<>~CanMain \/ []<><<Main>>_vars
    /\ []<>~CanReceive \/ []<><<Receive>>_vars
    /\ []<>(poll = "idle" \/ gone) \/ []<><<FillSlot>>_vars
-----------------------------------------------------------------------------
(* Properties.                                                              *)

\* A buffer on its way to the display is never written by the decoder, but for
\* the first one after the unused slot: looking for it, the decoder goes on
\* after its test for room, and the display after its test for a picture.
FramesOwned ==
    net = "decode" /\ main \in Showing /\ id = buf
        => Slot(buf_q, buf_q.tail - 1) \notin buf_q.used \/ startled

\* Pictures reach the display in the order of the stream, with the same two
\* exceptions.
PicturesInOrder == [][shown' # shown => shown' > shown \/ crossed \/ startled]_vars

\* Every event that found the slot empty is sent once and in its turn, with
\* its own fields or, when it is sent too early, those of the one before.
EventsWhole ==
    \A i \in DOMAIN sent : sent[i].type = i /\ sent[i].fields \in {i - 1, i}

\* Every event in the slot is sent, and every picture decoded reaches the
\* display unless the two have met over the unused slot, or a packet came
\* while the buffers were mapped and sent the tail away.
EventsSent == (Len(sent) < accepted) ~> (Len(sent) = accepted \/ gone)
PicturesShown ==
    (\E b \in Ids : pic[b] > shown)
        ~> ((\A b \in Ids : pic[b] <= shown) \/ crossed \/ startled \/ gone)
Served == EventsSent /\ PicturesShown
=============================================================================
