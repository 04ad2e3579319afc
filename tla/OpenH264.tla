------------------------------ MODULE OpenH264 ------------------------------
(***************************************************************************)
(* The OpenH264 encoder (codec/openh264_enc.c) and the queue of buffer ids *)
(* in it (int_queue of common/queue.c), under its two drivers:             *)
(*   - the server started with -e openh264_encodec: on_enc_package hands   *)
(*     each layer to the broadcast thread, clients join and force key      *)
(*     pictures, settings restart it; nobody calls encodec_get_fb;         *)
(*   - server_tests/encodec_test.c, which takes every buffer back.         *)
(* The encoder works in the main thread: no buffer is ever with another.   *)
(***************************************************************************)
EXTENDS Integers, Sequences, FiniteSets

CONSTANTS
    Clients,        \* clients that may join
    BUFFERS,        \* buffers of the pool, 5 in the code
    QUEUE_SIZE,     \* slots of the queue of ids, 24 in the code
    FILE_LAYERS,    \* layers the test writes before it ends, 200 in the code
    MaxPictures,    \* bound: pictures captured
    MaxRestarts     \* bound: changes of the settings

ASSUME SizesAssumption ==
    /\ IsFiniteSet(Clients)
    /\ BUFFERS \in Nat \ {0} /\ QUEUE_SIZE \in Nat /\ BUFFERS < QUEUE_SIZE
    /\ FILE_LAYERS \in Nat /\ MaxPictures \in Nat /\ MaxRestarts \in Nat

VARIABLES
    driver,                     \* "server" or "test"
    mpc, mbuf,                  \* the main thread and the buffer in its hand
    free,                       \* buffers of the pool marked free
    enc_obj,                    \* the encoder: "null", "live" or "freed"
    ready, intra,               \* it has its settings; its next picture is a key
    layers,                     \* layers of the last picture not handed over
    buffer_queue, buffer_head, buffer_tail,
    slot, bpc,                  \* enc_data, NoLayer when enc_data_len = 0
    quit, restarts,
    frames,                     \* layers the test has written
    npc,                        \* where each client's connect handler is
    pictures, sent,             \* history: last picture encoded, last one sent
    since,                      \* history: last picture when the handler ended
    sees                        \* history: what a decoder of the client has

queueVars == <<buffer_queue, buffer_head, buffer_tail>>
encVars == <<enc_obj, ready, intra>>
slotVars == <<slot, bpc>>
clientVars == <<npc, since, sees, sent>>
vars == <<driver, mpc, mbuf, free, encVars, layers, queueVars, slotVars, quit, restarts,
          frames, pictures, clientVars>>

Buffers == 0..BUFFERS - 1
NoBuf == -1
NoLayer == [n |-> 0, kind |-> "none"]
Layers == [n : Nat, kind : {"header", "key", "delta"}]

\* What EncodeFrame yields: the headers are a layer of their own.
LayersOf(n, type) ==
    LET Layer(kind) == [n |-> n, kind |-> kind]
    IN  CASE type = "key"   -> <<Layer("header"), Layer("key")>>
          [] type = "delta" -> <<Layer("delta")>>
          [] type = "skip"  -> <<>>

Ended == {"exit_get_fb", "exit_put_fb", "exit_timeout", "exit_done", "fault"}

Init ==
    /\ driver \in {"server", "test"}
    /\ mpc = "init" /\ mbuf = NoBuf /\ free = {}
    /\ enc_obj = "null" /\ ready = FALSE /\ intra = FALSE /\ layers = <<>>
    /\ buffer_queue = [i \in 0..QUEUE_SIZE - 1 |-> 0] /\ buffer_head = 0 /\ buffer_tail = 0
    /\ slot = NoLayer /\ bpc = "poll"
    /\ quit = FALSE /\ restarts = 0 /\ frames = 0 /\ pictures = 0 /\ sent = 0
    /\ npc = [c \in Clients |-> "off"]
    /\ since = [c \in Clients |-> 0] /\ sees = [c \in Clients |-> "nothing"]

Goto(from, to) == mpc = from /\ mpc' = to
-----------------------------------------------------------------------------
(* The queue of ids.                                                        *)

\* The test admits one id more than there are slots.
HasRoom == buffer_head <= buffer_tail + QUEUE_SIZE

PutInt(id) ==
    /\ HasRoom
    /\ buffer_queue' = [buffer_queue EXCEPT ![buffer_head % QUEUE_SIZE] = id]
    /\ buffer_head' = buffer_head + 1
    /\ UNCHANGED buffer_tail

\* Mutant: the tail stays.
GetIntKeeps(id) ==
    /\ buffer_tail < buffer_head
    /\ id = buffer_queue[buffer_tail % QUEUE_SIZE]
    /\ UNCHANGED queueVars

GetInt(id) ==
    /\ buffer_tail < buffer_head
    /\ id = buffer_queue[buffer_tail % QUEUE_SIZE]
    /\ buffer_tail' = buffer_tail + 1
    /\ UNCHANGED <<buffer_queue, buffer_head>>

Queued == {buffer_queue[i % QUEUE_SIZE] : i \in buffer_tail..buffer_head - 1}
-----------------------------------------------------------------------------
(* Main thread: set-up.                                                     *)

encodec_init == enc_obj' = "live" /\ ready' = FALSE /\ intra' = FALSE

\* openh264_enc_init: a new encoder with an empty queue.
InitEnc ==
    /\ Goto("init", "set_info")
    /\ encodec_init
    /\ buffer_head' = 0 /\ buffer_tail' = 0
    /\ buffer_queue' = [i \in 0..QUEUE_SIZE - 1 |-> 0]
    /\ free' = Buffers /\ quit' = FALSE
    /\ UNCHANGED <<driver, mbuf, layers, slotVars, restarts, frames, pictures, clientVars>>

\* openh264_enc_set_info: the first picture will be a key.
SetInfo ==
    /\ Goto("set_info", "loop")
    /\ ready' = TRUE /\ intra' = TRUE
    /\ UNCHANGED <<driver, mbuf, free, enc_obj, layers, queueVars, slotVars, quit, restarts,
                   frames, pictures, clientVars>>

\* A request that calls capture_quit, whenever there is a capture device.
Quit ==
    /\ driver = "server" /\ enc_obj = "live" /\ restarts < MaxRestarts
    /\ quit' = TRUE /\ restarts' = restarts + 1
    /\ UNCHANGED <<driver, mpc, mbuf, free, encVars, layers, queueVars, slotVars, frames,
                   pictures, clientVars>>
-----------------------------------------------------------------------------
(* Main thread: capture_on_frame.                                           *)

Connected == \E c \in Clients : npc[c] # "off"

\* get_fb finds the first free buffer; without one the process ends.
GetFb ==
    /\ mpc = "loop" /\ ~quit
    /\ driver = "server" => Connected
    /\ pictures < MaxPictures
    /\ IF free = {} THEN mpc' = "exit_get_fb" /\ UNCHANGED <<mbuf, free>>
                    ELSE /\ mpc' = "encode"
                         /\ mbuf' \in {b \in free : \A f \in free : b <= f}
                         /\ free' = free \ {mbuf'}
    /\ UNCHANGED <<driver, encVars, layers, queueVars, slotVars, quit, restarts, frames,
                   pictures, clientVars>>

\* EncodeFrame
Encode ==
    /\ Goto("encode", "emit")
    /\ \E type \in {"key"} \cup IF intra THEN {} ELSE {"delta", "skip"} :
          layers' = LayersOf(pictures + 1, type)
    /\ pictures' = pictures + 1 /\ intra' = FALSE
    /\ UNCHANGED <<driver, mbuf, free, enc_obj, ready, queueVars, slotVars, quit, restarts,
                   frames, clientVars>>

EncodeFail ==
    /\ Goto("encode", "exit_put_fb")
    /\ UNCHANGED <<driver, mbuf, free, encVars, layers, queueVars, slotVars, quit, restarts,
                   frames, pictures, clientVars>>

\* Mutant: the layer overwrites the one that is not sent yet.
EmitOver ==
    /\ mpc = "emit" /\ layers # <<>> /\ driver = "server"
    /\ slot' = Head(layers) /\ layers' = Tail(layers)
    /\ UNCHANGED <<driver, mpc, mbuf, free, encVars, queueVars, bpc, quit, restarts, frames,
                   pictures, clientVars>>

\* on_enc_package of the server waits until the layer before has been sent.
Emit ==
    /\ mpc = "emit" /\ layers # <<>> /\ driver = "server"
    /\ slot = NoLayer
    /\ slot' = Head(layers) /\ layers' = Tail(layers)
    /\ UNCHANGED <<driver, mpc, mbuf, free, encVars, queueVars, bpc, quit, restarts, frames,
                   pictures, clientVars>>

\* on_enc_package of the test writes it to a file, and ends in the middle of
\* a picture when it has enough.
EmitFile ==
    /\ mpc = "emit" /\ layers # <<>> /\ driver = "test"
    /\ layers' = Tail(layers) /\ frames' = frames + 1
    /\ mpc' = IF frames' > FILE_LAYERS THEN "exit_done" ELSE mpc
    /\ UNCHANGED <<driver, mbuf, free, encVars, queueVars, slotVars, quit, restarts,
                   pictures, clientVars>>

\* queue_put_int is tried again and again while it has no room.
Queue ==
    /\ mpc = "emit" /\ layers = <<>>
    /\ PutInt(mbuf) /\ mbuf' = NoBuf
    /\ mpc' = IF driver = "test" THEN "get" ELSE "loop"
    /\ UNCHANGED <<driver, free, encVars, layers, slotVars, quit, restarts, frames, pictures,
                   clientVars>>

\* encodec_get_fb, by the test only.
GetEncFb ==
    /\ Goto("get", "put")
    /\ \E id \in Buffers : GetInt(id) /\ mbuf' = id
    /\ UNCHANGED <<driver, free, encVars, layers, slotVars, quit, restarts, frames, pictures,
                   clientVars>>

\* capture_put_fb
PutFb ==
    /\ Goto("put", "loop")
    /\ free' = free \cup {mbuf} /\ mbuf' = NoBuf
    /\ UNCHANGED <<driver, encVars, layers, queueVars, slotVars, quit, restarts, frames,
                   pictures, clientVars>>
-----------------------------------------------------------------------------
(* Main thread: tear-down.                                                  *)

\* Every buffer must come back within the time-out: no encodec_get_fb will
\* bring one that was encoded.
Drain ==
    /\ mpc = "loop" /\ quit
    /\ IF free = Buffers THEN mpc' = "release" /\ free' = {}
                         ELSE mpc' = "exit_timeout" /\ UNCHANGED free
    /\ UNCHANGED <<driver, mbuf, encVars, layers, queueVars, slotVars, quit, restarts, frames,
                   pictures, clientVars>>

\* openh264_enc_release
ReleaseEnc ==
    /\ Goto("release", "null")
    /\ enc_obj' = "freed"
    /\ UNCHANGED <<driver, mbuf, free, ready, intra, layers, queueVars, slotVars, quit,
                   restarts, frames, pictures, clientVars>>

NullEnc ==
    /\ Goto("null", "init")
    /\ enc_obj' = "null"
    /\ UNCHANGED <<driver, mbuf, free, ready, intra, layers, queueVars, slotVars, quit,
                   restarts, frames, pictures, clientVars>>
-----------------------------------------------------------------------------
(* The broadcast thread.                                                    *)

\* What a decoder has after a layer: it starts with headers and a key.
Decodes(had, kind) ==
    CASE had = "key"                       -> "key"
      [] had = "header" /\ kind = "key"    -> "key"
      [] had # "key" /\ kind = "header"    -> "header"
      [] OTHER                             -> "nothing"

Bradcast ==
    /\ bpc = "poll" /\ slot # NoLayer /\ bpc' = "reset"
    /\ sees' = [c \in Clients |-> IF npc[c] = "off" THEN sees[c]
                                                     ELSE Decodes(sees[c], slot.kind)]
    /\ sent' = IF slot.kind = "header" THEN sent ELSE slot.n
    /\ UNCHANGED <<driver, mpc, mbuf, free, encVars, layers, queueVars, slot, quit, restarts,
                   frames, pictures, npc, since>>

BradcastReset ==
    /\ bpc = "reset" /\ bpc' = "poll"
    /\ slot' = NoLayer
    /\ UNCHANGED <<driver, mpc, mbuf, free, encVars, layers, queueVars, quit, restarts,
                   frames, pictures, clientVars>>
-----------------------------------------------------------------------------
(* The network threads: a client joins.                                     *)

\* It is in the table from here on; then on_client_connect is called ...
Connect(c) ==
    /\ driver = "server" /\ npc[c] = "off"
    /\ npc' = [npc EXCEPT ![c] = "test"]
    /\ UNCHANGED <<driver, mpc, mbuf, free, encVars, layers, queueVars, slotVars, quit,
                   restarts, frames, pictures, since, sees, sent>>

HandlerEnds(c) ==
    /\ npc' = [npc EXCEPT ![c] = "done"] /\ since' = [since EXCEPT ![c] = pictures]
    /\ UNCHANGED <<sees, sent>>

\* ... which tests enc_obj without a lock ...
TestEnc(c) ==
    /\ npc[c] = "test"
    /\ IF enc_obj = "null" THEN HandlerEnds(c)
       ELSE npc' = [npc EXCEPT ![c] = "force"] /\ UNCHANGED <<since, sees, sent>>
    /\ UNCHANGED <<driver, mpc, mbuf, free, encVars, layers, queueVars, slotVars, quit,
                   restarts, frames, pictures>>

\* Mutant: the encoder is not asked.
ForceLost(c) ==
    /\ npc[c] = "force"
    /\ HandlerEnds(c) /\ UNCHANGED <<mpc, intra>>
    /\ UNCHANGED <<driver, mbuf, free, enc_obj, ready, layers, queueVars, slotVars, quit,
                   restarts, frames, pictures>>

\* ... and uses it: ForceIntraFrame, which refuses before the settings are
\* there, or memory that is freed.
ForceIFrame(c) ==
    /\ npc[c] = "force"
    /\ \/ enc_obj = "live"  /\ HandlerEnds(c) /\ intra' = (intra \/ ready) /\ UNCHANGED mpc
       \/ enc_obj = "null"  /\ HandlerEnds(c) /\ UNCHANGED <<intra, mpc>>
       \/ enc_obj = "freed" /\ mpc' = "fault" /\ UNCHANGED <<intra, clientVars>>
    /\ UNCHANGED <<driver, mbuf, free, enc_obj, ready, layers, queueVars, slotVars, quit,
                   restarts, frames, pictures>>
-----------------------------------------------------------------------------
Main ==
    \/ InitEnc \/ SetInfo \/ GetFb \/ Encode \/ EncodeFail \/ Emit \/ EmitFile \/ Queue
    \/ GetEncFb \/ PutFb \/ Drain \/ ReleaseEnc \/ NullEnc

Next ==
    /\ mpc \notin Ended
    /\ \/ Main \/ Quit \/ Bradcast \/ BradcastReset
       \/ \E c \in Clients : Connect(c) \/ TestEnc(c) \/ ForceIFrame(c)

Spec == Init /\ [][Next]_vars
-----------------------------------------------------------------------------
(* Properties.                                                              *)

Ranges ==
    /\ driver \in {"server", "test"}
    /\ mpc \in Ended \cup {"init", "set_info", "loop", "encode", "emit", "get", "put",
                           "release", "null"}
    /\ mbuf \in Buffers \cup {NoBuf} /\ free \subseteq Buffers
    /\ enc_obj \in {"null", "live", "freed"} /\ ready \in BOOLEAN /\ intra \in BOOLEAN
    /\ layers \in Seq(Layers) /\ slot \in Layers \cup {NoLayer} /\ bpc \in {"poll", "reset"}
    /\ buffer_queue \in [0..QUEUE_SIZE - 1 -> Buffers]
    /\ buffer_head \in Nat /\ buffer_tail \in Nat /\ buffer_head - buffer_tail \in 0..BUFFERS
    /\ npc \in [Clients -> {"off", "test", "force", "done"}]
    /\ pictures \in Nat /\ since \in [Clients -> Nat] /\ sent \in Nat
    /\ sees \in [Clients -> {"nothing", "header", "key"}]

\* Each buffer is free, in the main thread's hand or once in the queue.
BufferPlaces ==
    /\ mbuf \notin free \cup Queued /\ free \cap Queued = {}
    /\ Cardinality(Queued) = buffer_head - buffer_tail
    /\ free \cup Queued \cup ({mbuf} \ {NoBuf}) = Buffers

\* The values have their types, and while there is an encoder no buffer is
\* lost, queued twice or handed out twice, by the driver that takes buffers
\* back at once and by the one that never does.  Only the latter runs out of
\* them, or waits in vain for them when the settings change.
TypeOK ==
    /\ Ranges
    /\ enc_obj = "live" /\ mpc # "release" => BufferPlaces
    /\ mpc = "exit_get_fb" => driver = "server" /\ Queued = Buffers
    /\ mpc = "exit_timeout" => Queued # {}

\* A client that joined is sent the headers and the key picture its decoder
\* needs, from the first picture encoded after its connect handler ended:
\* whether the handler reached the encoder, came before its settings, or found
\* none because the settings changed.
JoinerDecodes ==
    \A c \in Clients : npc[c] = "done" /\ sent > since[c] => sees[c] = "key"
=============================================================================
