------------------------------- MODULE Pipeline -------------------------------
(***************************************************************************)
(* The video pipeline of the server: the main thread (server_start with    *)
(* the xcb capture loop), the two threads of ffmpeg_encodec (conversion    *)
(* and encoding), the broadcast thread, and the network threads whose      *)
(* callbacks change settings, force key frames and restart the pipeline.   *)
(* They share a pool of frame buffers, one slot towards the converter      *)
(* (cur_buf_id), one AVFrame towards the encoder (conv_over), one slot     *)
(* towards the broadcaster (enc_data) and the mutex net_cb_lock.           *)
(***************************************************************************)
EXTENDS Integers, FiniteSets

CONSTANTS
  MAX_BUFFER_COUNT, (* slots of server_pool                                *)
  BUFFERS,          (* buffers server_start allocates (5 in the code)      *)
  TIMEOUT_MS,       (* polls get_fb_block makes before it gives up         *)
  MIN_BIT_RATE,
  MAX_FRAME_RATE,   (* 240 in xext_set_info                                *)
  NetThreads,       (* threads that run the network callbacks              *)
  TcpThread,        (* the one of them that accepts TCP connections        *)
  BitRates,         (* values SET_BIT_RATE may carry                       *)
  FrameRates,       (* values SET_FRAME_RATE may carry                     *)
  SetInfoMayFail,   (* encodec_set_info may fail for any settings          *)
  EncMayFail,       (* avcodec_send_frame, _receive_packet may fail        *)
  MaxFrames,        (* bound: frames captured                              *)
  MaxRequests,      (* bound: packets and connections handled              *)
  MaxClients        (* bound: TCP clients connected at once                *)

ASSUME PoolAssumption ==
  /\ BUFFERS \in Nat /\ MAX_BUFFER_COUNT \in Nat
  /\ 2 <= BUFFERS /\ BUFFERS <= MAX_BUFFER_COUNT
  /\ TIMEOUT_MS \in Nat

ASSUME SettingsAssumption ==
  /\ MIN_BIT_RATE \in Nat /\ MAX_FRAME_RATE \in Nat
  /\ BitRates \subseteq Nat /\ FrameRates \subseteq Nat
  /\ SetInfoMayFail \in BOOLEAN /\ EncMayFail \in BOOLEAN

ASSUME BoundsAssumption ==
  /\ TcpThread \in NetThreads
  /\ "none" \notin NetThreads /\ "main" \notin NetThreads
  /\ MaxFrames \in Nat /\ MaxRequests \in Nat /\ MaxClients \in Nat

VARIABLES
  \* main thread
  mpc, mbuf, idx, polls,
  \* objects of server_start and the lock of the network callbacks
  cap_obj, enc_obj, in_obj, net_cb_lock,
  \* server_pool and the capture device
  buffers, ximg, img, quit, cap_rate,
  \* ffmpeg_enc_data, conversion thread, encoding thread
  exit, ctx, cur_buf_id, force_key_frame, av_frame, conv_over,
  vpc, vbuf, epc, enc_in, pending,
  \* hand-over to the broadcast thread
  enc_data, enc_data_len, bpc,
  \* network threads and settings
  npc, req, clients, bit_rate, frame_rate,
  \* history: numbers of frames and packets, requests, an unlock without lock
  captured, produced, delivered, requests, unlocked

mainVars  == <<mpc, mbuf, idx, polls>>
objVars   == <<cap_obj, enc_obj, in_obj, net_cb_lock>>
poolVars  == <<buffers, ximg, img>>
capVars   == <<quit, cap_rate>>
convVars  == <<vpc, vbuf>>
frameVars == <<force_key_frame, av_frame, conv_over>>
encVars   == <<epc, enc_in, pending>>
slotVars  == <<enc_data, enc_data_len, bpc, produced, delivered>>
netVars   == <<npc, req, clients, bit_rate, frame_rate, requests>>

vars == <<mainVars, objVars, poolVars, capVars, exit, ctx, cur_buf_id,
          convVars, frameVars, encVars, slotVars, netVars, captured, unlocked>>

-------------------------------------------------------------------------------
Slots  == 0 .. MAX_BUFFER_COUNT - 1
NoBuf  == -1
NoCtx  == [bit |-> 0, rate |-> 0, ready |-> FALSE]
Object == {"null", "live", "freed"}

Dead   == {"exit_get_fb", "exit_put_fb", "exit_timeout", "exit_enc", "fault"}
Alive  == mpc \notin Dead

NoRequest == [kind |-> "none", value |-> 0]
Requests  == [kind : {"bit_rate"}, value : BitRates]
             \cup [kind : {"frame_rate"}, value : FrameRates]
             \cup [kind : {"input", "query"}, value : {0}]

\* What the AVFrame carries: the number of the picture in it, and whether
\* pict_type asks for a key frame.
Frame   == [img : Nat, key : BOOLEAN]
NoFrame == [img |-> 0, key |-> FALSE]

\* Buffers that get_fb may return: allocated and marked free.  The scan takes
\* no lock while the converter frees buffers behind it, so any of them may be
\* the one it finds.
FreeBuffers == {b \in Slots : buffers[b] = "free"}

Lower(a, b) == IF a < b THEN a ELSE b

MainPC == {"init_cap", "init_enc", "init_in", "alloc", "set_cap", "set_enc",
           "loop", "get_fb", "grab", "put_fb", "pace", "lock", "drain",
           "unmap", "rel_in", "rel_enc", "join", "rel_cap", "null", "unlock"}
          \cup Dead
ConvPC == {"off", "idle", "type", "clear", "scaling", "wait", "put",
           "clear_cur"}
EncPC  == {"off", "idle", "recv", "emit", "copy"}
NetPC  == {"idle", "lock", "cs", "clamp", "quit", "unlock", "connect", "force"}

-------------------------------------------------------------------------------
Init ==
  /\ mpc = "init_cap" /\ mbuf = NoBuf /\ idx = 0 /\ polls = 0
  /\ cap_obj = "null" /\ enc_obj = "null" /\ in_obj = "null"
  /\ net_cb_lock = "none"
  /\ buffers = [b \in Slots |-> "null"]
  /\ ximg = [b \in Slots |-> FALSE]
  /\ img = [b \in Slots |-> 0]
  /\ quit = FALSE /\ cap_rate = 0
  /\ exit = FALSE /\ ctx = NoCtx /\ cur_buf_id = NoBuf
  /\ force_key_frame = FALSE /\ av_frame = NoFrame /\ conv_over = FALSE
  /\ vpc = "off" /\ vbuf = NoBuf
  /\ epc = "off" /\ enc_in = NoFrame /\ pending = 0
  /\ enc_data = 0 /\ enc_data_len = FALSE /\ bpc = "poll"
  /\ npc = [t \in NetThreads |-> "idle"]
  /\ req = [t \in NetThreads |-> NoRequest]
  /\ clients = 0 /\ bit_rate = MIN_BIT_RATE /\ frame_rate = 58
  /\ captured = 0 /\ produced = 0 /\ delivered = 0 /\ requests = 0
  /\ unlocked = FALSE

-------------------------------------------------------------------------------
(***************************************************************************)
(* Main thread, set-up part of server_start.                               *)
(***************************************************************************)
MainGoto(from, to) == mpc = from /\ mpc' = to

MainInitCap ==
  /\ MainGoto("init_cap", "init_enc")
  /\ cap_obj' = "live" /\ quit' = FALSE /\ cap_rate' = 0
  /\ UNCHANGED <<mbuf, idx, polls, enc_obj, in_obj, net_cb_lock, poolVars,
                 exit, ctx, cur_buf_id, convVars, frameVars, encVars,
                 slotVars, netVars, captured, unlocked>>

\* Mutant: conv_over survives the restart.
MainInitEncKeepsFrame ==
  /\ MainGoto("init_enc", "init_in")
  /\ enc_obj' = "live"
  /\ exit' = FALSE /\ ctx' = NoCtx /\ cur_buf_id' = NoBuf
  /\ force_key_frame' = FALSE
  /\ vpc' = "idle" /\ epc' = "idle" /\ pending' = 0
  /\ UNCHANGED <<mbuf, idx, polls, cap_obj, in_obj, net_cb_lock, poolVars,
                 capVars, av_frame, conv_over, vbuf, enc_in, slotVars, netVars, captured, unlocked>>

\* encodec_init starts the conversion and the encoding thread.
MainInitEnc ==
  /\ MainGoto("init_enc", "init_in")
  /\ enc_obj' = "live"
  /\ exit' = FALSE /\ ctx' = NoCtx /\ cur_buf_id' = NoBuf
  /\ force_key_frame' = FALSE /\ conv_over' = FALSE
  /\ vpc' = "idle" /\ epc' = "idle" /\ pending' = 0
  /\ UNCHANGED <<mbuf, idx, polls, cap_obj, in_obj, net_cb_lock, poolVars,
                 capVars, av_frame, vbuf, enc_in, slotVars, netVars, captured, unlocked>>

MainInitInput ==
  /\ MainGoto("init_in", "alloc")
  /\ in_obj' = "live"
  /\ idx' = 0
  /\ UNCHANGED <<mbuf, polls, cap_obj, enc_obj, net_cb_lock, poolVars, capVars,
                 exit, ctx, cur_buf_id, convVars, frameVars, encVars, slotVars,
                 netVars, captured, unlocked>>

\* alloc_buffer takes the first empty slot, capture_map_fb attaches an image.
MainAlloc ==
  /\ mpc = "alloc"
  /\ IF idx < BUFFERS
       THEN \E b \in Slots :
              /\ buffers[b] = "null" /\ ~ximg[b]
              /\ \A c \in Slots : c < b => buffers[c] # "null"
              /\ buffers' = [buffers EXCEPT ![b] = "free"]
              /\ ximg' = [ximg EXCEPT ![b] = TRUE]
              /\ idx' = idx + 1
              /\ UNCHANGED mpc
       ELSE mpc' = "set_cap" /\ UNCHANGED <<buffers, ximg, idx>>
  /\ UNCHANGED <<mbuf, polls, objVars, img, capVars, exit, ctx, cur_buf_id,
                 convVars, frameVars, encVars, slotVars, netVars, captured,
                 unlocked>>

MainSetCap ==
  /\ MainGoto("set_cap", "set_enc")
  /\ cap_rate' = Lower(frame_rate, MAX_FRAME_RATE)
  /\ UNCHANGED <<mbuf, idx, polls, objVars, poolVars, quit, exit, ctx,
                 cur_buf_id, convVars, frameVars, encVars, slotVars, netVars,
                 captured, unlocked>>

\* Mutant: quit is reset after the settings were applied.
MainSetEncResetsQuit ==
  /\ MainGoto("set_enc", "loop")
  /\ ctx' = [bit |-> bit_rate, rate |-> frame_rate, ready |-> TRUE]
  /\ av_frame' = NoFrame /\ quit' = FALSE
  /\ UNCHANGED <<mbuf, idx, polls, objVars, poolVars, cap_rate, exit,
                 cur_buf_id, convVars, force_key_frame, conv_over, encVars,
                 slotVars, netVars, captured, unlocked>>

MainSetEnc ==
  /\ MainGoto("set_enc", "loop")
  /\ ctx' = [bit |-> bit_rate, rate |-> frame_rate, ready |-> TRUE]
  /\ av_frame' = NoFrame
  /\ UNCHANGED <<mbuf, idx, polls, objVars, poolVars, capVars, exit,
                 cur_buf_id, convVars, force_key_frame, conv_over, encVars,
                 slotVars, netVars, captured, unlocked>>

\* encodec_set_info fails (avcodec_open2 refuses a time base of 1/0, or any
\* other error): goto out1 enters the tear-down WITHOUT net_cb_lock.
MainSetEncFail ==
  /\ SetInfoMayFail \/ frame_rate = 0
  /\ MainGoto("set_enc", "drain")
  /\ idx' = 0 /\ polls' = 0
  /\ unlocked' = TRUE
  /\ UNCHANGED <<mbuf, objVars, poolVars, capVars, exit, ctx, cur_buf_id,
                 convVars, frameVars, encVars, slotVars, netVars, captured>>

-------------------------------------------------------------------------------
(***************************************************************************)
(* Main thread, xcb_main_loop and capture_on_frame.                        *)
(***************************************************************************)
\* while(!quit) on_frame: without clients on_frame only sleeps.  Beyond the
\* bound MaxFrames no client is taken to be connected.
MainLoop ==
  /\ mpc = "loop"
  /\ \/ quit /\ mpc' = "lock"
     \/ ~quit /\ clients > 0 /\ captured < MaxFrames /\ mpc' = "get_fb"
     \/ ~quit /\ (clients = 0 \/ captured = MaxFrames) /\ mpc' = "pace"
  /\ UNCHANGED <<mbuf, idx, polls, objVars, poolVars, capVars, exit, ctx,
                 cur_buf_id, convVars, frameVars, encVars, slotVars, netVars,
                 captured, unlocked>>

MainGetFb ==
  /\ mpc = "get_fb"
  /\ \/ \E b \in FreeBuffers :
          /\ buffers' = [buffers EXCEPT ![b] = "busy"]
          /\ mbuf' = b
          /\ mpc' = "grab"
     \/ FreeBuffers = {} /\ mpc' = "exit_get_fb" /\ UNCHANGED <<buffers, mbuf>>
  /\ UNCHANGED <<idx, polls, objVars, ximg, img, capVars, exit, ctx,
                 cur_buf_id, convVars, frameVars, encVars, slotVars, netVars,
                 captured, unlocked>>

\* XShmGetImage fills the buffer with the next picture of the screen.
MainGrab ==
  /\ MainGoto("grab", "put_fb")
  /\ captured' = captured + 1
  /\ img' = [img EXCEPT ![mbuf] = captured + 1]
  /\ UNCHANGED <<mbuf, idx, polls, objVars, buffers, ximg, capVars, exit, ctx,
                 cur_buf_id, convVars, frameVars, encVars, slotVars, netVars,
                 unlocked>>

\* Mutant: the slot is overwritten.
MainPutFbNoWait ==
  /\ MainGoto("put_fb", "pace")
  /\ cur_buf_id' = mbuf
  /\ mbuf' = NoBuf
  /\ UNCHANGED <<idx, polls, objVars, poolVars, capVars, exit, ctx, convVars,
                 frameVars, encVars, slotVars, netVars, captured, unlocked>>

\* ffmpeg_frame_enc spins until the converter has cleared cur_buf_id.
MainPutFb ==
  /\ MainGoto("put_fb", "pace")
  /\ cur_buf_id = NoBuf
  /\ cur_buf_id' = mbuf
  /\ mbuf' = NoBuf
  /\ UNCHANGED <<idx, polls, objVars, poolVars, capVars, exit, ctx, convVars,
                 frameVars, encVars, slotVars, netVars, captured, unlocked>>

\* 1000000 / frame_rate: an integer division, fatal for a rate of 0.
MainPace ==
  /\ mpc = "pace"
  /\ mpc' = IF cap_rate = 0 THEN "fault" ELSE "loop"
  /\ UNCHANGED <<mbuf, idx, polls, objVars, poolVars, capVars, exit, ctx,
                 cur_buf_id, convVars, frameVars, encVars, slotVars, netVars,
                 captured, unlocked>>

-------------------------------------------------------------------------------
(***************************************************************************)
(* Main thread, tear-down part of server_start.                            *)
(***************************************************************************)
\* Mutant: the tear-down takes no lock.
MainLockSkips ==
  /\ MainGoto("lock", "drain")
  /\ UNCHANGED net_cb_lock
  /\ idx' = 0 /\ polls' = 0
  /\ UNCHANGED <<mbuf, cap_obj, enc_obj, in_obj, poolVars, capVars, exit, ctx,
                 cur_buf_id, convVars, frameVars, encVars, slotVars, netVars,
                 captured, unlocked>>

MainLock ==
  /\ MainGoto("lock", "drain")
  /\ net_cb_lock = "none" /\ net_cb_lock' = "main"
  /\ idx' = 0 /\ polls' = 0
  /\ UNCHANGED <<mbuf, cap_obj, enc_obj, in_obj, poolVars, capVars, exit, ctx,
                 cur_buf_id, convVars, frameVars, encVars, slotVars, netVars,
                 captured, unlocked>>

\* Mutant: one poll too many.
MainDrainLate ==
  /\ mpc = "drain"
  /\ \/ idx = BUFFERS /\ mpc' = "rel_in" /\ UNCHANGED <<buffers, mbuf, polls>>
     \/ idx < BUFFERS /\ \E b \in FreeBuffers :
          /\ buffers' = [buffers EXCEPT ![b] = "busy"]
          /\ mbuf' = b
          /\ polls' = 0
          /\ mpc' = "unmap"
     \/ /\ idx < BUFFERS /\ FreeBuffers = {}
        /\ IF polls > TIMEOUT_MS + 1
             THEN mpc' = "exit_timeout" /\ UNCHANGED polls
             ELSE polls' = polls + 1 /\ UNCHANGED mpc
        /\ UNCHANGED <<buffers, mbuf>>
  /\ UNCHANGED <<idx, objVars, ximg, img, capVars, exit, ctx, cur_buf_id,
                 convVars, frameVars, encVars, slotVars, netVars, captured,
                 unlocked>>

\* Mutant: the last buffer is not drained.
MainDrainShort ==
  /\ mpc = "drain"
  /\ \/ idx = BUFFERS - 1 /\ mpc' = "rel_in" /\ UNCHANGED <<buffers, mbuf, polls>>
     \/ idx < BUFFERS /\ \E b \in FreeBuffers :
          /\ buffers' = [buffers EXCEPT ![b] = "busy"]
          /\ mbuf' = b
          /\ polls' = 0
          /\ mpc' = "unmap"
     \/ /\ idx < BUFFERS /\ FreeBuffers = {}
        /\ IF polls > TIMEOUT_MS
             THEN mpc' = "exit_timeout" /\ UNCHANGED polls
             ELSE polls' = polls + 1 /\ UNCHANGED mpc
        /\ UNCHANGED <<buffers, mbuf>>
  /\ UNCHANGED <<idx, objVars, ximg, img, capVars, exit, ctx, cur_buf_id,
                 convVars, frameVars, encVars, slotVars, netVars, captured,
                 unlocked>>

\* get_fb_block: poll for a free buffer, exit when the polls are used up.
MainDrain ==
  /\ mpc = "drain"
  /\ \/ idx = BUFFERS /\ mpc' = "rel_in" /\ UNCHANGED <<buffers, mbuf, polls>>
     \/ idx < BUFFERS /\ \E b \in FreeBuffers :
          /\ buffers' = [buffers EXCEPT ![b] = "busy"]
          /\ mbuf' = b
          /\ polls' = 0
          /\ mpc' = "unmap"
     \/ /\ idx < BUFFERS /\ FreeBuffers = {}
        /\ IF polls > TIMEOUT_MS
             THEN mpc' = "exit_timeout" /\ UNCHANGED polls
             ELSE polls' = polls + 1 /\ UNCHANGED mpc
        /\ UNCHANGED <<buffers, mbuf>>
  /\ UNCHANGED <<idx, objVars, ximg, img, capVars, exit, ctx, cur_buf_id,
                 convVars, frameVars, encVars, slotVars, netVars, captured,
                 unlocked>>

\* capture_unmap_fb and release_buffer.
MainUnmap ==
  /\ MainGoto("unmap", "drain")
  /\ ximg' = [ximg EXCEPT ![mbuf] = FALSE]
  /\ buffers' = [buffers EXCEPT ![mbuf] = "null"]
  /\ mbuf' = NoBuf
  /\ idx' = idx + 1
  /\ UNCHANGED <<polls, objVars, img, capVars, exit, ctx, cur_buf_id,
                 convVars, frameVars, encVars, slotVars, netVars, captured,
                 unlocked>>

MainReleaseInput ==
  /\ MainGoto("rel_in", "rel_enc")
  /\ in_obj' = "freed"
  /\ UNCHANGED <<mbuf, idx, polls, cap_obj, enc_obj, net_cb_lock, poolVars,
                 capVars, exit, ctx, cur_buf_id, convVars, frameVars, encVars,
                 slotVars, netVars, captured, unlocked>>

\* ffmpeg_enc_release asks both threads to leave their loops ...
MainStopEnc ==
  /\ MainGoto("rel_enc", "join")
  /\ exit' = TRUE
  /\ UNCHANGED <<mbuf, idx, polls, objVars, poolVars, capVars, ctx, cur_buf_id,
                 convVars, frameVars, encVars, slotVars, netVars, captured,
                 unlocked>>

\* ... joins them, closes the codec; encodec_release frees the object.
MainJoin ==
  /\ MainGoto("join", "rel_cap")
  /\ vpc = "off" /\ epc = "off"
  /\ enc_obj' = "freed"
  /\ ctx' = NoCtx
  /\ UNCHANGED <<mbuf, idx, polls, cap_obj, in_obj, net_cb_lock, poolVars,
                 capVars, exit, cur_buf_id, convVars, frameVars, encVars,
                 slotVars, netVars, captured, unlocked>>

\* xext_dev_release unmaps what is still mapped and frees the device.
MainReleaseCap ==
  /\ MainGoto("rel_cap", "null")
  /\ cap_obj' = "freed"
  /\ ximg' = [b \in Slots |-> FALSE]
  /\ UNCHANGED <<mbuf, idx, polls, enc_obj, in_obj, net_cb_lock, buffers, img,
                 capVars, exit, ctx, cur_buf_id, convVars, frameVars, encVars,
                 slotVars, netVars, captured, unlocked>>

MainNull ==
  /\ MainGoto("null", "unlock")
  /\ cap_obj' = "null" /\ enc_obj' = "null" /\ in_obj' = "null"
  /\ UNCHANGED <<mbuf, idx, polls, net_cb_lock, poolVars, capVars, exit, ctx,
                 cur_buf_id, convVars, frameVars, encVars, slotVars, netVars,
                 captured, unlocked>>

\* The mutex is unlocked whoever owns it; main() then starts server_start again.
MainUnlock ==
  /\ MainGoto("unlock", "init_cap")
  /\ net_cb_lock' = "none"
  /\ UNCHANGED <<mbuf, idx, polls, cap_obj, enc_obj, in_obj, poolVars, capVars,
                 exit, ctx, cur_buf_id, convVars, frameVars, encVars, slotVars,
                 netVars, captured, unlocked>>

Main ==
  \/ MainInitCap \/ MainInitEnc \/ MainInitInput \/ MainAlloc \/ MainSetCap
  \/ MainSetEnc \/ MainSetEncFail \/ MainLoop \/ MainGetFb \/ MainGrab \/ MainPutFb
  \/ MainPace \/ MainLock \/ MainDrain \/ MainUnmap \/ MainReleaseInput
  \/ MainStopEnc \/ MainJoin  \/ MainReleaseCap \/ MainNull \/ MainUnlock

-------------------------------------------------------------------------------
(***************************************************************************)
(* Conversion thread of ffmpeg_encodec.                                    *)
(***************************************************************************)
ConvGoto(from, to) == Alive /\ vpc = from /\ vpc' = to

ConvExit ==
  /\ ConvGoto("idle", "off")
  /\ exit
  /\ UNCHANGED <<mainVars, objVars, poolVars, capVars, exit, ctx, cur_buf_id,
                 vbuf, frameVars, encVars, slotVars, netVars, captured,
                 unlocked>>

\* Mutant: the slot is cleared when the buffer is taken.
ConvTakeClears ==
  /\ ConvGoto("idle", "type")
  /\ ~exit /\ cur_buf_id # NoBuf
  /\ vbuf' = cur_buf_id /\ cur_buf_id' = NoBuf
  /\ UNCHANGED <<mainVars, objVars, poolVars, capVars, exit, ctx,
                 frameVars, encVars, slotVars, netVars, captured, unlocked>>

ConvTake ==
  /\ ConvGoto("idle", "type")
  /\ ~exit /\ cur_buf_id # NoBuf
  /\ vbuf' = cur_buf_id
  /\ UNCHANGED <<mainVars, objVars, poolVars, capVars, exit, ctx, cur_buf_id,
                 frameVars, encVars, slotVars, netVars, captured, unlocked>>

\* pict_type is written into the frame the encoder may not have sent yet.
ConvType ==
  /\ ConvGoto("type", "clear")
  /\ av_frame' = [av_frame EXCEPT !.key = force_key_frame]
  /\ UNCHANGED <<mainVars, objVars, poolVars, capVars, exit, ctx, cur_buf_id,
                 vbuf, force_key_frame, conv_over, encVars, slotVars, netVars,
                 captured, unlocked>>

\* The flag is read a second time before it is reset.
ConvClear ==
  /\ ConvGoto("clear", "scaling")
  /\ force_key_frame' = FALSE
  /\ UNCHANGED <<mainVars, objVars, poolVars, capVars, exit, ctx, cur_buf_id,
                 vbuf, av_frame, conv_over, encVars, slotVars, netVars,
                 captured, unlocked>>

\* sws_scale overwrites the picture, whether or not it has been sent.

ConvScale ==
  /\ ConvGoto("scaling", "wait")
  /\ av_frame' = [av_frame EXCEPT !.img = img[vbuf]]
  /\ UNCHANGED <<mainVars, objVars, poolVars, capVars, exit, ctx, cur_buf_id,
                 vbuf, force_key_frame, conv_over, encVars, slotVars, netVars,
                 captured, unlocked>>

ConvHand ==
  /\ ConvGoto("wait", "put")
  /\ ~conv_over /\ conv_over' = TRUE
  /\ UNCHANGED <<mainVars, objVars, poolVars, capVars, exit, ctx, cur_buf_id,
                 vbuf, force_key_frame, av_frame, encVars, slotVars, netVars,
                 captured, unlocked>>

\* put_fb refuses a buffer that is not allocated, which ends the process.
ConvPut ==
  /\ Alive /\ vpc = "put"
  /\ IF buffers[vbuf] = "null"
       THEN mpc' = "exit_put_fb" /\ UNCHANGED <<vpc, buffers>>
       ELSE /\ vpc' = "clear_cur"
            /\ buffers' = [buffers EXCEPT ![vbuf] = "free"]
            /\ UNCHANGED mpc
  /\ UNCHANGED <<mbuf, idx, polls, objVars, ximg, img, capVars, exit, ctx,
                 cur_buf_id, vbuf, frameVars, encVars, slotVars, netVars,
                 captured, unlocked>>

ConvClearCur ==
  /\ ConvGoto("clear_cur", "idle")
  /\ cur_buf_id' = NoBuf
  /\ vbuf' = NoBuf
  /\ UNCHANGED <<mainVars, objVars, poolVars, capVars, exit, ctx, frameVars,
                 encVars, slotVars, netVars, captured, unlocked>>

Conv ==
  \/ ConvExit \/ ConvTake \/ ConvType \/ ConvClear \/ ConvScale \/ ConvHand
  \/ ConvPut \/ ConvClearCur

-------------------------------------------------------------------------------
(***************************************************************************)
(* Encoding thread of ffmpeg_encodec, with on_enc_package.                 *)
(***************************************************************************)
EncGoto(from, to) == Alive /\ epc = from /\ epc' = to

EncExit ==
  /\ EncGoto("idle", "off")
  /\ exit
  /\ UNCHANGED <<mainVars, objVars, poolVars, capVars, exit, ctx, cur_buf_id,
                 convVars, frameVars, enc_in, pending, slotVars, netVars,
                 captured, unlocked>>

EncSend ==
  /\ EncGoto("idle", "recv")
  /\ ~exit /\ ctx.ready /\ conv_over
  /\ enc_in' = av_frame
  /\ UNCHANGED <<mainVars, objVars, poolVars, capVars, exit, ctx, cur_buf_id,
                 convVars, frameVars, pending, slotVars, netVars, captured,
                 unlocked>>

\* avcodec_send_frame fails: exit(-1).
EncSendFail ==
  /\ EncMayFail
  /\ Alive /\ epc = "idle"
  /\ ~exit /\ ctx.ready /\ conv_over
  /\ mpc' = "exit_enc"
  /\ UNCHANGED <<mbuf, idx, polls, objVars, poolVars, capVars, exit, ctx,
                 cur_buf_id, convVars, frameVars, encVars, slotVars, netVars,
                 captured, unlocked>>

\* Mutant: conv_over is only reset when there is a packet.
EncRecvKeepsFrame ==
  /\ Alive /\ epc = "recv"
  /\ \/ \E key \in {k \in BOOLEAN : enc_in.key => k} :
          epc' = "emit" /\ conv_over' = FALSE /\ pending' = IF key THEN 2 ELSE 1
     \/ epc' = "idle" /\ UNCHANGED <<conv_over, pending>>
     \/ EncMayFail /\ epc' = "off" /\ conv_over' = FALSE /\ UNCHANGED pending
  /\ UNCHANGED <<mainVars, objVars, poolVars, capVars, exit, ctx, cur_buf_id,
                 convVars, force_key_frame, av_frame, enc_in, slotVars,
                 netVars, captured, unlocked>>

\* avcodec_receive_packet, then conv_over = false.  A key packet is preceded
\* by the extradata, so it takes two callbacks.
EncRecv ==
  /\ Alive /\ epc = "recv"
  /\ conv_over' = FALSE
  /\ \/ \E key \in {k \in BOOLEAN : enc_in.key => k} :
          epc' = "emit" /\ pending' = IF key THEN 2 ELSE 1
     \/ epc' = "idle" /\ UNCHANGED pending
     \/ EncMayFail /\ epc' = "off" /\ UNCHANGED pending
  /\ UNCHANGED <<mainVars, objVars, poolVars, capVars, exit, ctx, cur_buf_id,
                 convVars, force_key_frame, av_frame, enc_in, slotVars,
                 netVars, captured, unlocked>>

\* Mutant: the slot is overwritten.
EncCopyNoWait ==
  /\ EncGoto("emit", "copy")
  /\ enc_data' = produced + 1
  /\ UNCHANGED <<mainVars, objVars, poolVars, capVars, exit, ctx, cur_buf_id,
                 convVars, frameVars, enc_in, pending, enc_data_len, bpc,
                 produced, delivered, netVars, captured, unlocked>>

\* on_enc_package spins until the slot is empty, then copies ...
EncCopy ==
  /\ EncGoto("emit", "copy")
  /\ ~enc_data_len
  /\ enc_data' = produced + 1
  /\ UNCHANGED <<mainVars, objVars, poolVars, capVars, exit, ctx, cur_buf_id,
                 convVars, frameVars, enc_in, pending, enc_data_len, bpc,
                 produced, delivered, netVars, captured, unlocked>>

\* ... and publishes the length.
EncPublish ==
  /\ EncGoto("copy", IF pending = 1 THEN "idle" ELSE "emit")
  /\ enc_data_len' = TRUE
  /\ produced' = produced + 1
  /\ pending' = pending - 1
  /\ UNCHANGED <<mainVars, objVars, poolVars, capVars, exit, ctx, cur_buf_id,
                 convVars, frameVars, enc_in, enc_data, bpc, delivered,
                 netVars, captured, unlocked>>

Enc ==
  \/ EncExit \/ EncSend \/ EncSendFail \/ EncRecv \/ EncCopy \/ EncPublish

-------------------------------------------------------------------------------
(***************************************************************************)
(* bradcast_video_thread.                                                  *)
(***************************************************************************)
\* Mutant: the slot is released before it is broadcast.
BradcastTakeResets ==
  /\ Alive /\ bpc = "poll" /\ enc_data_len
  /\ bpc' = "send" /\ enc_data_len' = FALSE
  /\ UNCHANGED <<mainVars, objVars, poolVars, capVars, exit, ctx, cur_buf_id,
                 convVars, frameVars, encVars, enc_data,
                 produced, delivered, netVars, captured, unlocked>>

\* Mutant: a packet nobody listens to is dropped.
BradcastTakeDrops ==
  /\ Alive /\ bpc = "poll" /\ enc_data_len
  /\ bpc' = IF clients > 0 THEN "send" ELSE "reset"
  /\ UNCHANGED <<mainVars, objVars, poolVars, capVars, exit, ctx, cur_buf_id,
                 convVars, frameVars, encVars, enc_data, enc_data_len,
                 produced, delivered, netVars, captured, unlocked>>

BradcastTake ==
  /\ Alive /\ bpc = "poll" /\ enc_data_len
  /\ bpc' = "send"
  /\ UNCHANGED <<mainVars, objVars, poolVars, capVars, exit, ctx, cur_buf_id,
                 convVars, frameVars, encVars, enc_data, enc_data_len,
                 produced, delivered, netVars, captured, unlocked>>

BradcastSend ==
  /\ Alive /\ bpc = "send"
  /\ bpc' = "reset"
  /\ delivered' = enc_data
  /\ UNCHANGED <<mainVars, objVars, poolVars, capVars, exit, ctx, cur_buf_id,
                 convVars, frameVars, encVars, enc_data, enc_data_len,
                 produced, netVars, captured, unlocked>>

BradcastReset ==
  /\ Alive /\ bpc = "reset"
  /\ bpc' = "poll"
  /\ enc_data_len' = FALSE
  /\ UNCHANGED <<mainVars, objVars, poolVars, capVars, exit, ctx, cur_buf_id,
                 convVars, frameVars, encVars, enc_data, produced, delivered,
                 netVars, captured, unlocked>>

Bradcast == BradcastTake \/ BradcastSend \/ BradcastReset

-------------------------------------------------------------------------------
(***************************************************************************)
(* Network threads: on_server_pkt, on_request and on_client_connect.       *)
(***************************************************************************)
NetGoto(t, from, to) ==
  Alive /\ npc[t] = from /\ npc' = [npc EXCEPT ![t] = to]

\* Using a released object is undefined: nothing happens, or the process dies.
MayFault(object) ==
  \/ UNCHANGED mpc
  \/ object = "freed" /\ mpc' = "fault"

NetReceive(t, r) ==
  /\ NetGoto(t, "idle", "lock")
  /\ requests < MaxRequests /\ requests' = requests + 1
  /\ req' = [req EXCEPT ![t] = r]
  /\ UNCHANGED <<mainVars, objVars, poolVars, capVars, exit, ctx, cur_buf_id,
                 convVars, frameVars, encVars, slotVars, clients, bit_rate,
                 frame_rate, captured, unlocked>>

NetLock(t) ==
  /\ NetGoto(t, "lock", "cs")
  /\ net_cb_lock = "none" /\ net_cb_lock' = t
  /\ UNCHANGED <<mainVars, cap_obj, enc_obj, in_obj, poolVars, capVars, exit,
                 ctx, cur_buf_id, convVars, frameVars, encVars, slotVars, req,
                 clients, bit_rate, frame_rate, requests, captured, unlocked>>

NetSetBitRate(t) ==
  /\ NetGoto(t, "cs", "clamp")
  /\ req[t].kind = "bit_rate"
  /\ bit_rate' = req[t].value
  /\ UNCHANGED <<mainVars, objVars, poolVars, capVars, exit, ctx, cur_buf_id,
                 convVars, frameVars, encVars, slotVars, req, clients,
                 frame_rate, requests, captured, unlocked>>

NetClamp(t) ==
  /\ NetGoto(t, "clamp", "quit")
  /\ bit_rate' = IF bit_rate < MIN_BIT_RATE THEN MIN_BIT_RATE ELSE bit_rate
  /\ UNCHANGED <<mainVars, objVars, poolVars, capVars, exit, ctx, cur_buf_id,
                 convVars, frameVars, encVars, slotVars, req, clients,
                 frame_rate, requests, captured, unlocked>>

\* Mutant: the capture loop is not asked to quit.
NetSetFrameRateNoQuit(t) ==
  /\ NetGoto(t, "cs", "unlock")
  /\ req[t].kind = "frame_rate"
  /\ frame_rate' = req[t].value
  /\ UNCHANGED <<mainVars, objVars, poolVars, capVars, exit, ctx, cur_buf_id,
                 convVars, frameVars, encVars, slotVars, req, clients,
                 bit_rate, requests, captured, unlocked>>

NetSetFrameRate(t) ==
  /\ NetGoto(t, "cs", "quit")
  /\ req[t].kind = "frame_rate"
  /\ frame_rate' = req[t].value
  /\ UNCHANGED <<mainVars, objVars, poolVars, capVars, exit, ctx, cur_buf_id,
                 convVars, frameVars, encVars, slotVars, req, clients,
                 bit_rate, requests, captured, unlocked>>

\* capture_quit(cap_obj): no effect while there is no capture object.
NetQuit(t) ==
  /\ NetGoto(t, "quit", "unlock")
  /\ quit' = (quit \/ cap_obj = "live")
  /\ MayFault(cap_obj)
  /\ UNCHANGED <<mbuf, idx, polls, objVars, poolVars, cap_rate, exit, ctx,
                 cur_buf_id, convVars, frameVars, encVars, slotVars, req,
                 clients, bit_rate, frame_rate, requests, captured, unlocked>>

\* on_key and on_clip use in_obj, GET_FPS uses cap_obj.
NetUseObject(t) ==
  /\ NetGoto(t, "cs", "unlock")
  /\ req[t].kind \in {"input", "query"}
  /\ MayFault(IF req[t].kind = "input" THEN in_obj ELSE cap_obj)
  /\ UNCHANGED <<mbuf, idx, polls, objVars, poolVars, capVars, exit, ctx,
                 cur_buf_id, convVars, frameVars, encVars, slotVars, req,
                 clients, bit_rate, frame_rate, requests, captured, unlocked>>

NetUnlock(t) ==
  /\ NetGoto(t, "unlock", "idle")
  /\ net_cb_lock' = "none"
  /\ req' = [req EXCEPT ![t] = NoRequest]
  /\ UNCHANGED <<mainVars, cap_obj, enc_obj, in_obj, poolVars, capVars, exit,
                 ctx, cur_buf_id, convVars, frameVars, encVars, slotVars,
                 clients, bit_rate, frame_rate, requests, captured, unlocked>>

\* A TCP client is accepted, or the KCP thread binds one to a known client:
\* both call on_client_connect, which takes no lock.
NetConnect(t) ==
  /\ NetGoto(t, "idle", "connect")
  /\ requests < MaxRequests /\ requests' = requests + 1
  /\ IF t = TcpThread
       THEN clients < MaxClients /\ clients' = clients + 1
       ELSE clients > 0 /\ UNCHANGED clients
  /\ UNCHANGED <<mainVars, objVars, poolVars, capVars, exit, ctx, cur_buf_id,
                 convVars, frameVars, encVars, slotVars, req, bit_rate,
                 frame_rate, captured, unlocked>>

NetTestEnc(t) ==
  /\ NetGoto(t, "connect", IF enc_obj = "null" THEN "idle" ELSE "force")
  /\ UNCHANGED <<mainVars, objVars, poolVars, capVars, exit, ctx, cur_buf_id,
                 convVars, frameVars, encVars, slotVars, req, clients,
                 bit_rate, frame_rate, requests, captured, unlocked>>

NetForce(t) ==
  /\ NetGoto(t, "force", "idle")
  /\ force_key_frame' = (force_key_frame \/ enc_obj = "live")
  /\ MayFault(enc_obj)
  /\ UNCHANGED <<mbuf, idx, polls, objVars, poolVars, capVars, exit, ctx,
                 cur_buf_id, convVars, av_frame, conv_over, encVars, slotVars,
                 req, clients, bit_rate, frame_rate, requests, captured,
                 unlocked>>

NetDisconnect ==
  /\ Alive /\ npc[TcpThread] = "idle" /\ clients > 0
  /\ clients' = clients - 1
  /\ UNCHANGED <<mainVars, objVars, poolVars, capVars, exit, ctx, cur_buf_id,
                 convVars, frameVars, encVars, slotVars, npc, req, bit_rate,
                 frame_rate, requests, captured, unlocked>>

NetHandle(t) ==
  \/ NetLock(t) \/ NetSetBitRate(t) \/ NetClamp(t) \/ NetSetFrameRate(t)
  \/ NetQuit(t) \/ NetUseObject(t) \/ NetUnlock(t) \/ NetTestEnc(t)
  \/ NetForce(t)

-------------------------------------------------------------------------------
\* The process has ended, by exit(-1) or by a fault.
Stopped == ~Alive /\ UNCHANGED vars

Next ==
  \/ Main \/ Conv \/ Enc \/ Bradcast
  \/ \E t \in NetThreads :
       \/ NetHandle(t) \/ NetConnect(t)
       \/ \E r \in Requests : NetReceive(t, r)
  \/ NetDisconnect
  \/ Stopped

\* When a thread of the program has a step to take.
CanMain ==
  /\ Alive
  /\ mpc = "put_fb" => cur_buf_id = NoBuf
  /\ mpc = "lock" => net_cb_lock = "none"
  /\ mpc = "join" => vpc = "off" /\ epc = "off"
CanConv ==
  /\ Alive /\ vpc # "off"
  /\ vpc = "idle" => exit \/ cur_buf_id # NoBuf
  /\ vpc = "wait" => ~conv_over
CanEnc ==
  /\ Alive /\ epc # "off"
  /\ epc = "idle" => exit \/ (ctx.ready /\ conv_over)
  /\ epc = "emit" => ~enc_data_len
CanBradcast == Alive /\ (bpc = "poll" => enc_data_len)
CanNet(t) ==
  Alive /\ npc[t] # "idle" /\ (npc[t] = "lock" => net_cb_lock = "none")

\* Weak fairness of every thread, with its enabling condition written out;
\* requests, connections and disconnections are the environment's and need
\* not happen.
Fairness ==
  /\ []<>~CanMain \/ []<><<Main>>_vars
  /\ []<>~CanConv \/ []<><<Conv>>_vars
  /\ []<>~CanEnc \/ []<><<Enc>>_vars
  /\ []<>~CanBradcast \/ []<><<Bradcast>>_vars
  /\ \A t \in NetThreads : []<>~CanNet(t) \/ []<><<NetHandle(t)>>_vars

Spec == Init /\ [][Next]_vars
FairSpec == Spec /\ Fairness
-------------------------------------------------------------------------------
(***************************************************************************)
(* Properties.                                                             *)
(***************************************************************************)
\* Where the main thread and the converter hold a buffer, and where the main
\* thread is inside xext_main_loop.
MainHolds == mpc \in {"grab", "put_fb", "unmap"}
ConvHolds == vpc \in {"type", "clear", "scaling", "wait", "put"}
InLoop    == mpc \in {"loop", "get_fb", "grab", "put_fb", "pace"}

\* Every variable stays in its range.
TypeOK ==
  /\ mpc \in MainPC /\ mbuf \in Slots \cup {NoBuf}
  /\ MainHolds => mbuf \in Slots
  /\ idx \in 0 .. BUFFERS /\ (mpc = "unmap" => idx < BUFFERS)
  /\ polls \in 0 .. TIMEOUT_MS + 1
  /\ cap_obj \in Object /\ enc_obj \in Object /\ in_obj \in Object
  /\ net_cb_lock \in {"none", "main"} \cup NetThreads
  /\ buffers \in [Slots -> {"null", "free", "busy"}]
  /\ ximg \in [Slots -> BOOLEAN] /\ img \in [Slots -> Nat]
  /\ quit \in BOOLEAN /\ cap_rate \in Nat
  /\ exit \in BOOLEAN /\ ctx \in [bit : Nat, rate : Nat, ready : BOOLEAN]
  /\ cur_buf_id \in Slots \cup {NoBuf}
  /\ force_key_frame \in BOOLEAN /\ av_frame \in Frame /\ conv_over \in BOOLEAN
  /\ vpc \in ConvPC /\ vbuf \in Slots \cup {NoBuf}
  /\ ConvHolds => vbuf \in Slots
  /\ epc \in EncPC /\ enc_in \in Frame /\ pending \in 0 .. 2
  /\ epc \in {"emit", "copy"} => pending # 0
  /\ enc_data \in Nat /\ enc_data_len \in BOOLEAN
  /\ bpc \in {"poll", "send", "reset"}
  /\ npc \in [NetThreads -> NetPC]
  /\ req \in [NetThreads -> Requests \cup {NoRequest}]
  /\ clients \in Nat /\ bit_rate \in Nat /\ frame_rate \in Nat
  /\ captured \in Nat /\ produced \in Nat /\ delivered \in Nat
  /\ requests \in Nat /\ unlocked \in BOOLEAN

\* A buffer the main thread fills or tears down, and a buffer the converter
\* reads (get_raw_buffer .. put_fb), is allocated, attached to an image, not
\* free, and never the same one: no frame is overwritten, unmapped or freed
\* while it is being scaled, across any number of restarts.
BufferOwnership ==
  /\ MainHolds => buffers[mbuf] = "busy" /\ ximg[mbuf]
  /\ ConvHolds => buffers[vbuf] = "busy" /\ ximg[vbuf] /\ vbuf = cur_buf_id
  /\ MainHolds /\ cur_buf_id = mbuf => vpc = "clear_cur"

\* The pool never fails its users: capture_get_fb finds a free buffer and the
\* converter's put_fb an allocated one, so neither exit(-1) is ever taken.  Two
\* buffers are enough for one capture and one conversion, whatever the encoder
\* and the broadcaster do.
NeverStarved == mpc \notin {"exit_get_fb", "exit_put_fb"}

\* When ffmpeg_enc_release joins the threads, the converter is not inside a
\* conversion, where it could wait for conv_over from an encoding thread that
\* has already left its loop: draining the pool first makes the joins safe.
JoinCannotHang == mpc = "join" => ~ConvHolds

InSection(t) == npc[t] \in {"cs", "clamp", "quit", "unlock"}

\* Unless a failed encodec_set_info has unlocked a mutex it did not lock, the
\* network callbacks are mutually exclusive and find the capture and the input
\* object alive or absent, never released (net_cb_lock around the tear-down).
HandlersSeeLiveObjects ==
  ~unlocked => \A t \in NetThreads : InSection(t) =>
    /\ net_cb_lock = t
    /\ cap_obj # "freed" /\ in_obj # "freed"

Changing(t) == npc[t] \in {"clamp", "quit"}

\* While the capture loop runs with no restart requested, encoder and capture
\* device work with the current settings, and never below MIN_BIT_RATE: a
\* request racing the set-up of server_start is never forgotten.
SettingsInForce ==
  InLoop /\ ~quit /\ (\A t \in NetThreads : ~Changing(t)) =>
    /\ ctx = [bit |-> bit_rate, rate |-> frame_rate, ready |-> TRUE]
    /\ cap_rate = Lower(frame_rate, MAX_FRAME_RATE)
    /\ bit_rate >= MIN_BIT_RATE

\* on_enc_package never copies into enc_data while it is being broadcast, and
\* what is broadcast is the packet that follows the last one sent.
SlotHandover ==
  /\ epc = "copy" => bpc = "poll" /\ ~enc_data_len
  /\ bpc = "send" => enc_data = delivered + 1

\* The encoder is never given an older picture after a newer one.
FramesInOrder == [][enc_in.img <= enc_in'.img]_vars

\* A key frame asked for on a connection is not forgotten: the flag is only
\* withdrawn when the frame about to be encoded is marked as a key frame, or
\* by a new encoder, which begins with one.
ForceHonoured ==
  [][force_key_frame /\ ~force_key_frame' =>
       av_frame.key \/ mpc = "init_enc"]_vars

\* Packets reach the broadcast in the order of the encoder, each exactly once,
\* over all restarts: the single-slot hand-over is a FIFO of capacity one.
Packets == INSTANCE PacketChannel WITH Capacity <- 1
PacketFifo == Packets!Spec

\* Once the requests cease the settings are eventually in force for good, in the
\* capture object and in the encoder, or the process has exited because draining
\* the pool timed out.
SettingsConverge ==
  <>[](~Alive \/ (InLoop /\ ~quit
                   /\ cap_rate = Lower(frame_rate, MAX_FRAME_RATE)
                   /\ ctx.bit = bit_rate /\ ctx.rate = frame_rate))

\* ffmpeg_frame_enc never spins for ever on cur_buf_id.
CaptureNeverHangs == mpc = "put_fb" ~> (mpc = "pace" \/ ~Alive)

\* A packet handed over is eventually broadcast.
PacketsDelivered == enc_data_len ~> (delivered = enc_data \/ ~Alive)
===============================================================================
