------------------------------ MODULE PipelineInv ------------------------------
(***************************************************************************)
(* The inductive invariants behind the safety properties of Pipeline, one  *)
(* group per theorem of Pipeline_proofs.                                   *)
(***************************************************************************)
EXTENDS Pipeline

SettingUp   == mpc \in {"init_in", "alloc", "set_cap", "set_enc"}
TearingDown == mpc \in {"drain", "unmap", "rel_in", "rel_enc", "join",
                        "rel_cap", "null", "unlock"}

Allocated == {b \in Slots : buffers[b] # "null"}

\* The converter owns the buffer in cur_buf_id until put_fb has freed it.
ConvOwns(b) == cur_buf_id = b /\ vpc # "clear_cur"
MainOwns(b) == MainHolds /\ mbuf = b

\* A buffer is busy exactly while one of its two users owns it, it is mapped
\* exactly while it is allocated, and what is allocated follows from where
\* the main thread is.
PoolInv ==
  /\ \A b \in Slots :
       /\ ximg[b] <=> buffers[b] # "null"
       /\ MainOwns(b) \/ ConvOwns(b) => buffers[b] = "busy"
       /\ buffers[b] = "busy" /\ Alive => MainOwns(b) \/ ConvOwns(b)
       /\ ~(MainOwns(b) /\ ConvOwns(b))
  /\ ConvHolds => vbuf = cur_buf_id
  /\ vpc = "clear_cur" => cur_buf_id # NoBuf
  /\ mpc \in {"init_cap", "init_enc", "init_in", "rel_in", "rel_enc", "join",
              "rel_cap", "null", "unlock"} => \A b \in Slots : buffers[b] = "null"
  /\ mpc = "alloc" => \A b \in Slots : buffers[b] # "null" <=> b < idx
  /\ mpc \in {"set_cap", "set_enc", "lock"} \/ InLoop =>
       \A b \in Slots : buffers[b] # "null" <=> b < BUFFERS
  /\ mpc \in {"drain", "unmap"} => Cardinality(Allocated) = BUFFERS - idx
  /\ mpc \notin {"exit_get_fb", "exit_put_fb"}

\* The tear-down holds net_cb_lock and objects are released only under it.
LockInv ==
  /\ \A t \in NetThreads : InSection(t) /\ ~unlocked => net_cb_lock = t
  /\ TearingDown /\ ~unlocked => net_cb_lock = "main"
  /\ (cap_obj = "freed" \/ in_obj = "freed") /\ ~unlocked =>
       net_cb_lock = "main"
  /\ mpc = "unlock" => cap_obj = "null" /\ in_obj = "null"

\* A change of the settings that the running loop has not seen is either still
\* in its handler or has set quit on the live capture object.
SettingsInv ==
  /\ mpc \in {"init_enc", "lock"} \/ SettingUp \/ InLoop => cap_obj = "live"
  /\ (\A t \in NetThreads : npc[t] # "clamp") => bit_rate >= MIN_BIT_RATE
  /\ ~quit /\ (\A t \in NetThreads : ~Changing(t)) =>
       /\ mpc = "set_enc" \/ InLoop =>
            cap_rate = Lower(frame_rate, MAX_FRAME_RATE)
       /\ InLoop =>
            ctx = [bit |-> bit_rate, rate |-> frame_rate, ready |-> TRUE]

\* The slot holds the next packet from its publication until it was broadcast.
SlotInv ==
  /\ epc = "copy" => ~enc_data_len /\ enc_data = produced + 1
  /\ enc_data_len =>
       /\ enc_data = produced
       /\ produced = IF bpc = "reset" THEN delivered ELSE delivered + 1
  /\ ~enc_data_len => bpc = "poll" /\ produced = delivered

\* Pictures grow newer from the encoder back to the capture.
OrderInv ==
  /\ enc_in.img <= captured /\ av_frame.img <= captured
  /\ mpc = "put_fb" => img[mbuf] = captured
  /\ cur_buf_id # NoBuf /\ vpc # "clear_cur" =>
       /\ img[cur_buf_id] <= captured
       /\ enc_in.img <= img[cur_buf_id] /\ av_frame.img <= img[cur_buf_id]
  /\ conv_over \/ vpc = "wait" => enc_in.img <= av_frame.img
  /\ SettingUp => cur_buf_id = NoBuf /\ vpc = "idle" /\ ~conv_over /\ ~exit

IInv == TypeOK /\ PoolInv /\ LockInv /\ SettingsInv /\ SlotInv /\ OrderInv
================================================================================
