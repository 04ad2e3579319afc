--------------------------- MODULE Pipeline_proofs ----------------------------
(***************************************************************************)
(* Theorems about Pipeline, for every pool size, every set of network      *)
(* threads, every request value and with or without failures of the        *)
(* encoder and of its set-up: its types, its pool of frame buffers, and    *)
(* its synchronisation (net_cb_lock, the race of settings requests with    *)
(* the set-up, the single-slot hand-over to the broadcaster and the order  *)
(* of the pictures).                                                       *)
(***************************************************************************)
EXTENDS PipelineInv, FiniteSetTheorems, TLAPS

USE DEF mainVars, objVars, poolVars, capVars, convVars, frameVars, encVars,
        slotVars, netVars, vars

\* Updating a function with a value of its range keeps its type.
LEMMA UpdateType ==
  ASSUME NEW S, NEW T, NEW f \in [S -> T], NEW x, NEW y \in T
  PROVE  [f EXCEPT ![x] = y] \in [S -> T]
OBVIOUS

\* The value a request carries is a rate, whatever thread brings it.
LEMMA RequestTyped ==
  ASSUME NEW r \in Requests \cup {NoRequest}
  PROVE  /\ r.kind = "bit_rate" => r.value \in Nat
         /\ r.kind = "frame_rate" => r.value \in Nat
<1>1. CASE r \in [kind : {"bit_rate"}, value : BitRates]
  BY <1>1, SettingsAssumption
<1>2. CASE r \in [kind : {"frame_rate"}, value : FrameRates]
  BY <1>2, SettingsAssumption
<1>3. CASE r \in [kind : {"input", "query"}, value : {0}]
  BY <1>3
<1>4. CASE r = NoRequest
  BY <1>4 DEF NoRequest
<1>5. QED
  BY Zenon, <1>1, <1>2, <1>3, <1>4 DEF Requests

\* The frames the pipeline starts with, before any picture is in them.
LEMMA StartingFrames == Init => av_frame \in Frame /\ enc_in \in Frame
<1>1. NoFrame \in Frame
  BY DEF NoFrame, Frame
<1>2. Init => av_frame = NoFrame /\ enc_in = NoFrame
  BY Zenon DEF Init
<1>3. QED
  BY Zenon, <1>1, <1>2

\* Every reachable state of the pipeline is well typed.
THEOREM TypeCorrect == Spec => []TypeOK
<1>1. Init => TypeOK
  <2> SUFFICES ASSUME Init PROVE TypeOK
    BY Zenon
  <2>1. /\ quit \in BOOLEAN /\ exit \in BOOLEAN /\ conv_over \in BOOLEAN
        /\ force_key_frame \in BOOLEAN /\ enc_data_len \in BOOLEAN
        /\ unlocked \in BOOLEAN /\ ximg \in [Slots -> BOOLEAN]
    BY Zenon DEF Init, Slots
  <2>2. ctx \in [bit : Nat, rate : Nat, ready : BOOLEAN]
    BY DEF Init, NoCtx
  <2>3. av_frame \in Frame /\ enc_in \in Frame
    BY Zenon, StartingFrames
  <2> USE PoolAssumption, SettingsAssumption, BoundsAssumption
      DEF TypeOK, MainPC, ConvPC, EncPC, NetPC, Dead, Object, Slots, NoBuf,
          MainHolds, ConvHolds
  <2>4. QED
    BY <2>1, <2>2, <2>3 DEF Init, NoRequest
<1> USE PoolAssumption, SettingsAssumption, BoundsAssumption
    DEF TypeOK, MainPC, ConvPC, EncPC, NetPC, Dead, Object, Slots, NoBuf,
        MainHolds, ConvHolds
<1>2. TypeOK /\ [Next]_vars => TypeOK'
  <2> SUFFICES ASSUME TypeOK, [Next]_vars PROVE TypeOK'
    OBVIOUS
  <2>1. CASE MainInitCap
    <3>1. quit' \in BOOLEAN
      BY <2>1, Zenon DEF MainInitCap
    <3>2. QED
      BY <2>1, <3>1 DEF MainInitCap, MainGoto
  <2>2. CASE MainInitEnc
    <3>1. /\ exit' \in BOOLEAN /\ conv_over' \in BOOLEAN
          /\ force_key_frame' \in BOOLEAN
      BY <2>2, Zenon DEF MainInitEnc
    <3>2. ctx' \in [bit : Nat, rate : Nat, ready : BOOLEAN]
      BY <2>2 DEF MainInitEnc, NoCtx
    <3>3. QED
      BY <2>2, <3>1, <3>2 DEF MainInitEnc, MainGoto
  <2>3. CASE MainAlloc
    <3>1. buffers' \in [Slots -> {"null", "free", "busy"}]
      BY <2>3, UpdateType DEF MainAlloc
    <3>2. ximg' \in [Slots -> BOOLEAN]
      BY <2>3, UpdateType, Zenon DEF MainAlloc
    <3>3. QED
      BY <2>3, <3>1, <3>2 DEF MainAlloc
  <2>4. CASE MainSetCap
    BY <2>4 DEF MainSetCap, MainGoto, Lower
  <2>5. CASE MainSetEnc
    BY <2>5 DEF MainSetEnc, MainGoto, NoFrame, Frame
  <2>6. CASE MainSetEncFail
    BY <2>6 DEF MainSetEncFail, MainGoto
  <2>7. CASE MainLoop
    BY <2>7 DEF MainLoop, MainGoto
  <2>8. CASE MainGetFb
    BY <2>8 DEF MainGetFb, MainGoto, FreeBuffers
  <2>9. CASE MainGrab
    <3>1. captured + 1 \in Nat
      OBVIOUS
    <3>2. img' \in [Slots -> Nat]
      BY <2>9, <3>1, UpdateType, Zenon DEF MainGrab
    <3>3. QED
      BY <2>9, <3>1, <3>2 DEF MainGrab, MainGoto
  <2>10. CASE MainPutFb
    BY <2>10 DEF MainPutFb, MainGoto
  <2>11. CASE MainPace
    BY <2>11 DEF MainPace, MainGoto
  <2>12. CASE MainLock
    BY <2>12 DEF MainLock, MainGoto
  <2>13. CASE MainDrain
    <3>1. buffers' \in [Slots -> {"null", "free", "busy"}]
      BY <2>13, UpdateType DEF MainDrain
    <3>2. QED
      BY <2>13, <3>1 DEF MainDrain, FreeBuffers
  <2>14. CASE MainUnmap
    <3>1. buffers' \in [Slots -> {"null", "free", "busy"}]
      BY <2>14, UpdateType DEF MainUnmap
    <3>2. ximg' \in [Slots -> BOOLEAN]
      BY <2>14, UpdateType, Zenon DEF MainUnmap
    <3>3. QED
      BY <2>14, <3>1, <3>2 DEF MainUnmap, MainGoto
  <2>15. CASE MainStopEnc
    BY <2>15 DEF MainStopEnc, MainGoto
  <2>16. CASE MainJoin
    BY <2>16 DEF MainJoin, MainGoto, NoCtx
  <2>17. CASE MainReleaseCap
    BY <2>17 DEF MainReleaseCap, MainGoto
  <2>18. CASE MainNull
    BY <2>18 DEF MainNull, MainGoto
  <2>19. CASE MainUnlock
    BY <2>19 DEF MainUnlock, MainGoto
  <2>20. CASE ConvExit
    BY <2>20 DEF ConvExit, ConvGoto
  <2>21. CASE ConvTake
    BY <2>21 DEF ConvTake, ConvGoto
  <2>22. CASE ConvType
    <3>1. av_frame' \in Frame
      BY <2>22, Zenon DEF ConvType, Frame
    <3>2. /\ vpc = "type" /\ vpc' = "clear"
          /\ UNCHANGED <<mainVars, objVars, poolVars, capVars, exit, ctx,
                         cur_buf_id, vbuf, force_key_frame, conv_over, encVars,
                         slotVars, netVars, captured, unlocked>>
      BY <2>22, Zenon DEF ConvType, ConvGoto
    <3>3. QED
      BY <3>1, <3>2
  <2>23. CASE ConvClear
    <3>1. force_key_frame' \in BOOLEAN
      BY <2>23, Zenon DEF ConvClear
    <3>2. QED
      BY <2>23, <3>1 DEF ConvClear, ConvGoto
  <2>24. CASE ConvScale
    <3>1. img[vbuf] \in Nat
      BY <2>24 DEF ConvScale, ConvGoto
    <3>2. av_frame' \in Frame
      BY <2>24, <3>1, Zenon DEF ConvScale, Frame
    <3>3. /\ vpc = "scaling" /\ vpc' = "wait"
          /\ UNCHANGED <<mainVars, objVars, poolVars, capVars, exit, ctx,
                         cur_buf_id, vbuf, force_key_frame, conv_over, encVars,
                         slotVars, netVars, captured, unlocked>>
      BY <2>24, Zenon DEF ConvScale, ConvGoto
    <3>4. QED
      BY <3>2, <3>3
  <2>25. CASE ConvHand
    BY <2>25 DEF ConvHand, ConvGoto
  <2>26. CASE ConvPut
    <3>1. buffers' \in [Slots -> {"null", "free", "busy"}]
      BY <2>26, UpdateType DEF ConvPut
    <3>2. CASE buffers[vbuf] = "null"
      BY <2>26, <3>1, <3>2 DEF ConvPut
    <3>3. CASE buffers[vbuf] # "null"
      BY <2>26, <3>1, <3>3 DEF ConvPut
    <3>4. QED
      BY <3>2, <3>3
  <2>27. CASE ConvClearCur
    BY <2>27 DEF ConvClearCur, ConvGoto
  <2>28. CASE EncExit
    BY <2>28 DEF EncExit, EncGoto
  <2>29. CASE EncSend
    BY <2>29 DEF EncSend, EncGoto, Frame
  <2>30. CASE EncRecv
    <3>1. conv_over' \in BOOLEAN
      BY <2>30, Zenon DEF EncRecv
    <3>2. QED
      BY <2>30, <3>1 DEF EncRecv
  <2>31. CASE EncCopy
    BY <2>31 DEF EncCopy, EncGoto
  <2>32. CASE EncPublish
    BY <2>32 DEF EncPublish, EncGoto
  <2>33. CASE BradcastTake
    BY <2>33 DEF BradcastTake
  <2>34. CASE BradcastSend
    BY <2>34 DEF BradcastSend
  <2>35. CASE BradcastReset
    <3>1. enc_data_len' \in BOOLEAN
      BY <2>35, Zenon DEF BradcastReset
    <3>2. QED
      BY <2>35, <3>1 DEF BradcastReset
  <2>36. ASSUME NEW t \in NetThreads, NetLock(t) PROVE TypeOK'
    BY <2>36 DEF NetLock, NetGoto
  <2>37. ASSUME NEW t \in NetThreads, NetSetBitRate(t) PROVE TypeOK'
    <3>1. bit_rate' \in Nat
      BY <2>37, RequestTyped DEF NetSetBitRate
    <3>2. npc' \in [NetThreads -> NetPC]
      BY <2>37, UpdateType, Zenon DEF NetSetBitRate, NetGoto
    <3>3. QED
      BY <2>37, <3>1, <3>2 DEF NetSetBitRate
  <2>38. ASSUME NEW t \in NetThreads, NetClamp(t) PROVE TypeOK'
    BY <2>38 DEF NetClamp, NetGoto
  <2>39. ASSUME NEW t \in NetThreads, NetSetFrameRate(t) PROVE TypeOK'
    <3>1. frame_rate' \in Nat
      BY <2>39, RequestTyped DEF NetSetFrameRate
    <3>2. npc' \in [NetThreads -> NetPC]
      BY <2>39, UpdateType, Zenon DEF NetSetFrameRate, NetGoto
    <3>3. QED
      BY <2>39, <3>1, <3>2 DEF NetSetFrameRate
  <2>40. ASSUME NEW t \in NetThreads, NetQuit(t) PROVE TypeOK'
    BY <2>40 DEF NetQuit, NetGoto, MayFault
  <2>41. ASSUME NEW t \in NetThreads, NetUseObject(t) PROVE TypeOK'
    BY <2>41 DEF NetUseObject, NetGoto, MayFault
  <2>42. ASSUME NEW t \in NetThreads, NetUnlock(t) PROVE TypeOK'
    BY <2>42 DEF NetUnlock, NetGoto, NoRequest
  <2>43. ASSUME NEW t \in NetThreads, NetTestEnc(t) PROVE TypeOK'
    BY <2>43 DEF NetTestEnc, NetGoto
  <2>44. ASSUME NEW t \in NetThreads, NetForce(t) PROVE TypeOK'
    BY <2>44 DEF NetForce, NetGoto, MayFault
  <2>45. ASSUME NEW t \in NetThreads, NetConnect(t) PROVE TypeOK'
    BY <2>45 DEF NetConnect, NetGoto
  <2>46. ASSUME NEW t \in NetThreads, NEW r \in Requests, NetReceive(t, r)
         PROVE TypeOK'
    BY <2>46 DEF NetReceive, NetGoto
  <2>47. CASE NetDisconnect
    BY <2>47 DEF NetDisconnect
  <2>48. CASE EncSendFail
    BY <2>48 DEF EncSendFail
  <2>49. CASE MainInitInput
    BY <2>49 DEF MainInitInput, MainGoto
  <2>50. CASE MainReleaseInput
    BY <2>50 DEF MainReleaseInput, MainGoto
  <2>51. CASE UNCHANGED vars
    BY <2>51
  <2>52. QED
    BY <2>1, <2>2, <2>3, <2>4, <2>5, <2>6, <2>7, <2>8, <2>9, <2>10, <2>11,
       <2>12, <2>13, <2>14, <2>15, <2>16, <2>17, <2>18, <2>19, <2>20,
       <2>21, <2>22, <2>23, <2>24, <2>25, <2>26, <2>27, <2>28, <2>29,
       <2>30, <2>31, <2>32, <2>33, <2>34, <2>35, <2>36, <2>37, <2>38,
       <2>39, <2>40, <2>41, <2>42, <2>43, <2>44, <2>45, <2>46, <2>47,
       <2>48, <2>49, <2>50, <2>51
       DEF Next, Main, Conv, Enc, Bradcast, NetHandle, Stopped
<1>3. QED
  BY <1>1, <1>2, PTL DEF Spec
-------------------------------------------------------------------------------
(***************************************************************************)
(* Buffers.  What is allocated is tied to the main thread's position, and  *)
(* what is busy to its two owners; counting is only needed while the pool  *)
(* is drained, when the main thread no longer knows which slot it frees.   *)
(***************************************************************************)
\* The allocated slots are a finite set.
LEMMA AllocatedFinite == IsFiniteSet(Allocated)
<1>1. IsFiniteSet(Slots)
  BY PoolAssumption, FS_Interval DEF Slots
<1>2. Allocated \in SUBSET Slots
  BY DEF Allocated
<1>3. QED
  BY <1>1, <1>2, FS_Subset, Zenon

\* A pool in which exactly the first BUFFERS slots are allocated has BUFFERS.
LEMMA AllocatedFull ==
  ASSUME \A b \in Slots : buffers[b] # "null" <=> b < BUFFERS
  PROVE  Cardinality(Allocated) = BUFFERS
<1>1. Allocated = 0 .. BUFFERS - 1
  BY PoolAssumption DEF Allocated, Slots
<1>2. Cardinality(0 .. BUFFERS - 1) = BUFFERS
  BY PoolAssumption, FS_Interval
<1>3. QED
  BY <1>1, <1>2

\* When the first i slots are allocated, the first empty slot is slot i.
LEMMA FirstEmpty ==
  ASSUME NEW i \in Slots, NEW b \in Slots,
         \A c \in Slots : buffers[c] # "null" <=> c < i,
         buffers[b] = "null",
         \A c \in Slots : c < b => buffers[c] # "null"
  PROVE  b = i
BY PoolAssumption DEF Slots

\* PoolInv is about nothing but these variables.
poolState == <<mpc, mbuf, idx, buffers, ximg, cur_buf_id, vpc, vbuf>>

\* The pool invariant holds in every reachable state.
THEOREM PoolCorrect == Spec => []PoolInv
<1> USE PoolAssumption DEF PoolInv, MainHolds, ConvHolds, InLoop, MainOwns,
        ConvOwns, NoBuf, Slots, Alive, Dead
<1>1. Init => PoolInv
  BY DEF Init
<1>2. TypeOK /\ PoolInv /\ [Next]_vars => PoolInv'
  <2> SUFFICES ASSUME TypeOK, PoolInv, [Next]_vars PROVE PoolInv'
    OBVIOUS
  <2> USE DEF TypeOK
  <2>1. CASE MainInitCap
    BY <2>1 DEF MainInitCap, MainGoto
  <2>2. CASE MainInitEnc
    BY <2>2 DEF MainInitEnc, MainGoto
  <2>3. CASE MainAlloc
    <3>1. CASE idx = BUFFERS
      BY <2>3, <3>1 DEF MainAlloc
    <3>2. CASE idx < BUFFERS
      <4>1. PICK b \in Slots :
              /\ buffers[b] = "null"
              /\ \A c \in Slots : c < b => buffers[c] # "null"
              /\ buffers' = [buffers EXCEPT ![b] = "free"]
              /\ ximg' = [ximg EXCEPT ![b] = TRUE]
              /\ idx' = idx + 1
              /\ UNCHANGED mpc
        BY <2>3, <3>2, Zenon DEF MainAlloc
      <4>2. idx \in Slots /\ mpc = "alloc"
        BY <2>3, <3>2 DEF MainAlloc
      <4>3. b = idx
        <5>1. /\ buffers[b] = "null"
              /\ \A c \in Slots : c < b => buffers[c] # "null"
          BY <4>1, Zenon
        <5>2. \A c \in Slots : buffers[c] # "null" <=> c < idx
          BY <4>2
        <5>3. QED
          BY <5>1, <5>2, <4>2, FirstEmpty, Zenon
      <4>4. UNCHANGED <<mbuf, cur_buf_id, vpc, vbuf>>
        BY <2>3 DEF MainAlloc
      <4>5. \A c \in Slots :
              buffers'[c] = IF c = idx THEN "free" ELSE buffers[c]
        BY <4>1, <4>3
      <4>6. \A c \in Slots : ximg'[c] <=> c = idx \/ ximg[c]
        BY <4>1, <4>3, Zenon
      <4>7. \A c \in Slots : ximg'[c] <=> buffers'[c] # "null"
        BY <4>5, <4>6
      <4>8. QED
        BY <4>1, <4>2, <4>4, <4>5, <4>7
    <3>3. QED
      BY <3>1, <3>2
  <2>4. CASE MainSetCap
    BY <2>4 DEF MainSetCap, MainGoto
  <2>5. CASE MainSetEnc
    BY <2>5 DEF MainSetEnc, MainGoto
  <2>6. CASE MainSetEncFail
    <3>1. Cardinality(Allocated') = BUFFERS - idx'
      BY <2>6, AllocatedFull DEF MainSetEncFail, MainGoto, Allocated
    <3>2. QED
      BY <2>6, <3>1 DEF MainSetEncFail, MainGoto
  <2>7. CASE MainLoop
    BY <2>7 DEF MainLoop
  <2>8. CASE MainGetFb
    <3>1. FreeBuffers # {}
      <4>1. 0 \in Slots /\ 1 \in Slots /\ buffers[0] # "null" /\ buffers[1] # "null"
        BY <2>8 DEF MainGetFb
      <4>2. buffers[0] # "busy" \/ buffers[1] # "busy"
        BY <2>8, <4>1 DEF MainGetFb
      <4>3. buffers[0] = "free" \/ buffers[1] = "free"
        BY Zenon, <4>1, <4>2
      <4>4. QED
        BY Zenon, <4>1, <4>3 DEF FreeBuffers
    <3>2. QED
      BY <2>8, <3>1 DEF MainGetFb, FreeBuffers
  <2>9. CASE MainGrab
    BY <2>9 DEF MainGrab, MainGoto
  <2>10. CASE MainPutFb
    BY <2>10 DEF MainPutFb, MainGoto
  <2>11. CASE MainPace
    BY <2>11 DEF MainPace
  <2>12. CASE MainLock
    <3>1. Cardinality(Allocated') = BUFFERS - idx'
      BY <2>12, AllocatedFull DEF MainLock, MainGoto, Allocated
    <3>2. QED
      BY <2>12, <3>1 DEF MainLock, MainGoto
  <2>13. CASE MainDrain
    <3>1. CASE idx = BUFFERS /\ mpc' = "rel_in"
      <4>1. Allocated = {}
        BY <2>13, <3>1, AllocatedFinite, FS_EmptySet DEF MainDrain
      <4>2. QED
        BY <2>13, <3>1, <4>1 DEF MainDrain, Allocated
    <3>2. CASE idx < BUFFERS /\ mpc' = "unmap"
      <4>1. Allocated' = Allocated
        BY <2>13, <3>2 DEF MainDrain, FreeBuffers, Allocated
      <4>2. QED
        BY <2>13, <3>2, <4>1 DEF MainDrain, FreeBuffers
    <3>3. CASE idx < BUFFERS /\ mpc' # "unmap"
      <4>1. /\ UNCHANGED <<mbuf, idx, buffers, ximg, cur_buf_id, vpc, vbuf>>
            /\ mpc = "drain" /\ mpc' \in {"drain", "exit_timeout"}
        BY <2>13, <3>3 DEF MainDrain
      <4>2. QED
        BY <4>1 DEF Allocated
    <3>4. QED
      BY <2>13, <3>1, <3>2, <3>3 DEF MainDrain
  <2>14. CASE MainUnmap
    <3>1. mbuf \in Allocated /\ Allocated' = Allocated \ {mbuf}
      BY <2>14 DEF MainUnmap, MainGoto, Allocated
    <3>2. Cardinality(Allocated') = Cardinality(Allocated) - 1
      BY <3>1, AllocatedFinite, FS_RemoveElement, Zenon
    <3>3. Cardinality(Allocated') = BUFFERS - idx'
      BY <2>14, <3>2 DEF MainUnmap, MainGoto
    <3>4. QED
      BY <2>14, <3>3 DEF MainUnmap, MainGoto
  <2>15. CASE MainStopEnc \/ MainReleaseInput
    BY <2>15 DEF MainStopEnc, MainReleaseInput, MainGoto
  <2>16. CASE MainJoin \/ MainInitInput
    <3>1. CASE MainJoin
      BY <3>1 DEF MainJoin, MainGoto
    <3>2. CASE MainInitInput
      BY <3>2 DEF MainInitInput, MainGoto
    <3>3. QED
      BY <2>16, <3>1, <3>2
  <2>17. CASE MainReleaseCap
    BY <2>17 DEF MainReleaseCap, MainGoto
  <2>18. CASE MainNull
    BY <2>18 DEF MainNull, MainGoto
  <2>19. CASE MainUnlock
    BY <2>19 DEF MainUnlock, MainGoto
  <2>20. CASE ConvExit
    BY <2>20 DEF ConvExit, ConvGoto, Allocated
  <2>21. CASE ConvTake
    BY <2>21 DEF ConvTake, ConvGoto, Allocated
  <2>22. CASE ConvType \/ ConvClear \/ ConvScale \/ ConvHand
    <3>1. /\ UNCHANGED <<mpc, mbuf, idx, buffers, ximg, cur_buf_id, vbuf>>
          /\ ConvHolds /\ vpc' \in {"clear", "scaling", "wait", "put"}
      BY <2>22 DEF ConvType, ConvClear, ConvScale, ConvHand, ConvGoto
    <3>2. QED
      BY <3>1 DEF Allocated
  <2>23. CASE ConvPut
    <3>1. buffers[vbuf] = "busy" /\ Allocated' = Allocated
      BY <2>23 DEF ConvPut, Allocated
    <3>2. QED
      BY <2>23, <3>1 DEF ConvPut
  <2>24. CASE ConvClearCur
    BY <2>24 DEF ConvClearCur, ConvGoto, Allocated
  <2>25. CASE mpc' \in Dead \ {"exit_get_fb", "exit_put_fb"}
              /\ UNCHANGED <<mbuf, idx, buffers, ximg, cur_buf_id, vpc, vbuf>>
    BY <2>25
  <2>26. CASE UNCHANGED poolState
    BY <2>26 DEF poolState, Allocated
  <2>27. CASE Enc
    BY <2>25, <2>26, <2>27 DEF Enc, EncExit, EncSend, EncSendFail, EncRecv,
       EncCopy, EncPublish, poolState
  <2>28. CASE Bradcast
    BY <2>26, <2>28 DEF Bradcast, BradcastTake, BradcastSend, BradcastReset,
       poolState
  <2>29. ASSUME NEW t \in NetThreads, NetHandle(t) PROVE PoolInv'
    <3>1. CASE NetQuit(t) \/ NetUseObject(t) \/ NetForce(t)
      BY <2>25, <2>26, <3>1 DEF NetQuit, NetUseObject, NetForce, MayFault,
         poolState
    <3>2. CASE \/ NetLock(t) \/ NetSetBitRate(t) \/ NetClamp(t)
               \/ NetSetFrameRate(t) \/ NetUnlock(t) \/ NetTestEnc(t)
      BY <2>26, <3>2 DEF NetLock, NetSetBitRate, NetClamp, NetSetFrameRate,
         NetUnlock, NetTestEnc, poolState
    <3>3. QED
      BY <2>29, <3>1, <3>2 DEF NetHandle
  <2>30. ASSUME NEW t \in NetThreads, NetConnect(t) PROVE PoolInv'
    BY <2>26, <2>30 DEF NetConnect, poolState
  <2>31. ASSUME NEW t \in NetThreads, NEW r \in Requests, NetReceive(t, r)
         PROVE PoolInv'
    BY <2>26, <2>31 DEF NetReceive, poolState
  <2>32. CASE NetDisconnect \/ UNCHANGED vars
    BY <2>26, <2>32 DEF NetDisconnect, poolState
  <2>33. QED
    BY <2>1, <2>2, <2>3, <2>4, <2>5, <2>6, <2>7, <2>8, <2>9, <2>10, <2>11,
       <2>12, <2>13, <2>14, <2>15, <2>16, <2>17, <2>18, <2>19, <2>20,
       <2>21, <2>22, <2>23, <2>24, <2>27, <2>28, <2>29, <2>30, <2>31, <2>32
       DEF Next, Main, Conv, Stopped
<1>3. QED
  BY <1>1, <1>2, TypeCorrect, PTL DEF Spec

\* The main thread and the converter never share a buffer, and only use
\* buffers that are allocated and mapped.
THEOREM OwnershipCorrect == Spec => []BufferOwnership
<1>1. TypeOK /\ PoolInv => BufferOwnership
  BY DEF TypeOK, PoolInv, BufferOwnership, MainHolds, ConvHolds, MainOwns,
     ConvOwns, NoBuf, Slots
<1>2. QED
  BY <1>1, TypeCorrect, PoolCorrect, PTL

\* The pool never runs dry in the capture loop, whatever its size above one.
THEOREM NeverStarvedCorrect == Spec => []NeverStarved
<1>1. PoolInv => NeverStarved
  BY DEF PoolInv, NeverStarved
<1>2. QED
  BY <1>1, PoolCorrect, PTL

\* The conversion thread is outside a conversion when it is joined.
THEOREM JoinCorrect == Spec => []JoinCannotHang
<1>1. TypeOK /\ PoolInv => JoinCannotHang
  BY DEF TypeOK, PoolInv, JoinCannotHang, ConvHolds, ConvOwns, NoBuf, Slots
<1>2. QED
  BY <1>1, TypeCorrect, PoolCorrect, PTL
-------------------------------------------------------------------------------
(***************************************************************************)
(* net_cb_lock.                                                            *)
(***************************************************************************)
\* LockInv is about nothing but these variables.
lockState == <<mpc, cap_obj, in_obj, net_cb_lock, npc, unlocked>>

\* The lock invariant holds in every reachable state.
THEOREM LockCorrect == Spec => []LockInv
<1> USE BoundsAssumption DEF LockInv, InSection, TearingDown
<1>1. Init => LockInv
  BY DEF Init
<1>2. TypeOK /\ LockInv /\ [Next]_vars => LockInv'
  <2> SUFFICES ASSUME TypeOK, LockInv, [Next]_vars PROVE LockInv'
    OBVIOUS
  <2> USE DEF TypeOK
  <2>1. CASE UNCHANGED lockState
    BY <2>1 DEF lockState
  <2>2. CASE /\ UNCHANGED <<cap_obj, in_obj, net_cb_lock, npc, unlocked>>
             /\ mpc' \notin {"lock", "null", "unlock"}
             /\ TearingDown' => TearingDown
    BY <2>2
  <2>3. CASE MainInitCap
    BY <2>3 DEF MainInitCap, MainGoto
  <2>4. CASE MainInitEnc
    BY <2>4 DEF MainInitEnc, MainGoto
  <2>5. CASE MainSetEncFail
    BY <2>5 DEF MainSetEncFail, MainGoto
  <2>6. CASE MainLock
    BY <2>6 DEF MainLock, MainGoto
  <2>7. CASE MainReleaseInput \/ MainInitInput
    BY <2>7 DEF MainReleaseInput, MainInitInput, MainGoto
  <2>8. CASE MainReleaseCap
    BY <2>8 DEF MainReleaseCap, MainGoto
  <2>9. CASE MainNull
    BY <2>9 DEF MainNull, MainGoto
  <2>10. CASE MainUnlock
    BY <2>10 DEF MainUnlock, MainGoto
  <2>11. CASE MainLoop
    BY <2>11 DEF MainLoop
  <2>12. CASE \/ MainAlloc \/ MainSetCap \/ MainSetEnc \/ MainGetFb \/ MainGrab
              \/ MainPutFb \/ MainPace \/ MainDrain \/ MainUnmap \/ MainStopEnc
              \/ MainJoin
    BY <2>2, <2>12 DEF MainAlloc, MainSetCap, MainSetEnc, MainGetFb, MainGrab,
       MainPutFb, MainPace, MainDrain, MainUnmap, MainStopEnc, MainJoin, MainGoto
  <2>13. CASE Conv
    BY <2>1, <2>2, <2>13 DEF Conv, ConvExit, ConvTake, ConvType, ConvClear,
       ConvScale, ConvHand, ConvPut, ConvClearCur, lockState
  <2>14. CASE Enc
    BY <2>1, <2>2, <2>14 DEF Enc, EncExit, EncSend, EncSendFail, EncRecv,
       EncCopy, EncPublish, lockState
  <2>15. CASE Bradcast \/ NetDisconnect \/ UNCHANGED vars
    BY <2>1, <2>15 DEF Bradcast, BradcastTake, BradcastSend, BradcastReset,
       NetDisconnect, lockState
  <2>16. ASSUME NEW t \in NetThreads, NetHandle(t) PROVE LockInv'
    <3>1. CASE NetLock(t)
      BY <3>1 DEF NetLock, NetGoto
    <3>2. CASE NetUnlock(t)
      BY <3>2 DEF NetUnlock, NetGoto
    <3>3. CASE NetSetBitRate(t) \/ NetClamp(t) \/ NetSetFrameRate(t)
      BY <3>3 DEF NetSetBitRate, NetClamp, NetSetFrameRate, NetGoto
    <3>4. CASE NetQuit(t) \/ NetUseObject(t)
      BY <3>4 DEF NetQuit, NetUseObject, NetGoto, MayFault
    <3>5. CASE NetTestEnc(t) \/ NetForce(t)
      BY <3>5 DEF NetTestEnc, NetForce, NetGoto, MayFault
    <3>6. QED
      BY <2>16, <3>1, <3>2, <3>3, <3>4, <3>5 DEF NetHandle
  <2>17. ASSUME NEW t \in NetThreads, NetConnect(t) PROVE LockInv'
    BY <2>17 DEF NetConnect, NetGoto
  <2>18. ASSUME NEW t \in NetThreads, NEW r \in Requests, NetReceive(t, r)
         PROVE LockInv'
    BY <2>18 DEF NetReceive, NetGoto
  <2>19. QED
    BY <2>3, <2>4, <2>5, <2>6, <2>7, <2>8, <2>9, <2>10, <2>11, <2>12, <2>13,
       <2>14, <2>15, <2>16, <2>17, <2>18 DEF Next, Main, Stopped
<1>3. QED
  BY <1>1, <1>2, TypeCorrect, PTL DEF Spec

\* The network callbacks exclude each other and never see a released object,
\* as long as no failed set-up has unlocked the mutex without locking it.
THEOREM HandlersCorrect == Spec => []HandlersSeeLiveObjects
<1>1. LockInv => HandlersSeeLiveObjects
  BY BoundsAssumption DEF LockInv, HandlersSeeLiveObjects, InSection
<1>2. QED
  BY <1>1, LockCorrect, PTL
-------------------------------------------------------------------------------
(***************************************************************************)
(* Settings.                                                               *)
(***************************************************************************)
\* SettingsInv is about nothing but these variables.
settingsState == <<mpc, cap_obj, quit, cap_rate, ctx, npc, bit_rate, frame_rate>>

\* The settings invariant holds in every reachable state.
THEOREM SettingsCorrect == Spec => []SettingsInv
<1> USE BoundsAssumption, SettingsAssumption
    DEF SettingsInv, Changing, SettingUp, InLoop
<1>1. Init => SettingsInv
  BY DEF Init
<1>2. TypeOK /\ SettingsInv /\ [Next]_vars => SettingsInv'
  <2> SUFFICES ASSUME TypeOK, SettingsInv, [Next]_vars PROVE SettingsInv'
    OBVIOUS
  <2> USE DEF TypeOK
  <2>1. CASE UNCHANGED settingsState
    BY <2>1 DEF settingsState
  <2>2. CASE /\ UNCHANGED <<cap_obj, quit, cap_rate, ctx, npc, bit_rate,
                            frame_rate>>
             /\ mpc' \in {"init_enc", "lock"} \/ SettingUp' \/ InLoop' =>
                  mpc \in {"init_enc", "lock"} \/ SettingUp \/ InLoop
             /\ mpc' = "set_enc" => mpc = "set_enc"
             /\ InLoop' => InLoop
    BY <2>2
  <2>3. CASE MainInitCap
    BY <2>3 DEF MainInitCap, MainGoto
  <2>4. CASE MainInitEnc
    BY <2>4 DEF MainInitEnc, MainGoto
  <2>5. CASE MainSetCap
    BY <2>5 DEF MainSetCap, MainGoto
  <2>6. CASE MainSetEnc
    BY <2>6 DEF MainSetEnc, MainGoto
  <2>7. CASE MainReleaseCap \/ MainNull \/ MainJoin \/ MainStopEnc
    BY <2>7 DEF MainReleaseCap, MainNull, MainJoin, MainStopEnc, MainGoto
  <2>8. CASE \/ MainAlloc \/ MainSetEncFail \/ MainLoop \/ MainGetFb
             \/ MainGrab \/ MainPutFb \/ MainPace \/ MainLock \/ MainDrain
             \/ MainUnmap \/ MainUnlock \/ MainInitInput \/ MainReleaseInput
    BY <2>2, <2>8 DEF MainAlloc, MainSetEncFail, MainLoop, MainGetFb, MainGrab,
       MainPutFb, MainPace, MainLock, MainDrain, MainUnmap, MainUnlock,
       MainInitInput, MainReleaseInput, MainGoto
  <2>9. CASE Conv
    BY <2>1, <2>2, <2>9 DEF Conv, ConvExit, ConvTake, ConvType, ConvClear,
       ConvScale, ConvHand, ConvPut, ConvClearCur, settingsState
  <2>10. CASE Enc
    BY <2>1, <2>2, <2>10 DEF Enc, EncExit, EncSend, EncSendFail, EncRecv,
       EncCopy, EncPublish, settingsState
  <2>11. CASE Bradcast \/ NetDisconnect \/ UNCHANGED vars
    BY <2>1, <2>11 DEF Bradcast, BradcastTake, BradcastSend, BradcastReset,
       NetDisconnect, settingsState
  <2>12. ASSUME NEW t \in NetThreads, NetHandle(t) PROVE SettingsInv'
    <3>1. CASE NetSetBitRate(t)
      BY <3>1 DEF NetSetBitRate, NetGoto
    <3>2. CASE NetClamp(t)
      BY <3>2 DEF NetClamp, NetGoto
    <3>3. CASE NetSetFrameRate(t)
      BY <3>3 DEF NetSetFrameRate, NetGoto
    <3>4. CASE NetQuit(t)
      BY <3>4 DEF NetQuit, NetGoto, MayFault
    <3>5. CASE \/ NetLock(t) \/ NetUseObject(t) \/ NetUnlock(t)
               \/ NetTestEnc(t) \/ NetForce(t)
      BY <3>5 DEF NetLock, NetUseObject, NetUnlock, NetTestEnc, NetForce,
         NetGoto, MayFault
    <3>6. QED
      BY <2>12, <3>1, <3>2, <3>3, <3>4, <3>5 DEF NetHandle
  <2>13. ASSUME NEW t \in NetThreads, NetConnect(t) PROVE SettingsInv'
    BY <2>13 DEF NetConnect, NetGoto
  <2>14. ASSUME NEW t \in NetThreads, NEW r \in Requests, NetReceive(t, r)
         PROVE SettingsInv'
    BY <2>14 DEF NetReceive, NetGoto
  <2>15. QED
    BY <2>3, <2>4, <2>5, <2>6, <2>7, <2>8, <2>9, <2>10, <2>11, <2>12, <2>13,
       <2>14 DEF Next, Main, Stopped
<1>3. QED
  BY <1>1, <1>2, TypeCorrect, PTL DEF Spec

\* A settings request that races the set-up of the pipeline is never lost.
THEOREM SettingsInForceCorrect == Spec => []SettingsInForce
<1>1. SettingsInv => SettingsInForce
  BY DEF SettingsInv, SettingsInForce, Changing, InLoop
<1>2. QED
  BY <1>1, SettingsCorrect, PTL

-------------------------------------------------------------------------------
(***************************************************************************)
(* The hand-over of packets to the broadcaster.                            *)
(***************************************************************************)
\* SlotInv is about nothing but these variables.
slotState == <<epc, enc_data, enc_data_len, bpc, produced, delivered>>

\* The slot invariant holds initially and is preserved.
LEMMA SlotInductive ==
  /\ Init => SlotInv
  /\ TypeOK /\ SlotInv /\ [Next]_vars => SlotInv'
<1> USE DEF SlotInv
<1>1. Init => SlotInv
  BY DEF Init
<1>2. TypeOK /\ SlotInv /\ [Next]_vars => SlotInv'
  <2> SUFFICES ASSUME TypeOK, SlotInv, [Next]_vars PROVE SlotInv'
    OBVIOUS
  <2> USE DEF TypeOK
  <2>1. CASE UNCHANGED slotState
    BY <2>1 DEF slotState
  <2>2. CASE MainInitEnc
    BY <2>2 DEF MainInitEnc
  <2>3. CASE EncExit \/ EncSend \/ EncRecv
    BY <2>3 DEF EncExit, EncSend, EncRecv, EncGoto
  <2>4. CASE EncCopy
    BY <2>4 DEF EncCopy, EncGoto
  <2>5. CASE EncPublish
    BY <2>5 DEF EncPublish, EncGoto
  <2>6. CASE BradcastTake
    BY <2>6 DEF BradcastTake
  <2>7. CASE BradcastSend
    BY <2>7 DEF BradcastSend
  <2>8. CASE BradcastReset
    BY <2>8 DEF BradcastReset
  <2>9. CASE Main /\ ~MainInitEnc
    BY <2>1, <2>9 DEF Main, MainInitCap, MainAlloc, MainSetCap, MainSetEnc,
       MainSetEncFail, MainLoop, MainGetFb, MainGrab, MainPutFb, MainPace,
       MainLock, MainDrain, MainUnmap, MainInitInput, MainReleaseInput,
       MainStopEnc, MainJoin, MainReleaseCap, MainNull, MainUnlock, slotState
  <2>10. CASE Conv \/ EncSendFail \/ NetDisconnect \/ UNCHANGED vars
    BY <2>1, <2>10 DEF Conv, ConvExit, ConvTake, ConvType, ConvClear, ConvScale,
       ConvHand, ConvPut, ConvClearCur, EncSendFail, NetDisconnect, slotState
  <2>11. ASSUME NEW t \in NetThreads, NEW r \in Requests, NetReceive(t, r)
         PROVE  SlotInv'
    BY <2>1, <2>11 DEF NetReceive, slotState
  <2>12. ASSUME NEW t \in NetThreads, NetHandle(t) \/ NetConnect(t)
         PROVE  SlotInv'
    BY <2>1, <2>12 DEF NetHandle, NetLock, NetSetBitRate, NetClamp,
       NetSetFrameRate, NetQuit, NetUseObject, NetUnlock, NetTestEnc, NetForce,
       NetConnect, slotState
  <2>13. QED
    BY <2>2, <2>3, <2>4, <2>5, <2>6, <2>7, <2>8, <2>9, <2>10, <2>11, <2>12
       DEF Next, Enc, Bradcast, Stopped
<1>3. QED
  BY <1>1, <1>2

\* on_enc_package never writes into a packet that is being broadcast, and the
\* broadcast packet is the next one.
THEOREM HandoverCorrect == Spec => []SlotHandover
<1>1. SlotInv => SlotHandover
  BY DEF SlotInv, SlotHandover
<1>2. QED
  BY <1>1, SlotInductive, TypeCorrect, PTL DEF Spec

\* The hand-over implements a FIFO of capacity one: publishing a packet is
\* Produce, broadcasting it is Deliver, every other step is a stutter.
THEOREM FifoCorrect == Spec => PacketFifo
<1>1. Init => Packets!Init
  BY DEF Init, Packets!Init
<1>2. TypeOK /\ SlotInv /\ [Next]_vars =>
        [Packets!Produce \/ Packets!Deliver]_<<produced, delivered>>
  <2> SUFFICES ASSUME TypeOK, SlotInv, [Next]_vars,
                      ~UNCHANGED <<produced, delivered>>
               PROVE  Packets!Produce \/ Packets!Deliver
    OBVIOUS
  <2>1. CASE EncPublish
    BY <2>1 DEF EncPublish, EncGoto, SlotInv, TypeOK, Packets!Produce
  <2>2. CASE BradcastSend
    BY <2>2 DEF BradcastSend, SlotInv, TypeOK, Packets!Deliver
  <2>3. CASE Main
    BY <2>3 DEF Main, MainInitCap, MainInitEnc, MainAlloc, MainSetCap,
       MainSetEnc, MainSetEncFail, MainLoop, MainGetFb, MainGrab, MainPutFb,
       MainPace, MainLock, MainDrain, MainUnmap, MainInitInput,
       MainReleaseInput, MainStopEnc, MainJoin, MainReleaseCap, MainNull,
       MainUnlock
  <2>4. CASE Conv \/ NetDisconnect \/ UNCHANGED vars
    BY <2>4 DEF Conv, ConvExit, ConvTake, ConvType, ConvClear, ConvScale,
       ConvHand, ConvPut, ConvClearCur, NetDisconnect
  <2>5. CASE EncExit \/ EncSend \/ EncSendFail \/ EncRecv \/ EncCopy
    BY <2>5 DEF EncExit, EncSend, EncSendFail, EncRecv, EncCopy
  <2>6. CASE BradcastTake \/ BradcastReset
    BY <2>6 DEF BradcastTake, BradcastReset
  <2>7. ASSUME NEW t \in NetThreads, NetHandle(t) \/ NetConnect(t)
        PROVE  FALSE
    BY <2>7 DEF NetHandle, NetLock, NetSetBitRate, NetClamp, NetSetFrameRate,
       NetQuit, NetUseObject, NetUnlock, NetTestEnc, NetForce, NetConnect
  <2>8. ASSUME NEW t \in NetThreads, NEW r \in Requests, NetReceive(t, r)
        PROVE  FALSE
    BY <2>8 DEF NetReceive
  <2>9. QED
    BY <2>1, <2>2, <2>3, <2>4, <2>5, <2>6, <2>7, <2>8
       DEF Next, Enc, Bradcast, Stopped
<1>3. QED
  BY <1>1, <1>2, SlotInductive, TypeCorrect, PTL
     DEF Spec, PacketFifo, Packets!Spec
-------------------------------------------------------------------------------
(***************************************************************************)
(* The order of the pictures.                                              *)
(***************************************************************************)
\* OrderInv is about nothing but these variables.
orderState == <<mpc, mbuf, img, exit, cur_buf_id, av_frame, conv_over, vpc,
                enc_in, captured>>

\* The order invariant holds initially and is preserved, given that no buffer
\* has two owners.
LEMMA OrderInductive ==
  /\ Init => OrderInv
  /\ TypeOK /\ PoolInv /\ OrderInv /\ [Next]_vars => OrderInv'
<1> USE PoolAssumption
    DEF OrderInv, SettingUp, MainHolds, ConvHolds, NoBuf, Slots, Frame
<1>1. Init => OrderInv
  BY DEF Init, NoFrame
<1>2. TypeOK /\ PoolInv /\ OrderInv /\ [Next]_vars => OrderInv'
  <2> SUFFICES ASSUME TypeOK, PoolInv, OrderInv, [Next]_vars PROVE OrderInv'
    OBVIOUS
  <2> USE DEF TypeOK
  <2>1. CASE UNCHANGED orderState
    BY <2>1 DEF orderState
  <2>2. CASE /\ UNCHANGED <<mbuf, img, exit, cur_buf_id, av_frame, conv_over,
                            vpc, enc_in, captured>>
             /\ mpc' # "put_fb"
             /\ SettingUp' => SettingUp
    BY <2>2
  <2>3. CASE MainInitEnc
    BY <2>3 DEF MainInitEnc, MainGoto
  <2>4. CASE MainSetEnc
    BY <2>4 DEF MainSetEnc, MainGoto, NoFrame
  <2>5. CASE MainGetFb \/ MainDrain \/ MainUnmap
    <3>1. /\ UNCHANGED <<img, exit, cur_buf_id, av_frame, conv_over, vpc, enc_in,
                         captured>>
          /\ mpc' # "put_fb" /\ ~SettingUp'
      BY <2>5 DEF MainGetFb, MainDrain, MainUnmap, MainGoto
    <3>2. QED
      BY <3>1
  <2>6. CASE MainGrab
    <3>1. mbuf \in Slots /\ (cur_buf_id = mbuf => vpc = "clear_cur")
      BY <2>6 DEF MainGrab, MainGoto, PoolInv, MainOwns, ConvOwns
    <3>2. /\ captured' = captured + 1
          /\ img'[mbuf] = captured + 1
          /\ \A b \in Slots : b # mbuf => img'[b] = img[b]
      BY <2>6, <3>1 DEF MainGrab
    <3>3. UNCHANGED <<mbuf, exit, cur_buf_id, av_frame, conv_over, vpc, enc_in>>
      BY <2>6 DEF MainGrab
    <3>4. mpc = "grab" /\ mpc' = "put_fb"
      BY <2>6 DEF MainGrab, MainGoto
    <3>5. QED
      BY <3>1, <3>2, <3>3, <3>4
  <2>7. CASE MainPutFb
    BY <2>7 DEF MainPutFb, MainGoto
  <2>8. CASE MainStopEnc
    BY <2>8 DEF MainStopEnc, MainGoto
  <2>9. CASE \/ MainInitCap \/ MainAlloc \/ MainSetCap \/ MainSetEncFail
             \/ MainLoop \/ MainPace \/ MainLock \/ MainJoin
             \/ MainReleaseCap \/ MainNull \/ MainUnlock \/ MainInitInput
             \/ MainReleaseInput
    BY <2>2, <2>9 DEF MainInitCap, MainAlloc, MainSetCap, MainSetEncFail,
       MainLoop, MainPace, MainLock, MainJoin, MainReleaseCap, MainNull,
       MainUnlock, MainInitInput, MainReleaseInput, MainGoto
  <2>10. CASE ConvExit \/ ConvTake
    <3>1. /\ UNCHANGED <<mpc, mbuf, img, exit, cur_buf_id, av_frame, conv_over,
                         enc_in, captured>>
          /\ vpc = "idle" /\ vpc' \in {"off", "type"}
          /\ exit \/ cur_buf_id # NoBuf
      BY <2>10 DEF ConvExit, ConvTake, ConvGoto
    <3>2. QED
      BY <3>1
  <2>11. CASE ConvType
    <3>1. av_frame'.img = av_frame.img
      BY <2>11, Zenon DEF ConvType
    <3>2. /\ vpc = "type" /\ vpc' = "clear"
          /\ UNCHANGED <<mpc, mbuf, img, exit, cur_buf_id, conv_over, enc_in,
                         captured>>
      BY <2>11, Zenon DEF ConvType, ConvGoto
    <3>3. QED
      BY <3>1, <3>2
  <2>12. CASE ConvClear
    BY <2>12 DEF ConvClear, ConvGoto
  <2>13. CASE ConvScale
    <3>1. av_frame'.img = img[vbuf]
      BY <2>13 DEF ConvScale
    <3>2. vbuf = cur_buf_id /\ cur_buf_id # NoBuf
      BY <2>13 DEF ConvScale, ConvGoto, PoolInv
    <3>3. /\ vpc = "scaling" /\ vpc' = "wait"
          /\ UNCHANGED <<mpc, mbuf, img, exit, cur_buf_id, conv_over, enc_in,
                         captured>>
      BY <2>13, Zenon DEF ConvScale, ConvGoto
    <3>4. QED
      BY <3>1, <3>2, <3>3
  <2>14. CASE ConvHand
    BY <2>14 DEF ConvHand, ConvGoto
  <2>15. CASE ConvPut
    BY <2>15 DEF ConvPut
  <2>16. CASE ConvClearCur
    BY <2>16 DEF ConvClearCur, ConvGoto
  <2>17. CASE EncSend
    BY <2>17 DEF EncSend, EncGoto
  <2>18. CASE EncRecv
    BY <2>18 DEF EncRecv
  <2>19. CASE EncExit \/ EncSendFail \/ EncCopy \/ EncPublish
    BY <2>1, <2>2, <2>19 DEF EncExit, EncSendFail, EncCopy, EncPublish,
       orderState
  <2>20. CASE Bradcast \/ NetDisconnect \/ UNCHANGED vars
    BY <2>1, <2>20 DEF Bradcast, BradcastTake, BradcastSend, BradcastReset,
       NetDisconnect, orderState
  <2>21. ASSUME NEW t \in NetThreads, NetHandle(t) \/ NetConnect(t)
         PROVE  OrderInv'
    BY <2>1, <2>2, <2>21 DEF NetHandle, NetLock, NetSetBitRate, NetClamp,
       NetSetFrameRate, NetQuit, NetUseObject, NetUnlock, NetTestEnc, NetForce,
       NetConnect, MayFault, orderState
  <2>22. ASSUME NEW t \in NetThreads, NEW r \in Requests, NetReceive(t, r)
         PROVE  OrderInv'
    BY <2>1, <2>22 DEF NetReceive, orderState
  <2>23. QED
    BY <2>3, <2>4, <2>5, <2>6, <2>7, <2>8, <2>9, <2>10, <2>11, <2>12, <2>13,
       <2>14, <2>15, <2>16, <2>17, <2>18, <2>19, <2>20, <2>21, <2>22
       DEF Next, Main, Conv, Enc, Stopped
<1>3. QED
  BY <1>1, <1>2

\* Only EncSend changes what the encoder was given, and what it is given then
\* is not older.
THEOREM FramesCorrect == Spec => FramesInOrder
<1>1. TypeOK /\ OrderInv /\ [Next]_vars => [enc_in.img <= enc_in'.img]_vars
  <2> SUFFICES ASSUME TypeOK, OrderInv, Next PROVE enc_in.img <= enc_in'.img
    BY DEF TypeOK, Frame
  <2>1. CASE EncSend
    BY <2>1 DEF EncSend, OrderInv
  <2>2. CASE UNCHANGED enc_in
    BY <2>2 DEF TypeOK, Frame
  <2>3. CASE Main
    BY <2>2, <2>3 DEF Main, MainInitCap, MainInitEnc, MainAlloc, MainSetCap,
       MainSetEnc, MainSetEncFail, MainLoop, MainGetFb, MainGrab, MainPutFb,
       MainPace, MainLock, MainDrain, MainUnmap, MainInitInput,
       MainReleaseInput, MainStopEnc, MainJoin, MainReleaseCap, MainNull,
       MainUnlock
  <2>4. CASE Conv \/ NetDisconnect \/ Bradcast \/ UNCHANGED vars
    BY <2>2, <2>4 DEF Conv, ConvExit, ConvTake, ConvType, ConvClear, ConvScale,
       ConvHand, ConvPut, ConvClearCur, NetDisconnect, Bradcast, BradcastTake,
       BradcastSend, BradcastReset
  <2>5. CASE EncExit \/ EncSendFail \/ EncRecv \/ EncCopy \/ EncPublish
    BY <2>2, <2>5 DEF EncExit, EncSendFail, EncRecv, EncCopy, EncPublish
  <2>6. ASSUME NEW t \in NetThreads, NetHandle(t) \/ NetConnect(t)
        PROVE  UNCHANGED enc_in
    BY <2>6 DEF NetHandle, NetLock, NetSetBitRate, NetClamp, NetSetFrameRate,
       NetQuit, NetUseObject, NetUnlock, NetTestEnc, NetForce, NetConnect
  <2>7. ASSUME NEW t \in NetThreads, NEW r \in Requests, NetReceive(t, r)
        PROVE  UNCHANGED enc_in
    BY <2>7 DEF NetReceive
  <2>8. QED
    BY <2>1, <2>2, <2>3, <2>4, <2>5, <2>6, <2>7 DEF Next, Enc, Stopped
<1>2. QED
  BY <1>1, OrderInductive, TypeCorrect, PoolCorrect, PTL
     DEF Spec, FramesInOrder
===============================================================================
