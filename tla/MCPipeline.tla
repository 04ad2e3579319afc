------------------------------ MODULE MCPipeline ------------------------------
(***************************************************************************)
(* Small instances of Pipeline: two buffers, one or two network threads.   *)
(***************************************************************************)
EXTENDS PipelineInv

MCBitRates  == {1, 3}
MCHighBitRate == {3}
MCFrameRatesZero == {0, 300}
MCNoRates == {}
MCLiveFrameRates == {60}
===============================================================================
