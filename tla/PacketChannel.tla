---------------------------- MODULE PacketChannel -----------------------------
(***************************************************************************)
(* What a hand-over of numbered packets between two threads promises: the  *)
(* n-th packet produced is the n-th delivered, none is lost, repeated or   *)
(* overtaken, and at most Capacity packets are under way.                  *)
(***************************************************************************)
EXTENDS Naturals

CONSTANT Capacity

VARIABLES produced, delivered

Init == produced = 0 /\ delivered = 0

Produce ==
  /\ produced < delivered + Capacity
  /\ produced' = produced + 1
  /\ UNCHANGED delivered

Deliver ==
  /\ delivered < produced
  /\ delivered' = delivered + 1
  /\ UNCHANGED produced

Spec == Init /\ [][Produce \/ Deliver]_<<produced, delivered>>
===============================================================================
