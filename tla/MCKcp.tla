------------------------------- MODULE MCKcp -------------------------------
(***************************************************************************)
(* Instances of Kcp for TLC: the client sends, the server only answers.    *)
(***************************************************************************)
EXTENDS Kcp

MCEnds == {"client", "server"}
MCMaxSent == [e \in MCEnds |-> IF e = "client" THEN 2 ELSE 0]
=============================================================================
