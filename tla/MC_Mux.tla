------------------------------- MODULE MC_Mux -------------------------------
(***************************************************************************)
(* Instances of MuxLayer for TLC.                                          *)
(***************************************************************************)
EXTENDS MuxLayer

CONSTANTS HostMsgs, Big                 \* Big: the packets of two units
MCMaxMsgs == [e \in Ends |-> IF e = "host" THEN HostMsgs ELSE 0]
MCPacketSize == [n \in 1..HostMsgs |-> IF n \in Big THEN 2 ELSE 1]
=============================================================================
