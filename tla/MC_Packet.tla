----------------------------- MODULE MC_Packet -----------------------------
(***************************************************************************)
(* Instances of PacketProto for TLC.                                       *)
(***************************************************************************)
EXTENDS PacketProto

CONSTANTS HostMsgs, TermMsgs
MCMaxMsgs == [e \in Ends |-> IF e = "host" THEN HostMsgs ELSE TermMsgs]
=============================================================================
