------------------------------ MODULE MC_Proc ------------------------------
(***************************************************************************)
(* Instances of Proc for TLC: the settings that programs make.             *)
(***************************************************************************)
EXTENDS Proc

CONSTANTS Caught, Held      \* the signals programs may set to CATCH, to HOLD
MCSettable == (Caught \X {"CATCH"}) \cup (Held \X {"HOLD"})
=============================================================================
