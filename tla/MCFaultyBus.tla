---------------------------- MODULE MCFaultyBus ----------------------------
(* Instances of FaultyBus for TLC.                                         *)
EXTENDS FaultyBus

AllModes == [sender : Impls, receiver : Impls, kind : Kinds]
=============================================================================
