--------------------------- MODULE MCSendReceive ---------------------------
(* Instances of SendReceive for TLC.                                       *)
EXTENDS SendReceive

AllModes == [sender : Impls, receiver : Impls, kind : Kinds]
=============================================================================
