---------------------------- MODULE MCSuccession ----------------------------
(* Instances of Succession for TLC.                                        *)
EXTENDS Succession
=============================================================================
