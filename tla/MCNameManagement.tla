-------------------------- MODULE MCNameManagement --------------------------
(* Instances of NameManagement for TLC.                                    *)
EXTENDS NameManagement
=============================================================================
