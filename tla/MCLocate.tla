------------------------------- MODULE MCLocate -------------------------------
(***************************************************************************)
(* Instances of Locate for TLC.                                            *)
(***************************************************************************)
EXTENDS Locate
=============================================================================
