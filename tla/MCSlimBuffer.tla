---------------------------- MODULE MCSlimBuffer ----------------------------
(***************************************************************************)
(* SlimBuffer on small instances.                                          *)
(***************************************************************************)
EXTENDS SlimBuffer
=============================================================================
