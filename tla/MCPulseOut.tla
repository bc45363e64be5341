------------------------------ MODULE MCPulseOut ------------------------------
(***************************************************************************)
(* Instances of PulseOut for TLC.  PacketSize does not divide PulseBuffer, *)
(* so that a request ends in the middle of a packet.                       *)
(***************************************************************************)
EXTENDS PulseOut
=============================================================================
