------------------------------ MODULE MCSession ------------------------------
(***************************************************************************)
(* Session on small instances: two generations of threads for a loss and a *)
(* switch, and two servers only where it matters which one is used.        *)
(***************************************************************************)
EXTENDS Session
=============================================================================
