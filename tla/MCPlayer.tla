------------------------------- MODULE MCPlayer -------------------------------
(***************************************************************************)
(* An instance of Player for TLC.                                          *)
(***************************************************************************)
EXTENDS Player

\* The first stream with or without autostart, those after it with.
FirstEither == [s \in Ids |-> IF s = 1 THEN BOOLEAN ELSE {TRUE}]
=============================================================================
