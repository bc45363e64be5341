------------------------------ MODULE MCRodioOut ------------------------------
(***************************************************************************)
(* Instances of RodioOut for TLC.                                          *)
(***************************************************************************)
EXTENDS RodioOut

\* An empty track, one that needs a second refill before its frame is empty,
\* and one whose decoder fails.
ThreeTracks == {<<0, "eof">>, <<2 * Min + 1, "eof">>, <<1, "error">>}
=============================================================================
