----------------------------- MODULE MCPipewireOut -----------------------------
(***************************************************************************)
(* Instances of PipewireOut for TLC.                                       *)
(***************************************************************************)
EXTENDS PipewireOut

\* First an empty track, or one whose decoder fails after it has filled the
\* buffer; then one that is longer than the buffer and ends as it should.
TwoTracks == <<{<<0, "eof">>, <<1, "error">>}, {<<2, "eof">>}>>
=============================================================================
