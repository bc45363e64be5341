------------------------------- MODULE MCFrames -------------------------------
(***************************************************************************)
(* Instances of Frames for TLC.                                            *)
(***************************************************************************)
EXTENDS Frames

Frame(c, n, k) == [cmd |-> c, size |-> n, known |-> k]

\* Short frames of the protocol, at and below the length the parser
\* needs, one too short for a command name, and an empty one.
GoodAndBad ==
  {Frame("aude", 6, TRUE), Frame("aude", 5, TRUE), Frame("setd", 5, TRUE),
   Frame("other", 4, TRUE), Frame("other", 3, TRUE), Frame("other", 0, TRUE),
   Frame("strm", 28, TRUE), Frame("strm", 28, FALSE)}

=============================================================================
