------------------------------ MODULE AudioOutput ------------------------------
(***************************************************************************)
(* What an output (the trait of vibe/src/audio_out.rs) promises the event  *)
(* loop about the messages it posts, per stream: at most one               *)
(* StreamEstablished, TrackStarted and EndOfDecode, in their order;        *)
(* Drained only for a stream whose decoding has ended (or failed), only    *)
(* when every stream handed over before it is done with, and once unless   *)
(* the stream is resumed after it; nothing once the stream has left.       *)
(***************************************************************************)
EXTENDS Naturals

CONSTANTS
  Streams,          \* streams 1 .. Streams, in the order they are handed over
  EstablishedFirst  \* StreamEstablished precedes TrackStarted

Ids == 1 .. Streams

\* told[s]: how often StreamEstablished, TrackStarted and EndOfDecode were
\* posted, whether NotSupported was, whether the stream is reported as drained,
\* and whether it has left the output.
VARIABLE told

Silent ==
  [est |-> 0, start |-> 0, eod |-> 0, bad |-> FALSE, drained |-> FALSE, gone |-> FALSE]

Told ==
  [est : Nat, start : Nat, eod : Nat, bad : BOOLEAN, drained : BOOLEAN, gone : BOOLEAN]

\* Nothing more is told of a stream that has left, and what was is forgotten.
Finished == [Silent EXCEPT !.gone = TRUE]

Init == told = [s \in Ids |-> Silent]

Done(s) == told[s].drained \/ told[s].gone

Establish(s) ==
  /\ ~told[s].gone /\ told[s].est = 0
  /\ told' = [told EXCEPT ![s].est = 1]

Start(s) ==
  /\ ~told[s].gone /\ told[s].start = 0
  /\ EstablishedFirst => told[s].est = 1
  /\ told' = [told EXCEPT ![s].start = 1]

EndDecode(s) ==
  /\ ~Done(s) /\ told[s].start = 1 /\ told[s].eod = 0
  /\ told' = [told EXCEPT ![s].eod = 1]

Drain(s) ==
  /\ ~Done(s) /\ told[s].start = 1
  /\ told[s].eod = 1 \/ told[s].bad
  /\ \A r \in 1 .. s - 1 : Done(r)
  /\ told' = [told EXCEPT ![s].drained = TRUE]

\* A track that had ended is resumed before the event loop has moved on: its
\* end may be reported again.
Resume(s) ==
  /\ told[s].drained /\ ~told[s].gone
  /\ told' = [told EXCEPT ![s].drained = FALSE]

Fail(s) ==
  /\ ~told[s].gone
  /\ told' = [told EXCEPT ![s].bad = TRUE]

\* Streams are refused, shifted out, stopped or replaced.
Leave(left) ==
  /\ \A s \in left : ~told[s].gone
  /\ told' = [s \in Ids |-> IF s \in left THEN Finished ELSE told[s]]

Next ==
  \/ \E s \in Ids :
        Establish(s) \/ Start(s) \/ EndDecode(s) \/ Drain(s) \/ Resume(s) \/ Fail(s)
  \/ \E left \in SUBSET Ids : Leave(left)

Spec == Init /\ [][Next]_told

=============================================================================
