------------------------------ MODULE ReadAhead ------------------------------
(***************************************************************************)
(* What a read-ahead pipe promises its reader, whatever threads implement  *)
(* it: the bytes handed out are the source's bytes, in order, each once;   *)
(* at most Window bytes are held back at any time; the reader hears of the *)
(* end only when nothing is left, and hears of a failed source once, as an *)
(* error, before it hears the end of file.                                 *)
(*                                                                         *)
(* The i-th byte of the source is the number i, so order, loss and         *)
(* duplication are all visible in the sequences.                           *)
(***************************************************************************)
EXTENDS Integers, Sequences

CONSTANTS
  Window,     \* most bytes accepted from the source and not yet handed out
  MaxSource   \* length of the longest source considered

VARIABLES
  accepted,   \* bytes taken from the source so far
  handed,     \* bytes given to the reader so far
  end,        \* "open", or how the source ended: "eof" or "error"
  errors,     \* how many times the reader was given the source's error
  ended       \* whether the reader was told the end of file

vars == <<accepted, handed, end, errors, ended>>

\* The n source bytes that follow the first m.
Bytes(m, n) == [i \in 1 .. n |-> m + i]

Init ==
  /\ accepted = << >>
  /\ handed = << >>
  /\ end = "open"
  /\ errors = 0
  /\ ended = FALSE

\* Some more of the source is taken in.
Accept ==
  /\ end = "open"
  /\ \E n \in Len(accepted) + 1 .. MaxSource :
        /\ n - Len(handed) <= Window
        /\ accepted' = Bytes(0, n)
  /\ UNCHANGED <<handed, end, errors, ended>>

\* The source ends or fails; nothing is accepted afterwards.
Finish ==
  /\ end = "open"
  /\ end' \in {"eof", "error"}
  /\ UNCHANGED <<accepted, handed, errors, ended>>

\* The reader gets the next bytes, in the order of the source.
Hand ==
  /\ \E n \in Len(handed) + 1 .. Len(accepted) : handed' = SubSeq(accepted, 1, n)
  /\ UNCHANGED <<accepted, end, errors, ended>>

\* The reader is given the source's error, once and before any end of file.
TellError ==
  /\ end = "error" /\ errors = 0
  /\ handed = accepted
  /\ errors' = 1
  /\ UNCHANGED <<accepted, handed, end, ended>>

\* The reader is told the end of file, as often as it asks.
TellEnd ==
  /\ end = "eof" \/ (end = "error" /\ errors = 1)
  /\ handed = accepted
  /\ ended' = TRUE
  /\ UNCHANGED <<accepted, handed, end, errors>>

Next == Accept \/ Finish \/ Hand \/ TellError \/ TellEnd

Spec == Init /\ [][Next]_vars

=============================================================================
