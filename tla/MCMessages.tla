------------------------------ MODULE MCMessages ------------------------------
(***************************************************************************)
(* Instances of Messages for TLC: a byte has few values.                   *)
(***************************************************************************)
EXTENDS Messages

\* The empty text, and one of two characters.
TwoTexts == {<<>>, <<1, 1>>}

\* Before and after the overflow of a u32.
SomeTimes == {0, U32 + 1}

\* One CRLF or byte, and more CRLFs than a u8 counts.
SomeCounts == {1, Base + 1}

\* A buffer half full; at first it is empty.
SomeFills == {<<2, 1>>}

\* A frame with one byte set behind the sub-command.
Body(n, sub, at, v) == [b \in 1 .. n |-> IF b = at THEN v ELSE IF b = 1 THEN sub ELSE 0]

\* Every command, sub-command and length; and every byte of a frame with every
\* value up to one more than the longest match knows, with and without headers.
SomeFrames ==
  [cmd : DOMAIN Checks \cup {"vers"}, body : {Body(n, sub, 0, 0) : n \in 0 .. 26, sub \in 0 .. 7}]
  \cup UNION {[cmd : {Heads[k][1]},
               body : {Body(Heads[k][3] + n, Heads[k][2], at, v) :
                         n \in {0, 2}, at \in 1 .. Heads[k][3], v \in 0 .. 11}] : k \in DOMAIN Heads}
=============================================================================
