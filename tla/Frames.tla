-------------------------------- MODULE Frames --------------------------------
(***************************************************************************)
(* lms-proto/src/frames.rs: LMSRecv, which cuts the byte stream of the     *)
(* server into frames (a 16-bit length, then that many bytes) and each     *)
(* frame into a ServerMessage (messages.rs), and LMSSend, which writes a   *)
(* message in as many pieces as the socket takes.                          *)
(*                                                                         *)
(* A byte is known as byte `at` of frame `of`, and has a value in the      *)
(* length field.  What is in a frame is a record: its command, the length  *)
(* of its payload, and whether the enumerated fields of a stream command   *)
(* have values the parser knows.                                           *)
(***************************************************************************)
EXTENDS Integers, Sequences

CONSTANTS
  Catalog,    \* the frames a server may send: [cmd, size, known]
  MaxFrames,  \* bound: frames the server sends
  MaxRead,    \* the most one read of the socket returns
  MaxSends,   \* bound: messages the player sends
  SendSize    \* length of a message it sends

\* Values of a byte, and what the length field of two can say.
Octet == 256
FrameSizes == 0 .. Octet * Octet - 1

Commands == {"serv", "strm", "aude", "audg", "setd", "other"}

ASSUME FramesAssumption ==
  /\ Catalog \subseteq [cmd : Commands, size : FrameSizes, known : BOOLEAN]
  /\ MaxFrames \in Nat /\ MaxRead \in Nat \ {0} /\ MaxSends \in Nat /\ SendSize \in Nat \ {0}

VARIABLES
  frames,     \* what the server has sent
  start,      \* start[i]: bytes of the stream before frame i
  stream,     \* the bytes of the frames, one after the other
  got,        \* bytes of them that have been read
  buf,        \* LMSRecv::buf
  batch,      \* the messages decoded in this call
  pc,         \* recv: "read", "decode", or how it ended, "error" or "panic"
  received,   \* messages returned by recv
  sends,      \* messages given to LMSSend
  off,        \* bytes written of the last one, or SendSize when it is done
  out,        \* bytes written to the socket
  sendOk      \* FALSE once send has failed

streamVars == <<frames, start, stream>>
recvVars == <<streamVars, got, buf, batch, pc, received>>
sendVars == <<sends, off, out, sendOk>>
framesVars == <<recvVars, sendVars>>

FramesInit ==
  /\ frames = <<>> /\ start = <<>> /\ stream = <<>>
  /\ got = 0 /\ buf = <<>> /\ batch = <<>> /\ pc = "read" /\ received = <<>>
  /\ sends = 0 /\ off = SendSize /\ out = <<>> /\ sendOk = TRUE

-----------------------------------------------------------------------------
(* The byte stream of the server (external)                                *)

\* Byte k of frame i, of n bytes: the two of the length field, then the payload.
Byte(i, n, k) ==
  [of |-> i, at |-> k,
   value |-> IF k = 1 THEN n \div Octet ELSE IF k = 2 THEN n % Octet ELSE 0]

Payload(i) == [k \in 1 .. frames[i].size |-> Byte(i, frames[i].size, k + 2)]

\* Where frame i ends.
End(i) == start[i] + 2 + frames[i].size

\* The server sends a frame.
ServerSends(f) ==
  /\ Len(frames) < MaxFrames
  /\ frames' = Append(frames, f)
  /\ start' = Append(start, Len(stream))
  /\ stream' = stream \o [k \in 1 .. f.size + 2 |-> Byte(Len(frames) + 1, f.size, k)]
  /\ UNCHANGED <<got, buf, batch, pc, received, sendVars>>

-----------------------------------------------------------------------------
(* ServerMessage::from                                                     *)

\* The shortest payload each command needs after its four-letter name.
MinBody == [serv |-> 4, strm |-> 24, aude |-> 2, audg |-> 18, setd |-> 1, other |-> 0]

\* Splitting the name off a shorter payload panics.
Verdict(payload) ==
  IF Len(payload) < 4 THEN "panic"
  ELSE LET f == frames[payload[1].of] IN
       IF Len(payload) - 4 < MinBody[f.cmd] \/ ~f.known THEN "Error" ELSE "message"

-----------------------------------------------------------------------------
(* LMSRecv::recv and decode                                                *)

\* read returns some bytes; WouldBlock and Interrupted try again.
Read(n) ==
  /\ pc = "read"
  /\ n <= Len(stream) - got
  /\ buf' = buf \o SubSeq(stream, got + 1, got + n)
  /\ got' = got + n
  /\ pc' = "decode"
  /\ UNCHANGED <<streamVars, batch, received, sendVars>>

\* read returns nothing, or fails: the server has gone.
ReadFails ==
  /\ pc = "read" /\ pc' = "error"
  /\ UNCHANGED <<streamVars, got, buf, batch, received, sendVars>>

\* The length field, big endian.
FrameSize == Octet * buf[1].value + buf[2].value

\* There is a whole frame.
Complete == Len(buf) > 2 /\ Len(buf) >= FrameSize + 2

\* Mutant: what follows a frame is thrown away with it.
RestDropped(n) == <<>>

\* The buffer after a frame of n bytes has been split off.
Rest(n) == SubSeq(buf, n + 3, Len(buf))

DecodeFrame ==
  LET payload == SubSeq(buf, 3, FrameSize + 2)
      result  == Verdict(payload)
  IN
  /\ pc = "decode" /\ Complete
  /\ CASE result = "message" ->
            /\ batch' = Append(batch, payload)
            /\ buf' = Rest(FrameSize)
            /\ UNCHANGED pc
       [] result = "Error" -> batch' = <<>> /\ buf' = <<>> /\ pc' = "error"
       [] OTHER            -> pc' = "panic" /\ UNCHANGED <<batch, buf>>
  /\ UNCHANGED <<streamVars, got, received, sendVars>>

\* Mutant: decode returns after the first frame.
LeaveAtOnce == ~Complete \/ batch # <<>>

\* The loop of decode ends.
Leave == ~Complete

\* No whole frame is left: return what there is, or read on.
DecodeRest ==
  /\ pc = "decode" /\ Leave
  /\ received' = received \o batch
  /\ batch' = <<>>
  /\ pc' = "read"
  /\ UNCHANGED <<streamVars, got, buf, sendVars>>

-----------------------------------------------------------------------------
(* LMSSend::send                                                           *)

SendNext ==
  /\ sendOk /\ off = SendSize /\ sends < MaxSends
  /\ sends' = sends + 1 /\ off' = 0
  /\ UNCHANGED <<recvVars, out, sendOk>>

\* Mutant: a short write is taken for a whole one.
OffWhole(n) == SendSize

\* How far the message has got after n more bytes.
Off(n) == off + n

\* write takes some of what is left; WouldBlock and Interrupted try again.
WriteSome(n) ==
  /\ sendOk /\ n <= SendSize - off
  /\ out' = out \o [k \in 1 .. n |-> [of |-> sends, at |-> off + k]]
  /\ off' = Off(n)
  /\ UNCHANGED <<recvVars, sends, sendOk>>

\* write takes nothing, or fails: give the message up.
WriteFails ==
  /\ sendOk /\ off < SendSize
  /\ sendOk' = FALSE
  /\ UNCHANGED <<recvVars, sends, off, out>>

-----------------------------------------------------------------------------

FramesNext ==
  \/ \E f \in Catalog : ServerSends(f)
  \/ \E n \in 1 .. MaxRead : Read(n)
  \/ ReadFails \/ DecodeFrame \/ DecodeRest
  \/ SendNext \/ WriteFails \/ \E n \in 1 .. SendSize : WriteSome(n)

FramesSpec == FramesInit /\ [][FramesNext]_framesVars

-----------------------------------------------------------------------------

Bytes == [of : 1 .. MaxFrames, at : Nat, value : 0 .. Octet - 1]

\* Types; the write offset of send stays within the message it slices.
FramesTypeOK ==
  /\ frames \in Seq(Catalog) /\ Len(frames) <= MaxFrames
  /\ start \in Seq(Nat) /\ Len(start) = Len(frames)
  /\ stream \in Seq(Bytes) /\ got \in 0 .. Len(stream)
  /\ buf \in Seq(Bytes) /\ batch \in Seq(Seq(Bytes)) /\ received \in Seq(Seq(Bytes))
  /\ pc \in {"read", "decode", "error", "panic"}
  /\ sends \in 0 .. MaxSends /\ off \in 0 .. SendSize /\ sendOk \in BOOLEAN
  /\ out \in Seq([of : 1 .. MaxSends, at : 1 .. SendSize])

\* However the stream is cut into reads, recv returns the frames of the server
\* whole, in order and none twice.
FramesIntact ==
  /\ Len(received) <= Len(frames)
  /\ \A i \in DOMAIN received : received[i] = Payload(i)

\* recv never blocks in read with a message in its buffer: every frame that
\* has arrived in full has been returned.  An empty frame is the exception: it
\* is not looked at before the byte that follows it.
NothingWaits ==
  pc = "read" =>
    \A i \in DOMAIN frames : frames[i].size > 0 /\ End(i) <= got => i <= Len(received)

\* Messages go out whole, in order and unbroken, however short the writes; a
\* message is given up only in its place at the end.
SentInOrder ==
  /\ Len(out) = IF sends = 0 THEN 0 ELSE (sends - 1) * SendSize + off
  /\ \A m \in 1 .. sends, k \in 1 .. SendSize :
       LET b == (m - 1) * SendSize + k
       IN  b <= Len(out) => out[b] = [of |-> m, at |-> k]

=============================================================================
