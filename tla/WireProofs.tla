------------------------------ MODULE WireProofs ------------------------------
(***************************************************************************)
(* Proofs about what goes over the connection with the server.             *)
(*                                                                         *)
(* Frames: whatever frames the server sends, up to the 65535 bytes a       *)
(* length field allows, and however reads and writes are cut.  The receive *)
(* buffer is at all times the part of the stream between the end of the    *)
(* last frame taken and the last byte read; so what decode takes for a     *)
(* length field is one.                                                    *)
(*                                                                         *)
(* Messages: whatever the player counts and sends and whatever is in a     *)
(* frame.  What is written field after field is read by its place, and     *)
(* what is split off field after field is what was put there.              *)
(***************************************************************************)
EXTENDS Frames, Messages, SequenceTheorems, TLAPS

\* Bytes of the stream up to the end of frame i.
Before(i) == IF i = 0 THEN 0 ELSE End(i)

\* Frames taken off the buffer, and the bytes they had in the stream.
Taken == Len(received) + Len(batch)
Done == Before(Taken)

\* The stream is the frames, one after the other.
StreamInv ==
  /\ Len(stream) = Before(Len(frames))
  /\ \A i \in 1 .. Len(frames) : start[i] = Before(i - 1) /\ End(i) <= Len(stream)
  /\ \A i, j \in 1 .. Len(frames) : i < j => End(i) <= start[j]
  /\ \A i \in 1 .. Len(frames), k \in Nat :
       1 <= k /\ k <= frames[i].size + 2 => stream[start[i] + k] = Byte(i, frames[i].size, k)

\* The buffer is what has been read and not taken.
BufInv ==
  pc \in {"read", "decode"} =>
    /\ Taken <= Len(frames) /\ Done <= got /\ Len(buf) = got - Done
    /\ \A j \in 1 .. Len(buf) : buf[j] = stream[Done + j]

\* What has been taken and is not yet returned is whole, too.
BatchInv ==
  /\ pc \in {"read", "decode"} =>
       \A i \in 1 .. Len(batch) : batch[i] = Payload(Len(received) + i)
  /\ pc = "read" => batch = << >>

\* Before the first message there is nothing to write.
SendInv == sends = 0 => off = SendSize

IInv ==
  /\ FramesTypeOK /\ StreamInv /\ BufInv /\ BatchInv /\ FramesIntact /\ NothingWaits
  /\ SendInv /\ SentInOrder

-----------------------------------------------------------------------------
(* Sequences                                                               *)

\* A function on 1 .. n is a sequence of length n.
LEMMA SeqOf ==
  ASSUME NEW S, NEW n \in Nat, NEW f \in [1 .. n -> S]
  PROVE  f \in Seq(S) /\ Len(f) = n
<1>1. f \in Seq(S)
  BY SeqDef
<1>2. DOMAIN f = 1 .. n
  OBVIOUS
<1> QED
  BY <1>1, <1>2, LenProperties

\* Where the elements of two sequences are after they have been joined.
LEMMA Joined ==
  ASSUME NEW S, NEW s \in Seq(S), NEW t \in Seq(S), NEW r, r = s \o t
  PROVE  /\ r \in Seq(S) /\ Len(r) = Len(s) + Len(t) /\ Len(s) \in Nat /\ Len(t) \in Nat
         /\ \A i \in 1 .. Len(s) : r[i] = s[i]
         /\ \A i \in 1 .. Len(t) : r[Len(s) + i] = t[i]
<1>1. Len(s) \in Nat /\ Len(t) \in Nat
  BY LenProperties
<1>2. /\ r \in Seq(S) /\ Len(r) = Len(s) + Len(t)
      /\ \A i \in 1 .. Len(s) + Len(t) : r[i] = IF i <= Len(s) THEN s[i] ELSE t[i - Len(s)]
  BY ConcatProperties
<1> QED
  BY <1>1, <1>2

\* Where the elements of a part of a sequence come from.
LEMMA Part ==
  ASSUME NEW S, NEW s \in Seq(S), NEW m \in Nat, NEW n \in Nat, 1 <= m, m <= n + 1, n <= Len(s),
         NEW r, r = SubSeq(s, m, n)
  PROVE  /\ r \in Seq(S) /\ Len(r) = n - m + 1
         /\ \A i \in 1 .. Len(r) : r[i] = s[m + i - 1]
<1>1. \A i \in m .. n : s[i] \in S
  BY ElementOfSeq, LenProperties
<1>2. /\ SubSeq(s, m, n) \in Seq(S)
      /\ Len(SubSeq(s, m, n)) = IF m <= n THEN n - m + 1 ELSE 0
      /\ \A i \in 1 .. n - m + 1 : SubSeq(s, m, n)[i] = s[m + i - 1]
  BY <1>1, SubSeqProperties
<1> QED
  BY <1>2

-----------------------------------------------------------------------------
(* Frames and their bytes                                                  *)

\* Two digits, whatever the base.
LEMMA Digits ==
  ASSUME NEW b \in Nat \ {0}, NEW n \in 0 .. b * b - 1
  PROVE  n \div b \in 0 .. b - 1 /\ n % b \in 0 .. b - 1 /\ b * (n \div b) + (n % b) = n
<1> DEFINE q == n \div b
<1>1. n \in Nat /\ b * b \in Nat /\ n < b * b
  OBVIOUS
<1>2. q \in Nat /\ q * b <= n
  BY <1>1
<1>3. n % b \in 0 .. b - 1
  BY <1>1
<1>4. b * q + (n % b) = n
  BY <1>1
<1> HIDE DEF q
<1>5. q < b
  <2> SUFFICES ASSUME b <= q PROVE FALSE
    BY <1>2
  <2>1. PICK d \in Nat : q = b + d
    BY <1>2, q - b \in Nat
  <2>2. q * b = b * b + d * b /\ d * b \in Nat
    BY <2>1
  <2> QED
    BY <1>1, <1>2, <2>2
<1> QED
  BY <1>2, <1>3, <1>4, <1>5 DEF q

\* The base is a number; which one does not matter.
LEMMA OctetNat == Octet \in Nat \ {0}
BY DEF Octet

\* What is known of a frame of the catalog.
LEMMA FrameFacts == \A f \in Catalog : f.size \in FrameSizes /\ f.size \in Nat
<1> SUFFICES ASSUME NEW f \in Catalog PROVE f.size \in FrameSizes /\ f.size \in Nat
  OBVIOUS
<1>1. f \in [cmd : Commands, size : FrameSizes, known : BOOLEAN]
  BY FramesAssumption
<1>2. f.size \in FrameSizes
  BY <1>1
<1> QED
  BY <1>2, OctetNat DEF FrameSizes

\* The bytes of a frame, and its length in the first two.
LEMMA ByteFacts ==
  ASSUME NEW i \in 1 .. MaxFrames, NEW n \in FrameSizes
  PROVE  /\ \A k \in Nat : Byte(i, n, k) \in Bytes
         /\ Octet * Byte(i, n, 1).value + Byte(i, n, 2).value = n
<1>1. n \div Octet \in 0 .. Octet - 1 /\ n % Octet \in 0 .. Octet - 1 /\ Octet * (n \div Octet) + (n % Octet) = n
  BY OctetNat, Digits DEF FrameSizes
<1>2. ASSUME NEW k \in Nat PROVE Byte(i, n, k) \in Bytes
  <2> DEFINE v == IF k = 1 THEN n \div Octet ELSE IF k = 2 THEN n % Octet ELSE 0
  <2>1. v \in 0 .. Octet - 1
    BY <1>1, OctetNat
  <2>2. Byte(i, n, k) = [of |-> i, at |-> k, value |-> v]
    BY DEF Byte
  <2> HIDE DEF v
  <2> QED
    BY <2>1, <2>2 DEF Bytes
<1>3. Byte(i, n, 1).value = n \div Octet /\ Byte(i, n, 2).value = n % Octet
  BY DEF Byte
<1> QED
  BY <1>1, <1>2, <1>3

\* What the invariant says of a frame that has been sent.
LEMMA SentFacts ==
  ASSUME IInv, NEW i \in 1 .. Len(frames)
  PROVE  /\ frames[i] \in Catalog /\ frames[i].size \in Nat /\ frames[i].size \in FrameSizes
         /\ start[i] \in Nat /\ End(i) = start[i] + 2 + frames[i].size /\ End(i) \in Nat
         /\ i \in 1 .. MaxFrames
<1>1. /\ frames \in Seq(Catalog) /\ Len(frames) <= MaxFrames /\ start \in Seq(Nat)
      /\ Len(start) = Len(frames) /\ MaxFrames \in Nat
  BY FramesAssumption DEF IInv, FramesTypeOK
<1>2. frames[i] \in Catalog /\ start[i] \in Nat /\ Len(frames) \in Nat
  BY <1>1, ElementOfSeq, LenProperties
<1>3. frames[i].size \in Nat /\ frames[i].size \in FrameSizes
  BY <1>2, FrameFacts
<1> QED
  BY <1>1, <1>2, <1>3, SMTT(30) DEF End

\* The length of the parts.
LEMMA Lengths ==
  ASSUME IInv
  PROVE  /\ Len(frames) \in Nat /\ Len(stream) \in Nat /\ Len(buf) \in Nat /\ Len(batch) \in Nat
         /\ Len(received) \in Nat /\ Len(out) \in Nat /\ Taken \in Nat /\ got \in Nat /\ got <= Len(stream)
         /\ \A i \in 0 .. Len(frames) : Before(i) \in Nat
<1>1. /\ Len(frames) \in Nat /\ Len(stream) \in Nat /\ Len(buf) \in Nat /\ Len(batch) \in Nat
      /\ Len(received) \in Nat /\ Len(out) \in Nat
  BY LenProperties DEF IInv, FramesTypeOK
<1>2. got \in Nat /\ got <= Len(stream)
  BY <1>1 DEF IInv, FramesTypeOK
<1>3. \A i \in 0 .. Len(frames) : Before(i) \in Nat
  BY <1>1, SentFacts DEF Before
<1> QED
  BY <1>1, <1>2, <1>3 DEF Taken

-----------------------------------------------------------------------------
(* The invariant holds at first                                            *)

\* Nothing has been sent in either direction.
LEMMA InitIInv == FramesInit => IInv
<1> SUFFICES ASSUME FramesInit PROVE IInv
  OBVIOUS
<1>1. \A S : << >> \in Seq(S) /\ Len(<< >>) = 0
  BY EmptySeq
<1>2. FramesTypeOK
  BY <1>1, FramesAssumption DEF FramesInit, FramesTypeOK
<1>3. StreamInv
  BY <1>1 DEF FramesInit, StreamInv, Before
<1>4. BufInv /\ BatchInv
  BY <1>1 DEF FramesInit, BufInv, BatchInv, Taken, Done, Before
<1>5. FramesIntact /\ NothingWaits
  BY <1>1 DEF FramesInit, FramesIntact, NothingWaits
<1>6. SentInOrder /\ SendInv
  BY <1>1 DEF FramesInit, SentInOrder, SendInv
<1> QED
  BY <1>2, <1>3, <1>4, <1>5, <1>6 DEF IInv

-----------------------------------------------------------------------------
(* The server                                                              *)

\* A frame more in the stream, behind all that was there.
LEMMA ServerSendsStep ==
  ASSUME IInv, NEW f \in Catalog, ServerSends(f)
  PROVE  IInv'
<1>0. PICK n \in Nat : n = Len(frames) + 1
  BY Lengths
<1> DEFINE new == [k \in 1 .. f.size + 2 |-> Byte(n, f.size, k)]
<1>1. /\ Len(frames) < MaxFrames /\ frames' = Append(frames, f) /\ start' = Append(start, Len(stream))
      /\ stream' = stream \o new
  BY <1>0 DEF ServerSends
<1>2. UNCHANGED <<got, buf, batch, pc, received, sends, off, out, sendOk>>
  BY DEF ServerSends, sendVars
<1>3. /\ frames \in Seq(Catalog) /\ start \in Seq(Nat) /\ Len(start) = Len(frames)
      /\ stream \in Seq(Bytes) /\ Len(stream) \in Nat /\ Len(frames) \in Nat
      /\ f.size \in Nat /\ f.size \in FrameSizes /\ MaxFrames \in Nat
  BY Lengths, FrameFacts, FramesAssumption DEF IInv, FramesTypeOK
<1>4. n \in 1 .. MaxFrames
  BY <1>0, <1>1, <1>3
<1>5. /\ new \in Seq(Bytes) /\ Len(new) = f.size + 2
      /\ \A k \in Nat : 1 <= k /\ k <= f.size + 2 => new[k] = Byte(n, f.size, k)
  <2>1. \A k \in Nat : Byte(n, f.size, k) \in Bytes
    BY <1>3, <1>4, ByteFacts
  <2>2. new \in [1 .. f.size + 2 -> Bytes] /\ f.size + 2 \in Nat
    BY <1>3, <2>1
  <2>3. new \in Seq(Bytes) /\ Len(new) = f.size + 2
    BY <2>2, SeqOf
  <2> QED
    BY <1>3, <2>3
<1> HIDE DEF new
<1>6. /\ frames' \in Seq(Catalog) /\ Len(frames') = n /\ frames'[n] = f
      /\ \A i \in 1 .. Len(frames) : frames'[i] = frames[i]
  BY <1>0, <1>1, <1>3, AppendProperties
<1>7. /\ start' \in Seq(Nat) /\ Len(start') = n /\ start'[n] = Len(stream)
      /\ \A i \in 1 .. Len(frames) : start'[i] = start[i]
  BY <1>0, <1>1, <1>3, AppendProperties
<1>8. /\ stream' \in Seq(Bytes) /\ Len(stream') = Len(stream) + f.size + 2
      /\ \A b \in 1 .. Len(stream) : stream'[b] = stream[b]
      /\ \A k \in Nat : 1 <= k /\ k <= f.size + 2 => stream'[Len(stream) + k] = Byte(n, f.size, k)
  <2>1. /\ stream' \in Seq(Bytes) /\ Len(stream') = Len(stream) + Len(new)
        /\ \A b \in 1 .. Len(stream) : stream'[b] = stream[b]
        /\ \A k \in 1 .. Len(new) : stream'[Len(stream) + k] = new[k]
    <3>1. stream \in Seq(Bytes) /\ new \in Seq(Bytes) /\ stream' = stream \o new
      BY <1>1, <1>3, <1>5
    <3> QED
      BY ONLY <3>1, Joined
  <2>2. Len(stream') = Len(stream) + f.size + 2
    BY <1>3, <1>5, <2>1
  <2>3. ASSUME NEW k \in Nat, 1 <= k, k <= f.size + 2
        PROVE  stream'[Len(stream) + k] = Byte(n, f.size, k)
    <3>1. k \in 1 .. Len(new) /\ new[k] = Byte(n, f.size, k)
      BY <1>3, <1>5, <2>3
    <3> QED
      BY <2>1, <3>1
  <2> QED
    BY <2>1, <2>2, <2>3
<1>9. /\ \A i \in 1 .. Len(frames) : End(i)' = End(i) /\ Payload(i)' = Payload(i)
      /\ \A i \in 0 .. Len(frames) : Before(i)' = Before(i)
      /\ End(n)' = Len(stream) + 2 + f.size
  <2>1. \A i \in 1 .. Len(frames) : End(i)' = End(i)
    BY <1>6, <1>7 DEF End
  <2>2. \A i \in 1 .. Len(frames) : Payload(i)' = Payload(i)
    BY <1>6 DEF Payload
  <2>3. End(n)' = Len(stream) + 2 + f.size
    BY <1>6, <1>7 DEF End
  <2> QED
    BY <1>3, <2>1, <2>2, <2>3 DEF Before
<1>10. FramesTypeOK'
  <2>0. got \in Nat /\ got <= Len(stream)
    BY Lengths
  <2>1. Len(frames') <= MaxFrames /\ got' \in 0 .. Len(stream')
    BY <1>2, <1>3, <1>4, <1>6, <1>8, <2>0
  <2> QED
    BY <1>2, <1>6, <1>7, <1>8, <2>1 DEF IInv, FramesTypeOK
<1>11. \A i \in 1 .. n : i \in 1 .. Len(frames) \/ i = n
  BY <1>0, <1>3
<1>12. StreamInv'
  <2>1. /\ Len(stream) = Before(Len(frames))
        /\ \A i \in 1 .. Len(frames) : start[i] = Before(i - 1) /\ End(i) <= Len(stream)
        /\ \A i, j \in 1 .. Len(frames) : i < j => End(i) <= start[j]
        /\ \A i \in 1 .. Len(frames), k \in Nat :
             1 <= k /\ k <= frames[i].size + 2 => stream[start[i] + k] = Byte(i, frames[i].size, k)
    BY DEF IInv, StreamInv
  <2>2. Len(stream') = Before(n)'
    <3>1. Before(n)' = End(n)'
      BY <1>4 DEF Before
    <3>2. /\ Len(stream') = Len(stream) + f.size + 2 /\ End(n)' = Len(stream) + 2 + f.size
          /\ Len(stream) \in Nat /\ f.size \in Nat
      BY <1>3, <1>8, <1>9
    <3> QED
      BY <3>1, <3>2
  <2>3. ASSUME NEW i \in 1 .. n PROVE start'[i] = Before(i - 1)' /\ End(i)' <= Len(stream')
    <3>1. CASE i \in 1 .. Len(frames)
      <4>1. i - 1 \in 0 .. Len(frames) /\ End(i) \in Nat
        BY <1>3, <3>1, SentFacts
      <4>2. start'[i] = Before(i - 1)'
        BY <1>7, <1>9, <2>1, <3>1, <4>1
      <4>3. End(i)' <= Len(stream')
        BY <1>3, <1>8, <1>9, <2>1, <3>1, <4>1, SMTT(30)
      <4> QED
        BY <4>2, <4>3
    <3>2. CASE i = n
      <4>1. n - 1 = Len(frames) /\ Len(frames) \in 0 .. Len(frames)
        BY <1>0, <1>3
      <4>2. Before(n - 1)' = Len(stream)
        BY <1>9, <2>1, <4>1
      <4> QED
        BY <1>3, <1>7, <1>8, <1>9, <3>2, <4>2, SMTT(30)
    <3> QED
      BY <1>11, <3>1, <3>2
  <2>4. ASSUME NEW i \in 1 .. n, NEW j \in 1 .. n, i < j PROVE End(i)' <= start'[j]
    <3>1. i \in 1 .. Len(frames)
      BY <1>0, <1>3, <2>4
    <3> QED
      BY <1>7, <1>9, <1>11, <2>1, <2>4, <3>1
  <2>5. ASSUME NEW i \in 1 .. n, NEW k \in Nat, 1 <= k, k <= frames'[i].size + 2
        PROVE  stream'[start'[i] + k] = Byte(i, frames'[i].size, k)
    <3>1. CASE i \in 1 .. Len(frames)
      <4>1. /\ frames'[i] = frames[i] /\ start'[i] = start[i] /\ start[i] \in Nat
            /\ End(i) = start[i] + 2 + frames[i].size /\ End(i) <= Len(stream) /\ frames[i].size \in Nat
        BY <1>6, <1>7, <2>1, <3>1, SentFacts
      <4>2. start[i] + k \in 1 .. Len(stream)
        <5>1. k <= frames[i].size + 2
          BY <2>5, <4>1
        <5>2. /\ start[i] + 2 + frames[i].size <= Len(stream) /\ Len(stream) \in Nat
              /\ start[i] \in Nat /\ frames[i].size \in Nat
          BY <1>3, <4>1
        <5> QED
          BY ONLY <2>5, <5>1, <5>2
      <4> QED
        BY <1>8, <2>1, <2>5, <3>1, <4>1, <4>2
    <3>2. CASE i = n
      BY <1>6, <1>7, <1>8, <2>5, <3>2
    <3> QED
      BY <1>11, <3>1, <3>2
  <2>6. Len(stream') = Before(Len(frames))'
    BY <1>6, <2>2 DEF Before
  <2> QED
    BY <1>6, <2>3, <2>4, <2>5, <2>6 DEF StreamInv
<1>13. BufInv'
  <2> SUFFICES ASSUME pc' \in {"read", "decode"}
               PROVE  /\ Taken' <= Len(frames') /\ Done' <= got' /\ Len(buf') = got' - Done'
                      /\ \A j \in 1 .. Len(buf') : buf'[j] = stream'[Done' + j]
    BY DEF BufInv
  <2>1. /\ Taken <= Len(frames) /\ Done <= got /\ Len(buf) = got - Done
        /\ \A j \in 1 .. Len(buf) : buf[j] = stream[Done + j]
    BY <1>2 DEF IInv, BufInv
  <2>2. Taken' = Taken /\ Taken \in Nat /\ got \in Nat /\ got <= Len(stream) /\ Taken \in 0 .. Len(frames)
    BY <1>2, <1>3, <2>1, Lengths DEF Taken
  <2>3. PICK t \in 0 .. Len(frames) : t = Taken
    BY <2>2
  <2>4. Done' = Done /\ Done \in Nat
    <3>1. Done = Before(t) /\ Done' = Before(t)'
      BY <2>2, <2>3 DEF Done, Before
    <3> QED
      BY <1>9, <3>1, Lengths
  <2>5. \A j \in 1 .. Len(buf) : stream'[Done + j] = stream[Done + j]
    BY <1>3, <1>8, <2>1, <2>2, <2>4
  <2>6. Taken' <= Len(frames')
    BY <1>0, <1>3, <1>6, <2>2
  <2> QED
    BY <1>2, <2>1, <2>4, <2>5, <2>6
<1>14. FramesIntact' /\ BatchInv'
  <2>1. /\ Len(received) <= Len(frames) /\ \A i \in DOMAIN received : received[i] = Payload(i)
        /\ DOMAIN received = 1 .. Len(received) /\ Len(received) \in Nat /\ Len(batch) \in Nat
    BY Lengths, LenProperties DEF IInv, FramesIntact, FramesTypeOK
  <2>2. FramesIntact'
    BY <1>0, <1>2, <1>3, <1>6, <1>9, <2>1 DEF FramesIntact
  <2>3. ASSUME pc \in {"read", "decode"}, NEW i \in 1 .. Len(batch)
        PROVE  batch[i] = Payload(Len(received) + i)'
    <3>1. PICK p \in Nat : p = Len(received) + i
      BY <2>1
    <3>2. p \in 1 .. Len(frames) /\ batch[i] = Payload(p)
      <4>1. Len(received) + Len(batch) <= Len(frames)
        BY <2>3 DEF IInv, BufInv, Taken
      <4>2. p \in 1 .. Len(frames)
        BY <1>3, <2>1, <3>1, <4>1
      <4> QED
        BY <2>3, <3>1, <4>2 DEF IInv, BatchInv
    <3>3. Payload(Len(received) + i)' = Payload(p)'
      BY <1>2, <3>1 DEF Payload
    <3> QED
      BY <1>9, <3>2, <3>3
  <2>4. BatchInv'
    BY <1>2, <2>3 DEF IInv, BatchInv
  <2> QED
    BY <2>2, <2>4
<1>15. NothingWaits'
  <2> SUFFICES ASSUME pc' = "read", NEW i \in DOMAIN frames', frames'[i].size > 0, End(i)' <= got'
               PROVE  i <= Len(received')
    BY DEF NothingWaits
  <2>1. i \in 1 .. n
    BY <1>6, LenProperties
  <2>2. CASE i \in 1 .. Len(frames)
    <3>1. DOMAIN frames = 1 .. Len(frames)
      BY <1>3, LenProperties
    <3> QED
      BY <1>2, <1>6, <1>9, <2>2, <3>1 DEF IInv, NothingWaits
  <2>3. CASE i = n
    <3>1. got <= Len(stream) /\ got \in Nat
      BY Lengths
    <3> QED
      BY <1>2, <1>3, <1>9, <2>3, <3>1
  <2> QED
    BY <1>11, <2>1, <2>2, <2>3
<1>16. SentInOrder' /\ SendInv'
  BY <1>2 DEF IInv, SentInOrder, SendInv
<1> QED
  BY <1>10, <1>12, <1>13, <1>14, <1>15, <1>16 DEF IInv

-----------------------------------------------------------------------------
(* recv                                                                    *)

\* The steps of recv leave the stream and the sender alone.
LEMMA SameWire ==
  ASSUME IInv, UNCHANGED <<frames, start, stream, sends, off, out, sendOk>>
  PROVE  /\ StreamInv' /\ SentInOrder' /\ SendInv'
         /\ \A i \in Nat : End(i)' = End(i) /\ Before(i)' = Before(i) /\ Payload(i)' = Payload(i)
<1>1. StreamInv'
  BY DEF IInv, StreamInv, Before, End
<1>2. SentInOrder' /\ SendInv'
  BY DEF IInv, SentInOrder, SendInv
<1> QED
  BY <1>1, <1>2 DEF End, Before, Payload

\* Bytes are read: the buffer grows at its end.
LEMMA ReadStep ==
  ASSUME IInv, NEW n \in 1 .. MaxRead, Read(n)
  PROVE  IInv'
<1> DEFINE part == SubSeq(stream, got + 1, got + n)
<1>1. /\ pc = "read" /\ n <= Len(stream) - got /\ buf' = buf \o part /\ got' = got + n /\ pc' = "decode"
  BY DEF Read
<1>2. UNCHANGED <<frames, start, stream, batch, received, sends, off, out, sendOk>>
  BY DEF Read, streamVars, sendVars
<1>3. /\ stream \in Seq(Bytes) /\ buf \in Seq(Bytes) /\ Len(stream) \in Nat /\ Len(buf) \in Nat
      /\ got \in Nat /\ got <= Len(stream) /\ n \in Nat /\ n >= 1 /\ Taken \in Nat /\ Len(frames) \in Nat
      /\ got + n <= Len(stream)
  BY <1>1, Lengths, FramesAssumption DEF IInv, FramesTypeOK
<1>4. /\ part \in Seq(Bytes) /\ Len(part) = n /\ \A i \in 1 .. n : part[i] = stream[got + i]
  <2>1. /\ part \in Seq(Bytes) /\ Len(part) = (got + n) - (got + 1) + 1
        /\ \A i \in 1 .. Len(part) : part[i] = stream[(got + 1) + i - 1]
    <3>1. got + 1 \in Nat /\ got + n \in Nat /\ 1 <= got + 1 /\ got + 1 <= (got + n) + 1
      BY <1>3
    <3> QED
      BY <1>3, <3>1, Part
  <2>2. Len(part) = n
    BY <1>3, <2>1
  <2>3. \A i \in 1 .. n : (got + 1) + i - 1 = got + i
    BY <1>3
  <2> QED
    BY <2>1, <2>2, <2>3
<1> HIDE DEF part
<1>5. /\ buf' \in Seq(Bytes) /\ Len(buf') = Len(buf) + n
      /\ \A i \in 1 .. Len(buf) : buf'[i] = buf[i]
      /\ \A i \in 1 .. n : buf'[Len(buf) + i] = stream[got + i]
  <2>1. /\ buf' \in Seq(Bytes) /\ Len(buf') = Len(buf) + Len(part)
        /\ \A i \in 1 .. Len(buf) : buf'[i] = buf[i]
        /\ \A i \in 1 .. Len(part) : buf'[Len(buf) + i] = part[i]
    <3>1. buf \in Seq(Bytes) /\ part \in Seq(Bytes) /\ buf' = buf \o part
      BY <1>1, <1>3, <1>4
    <3> QED
      BY ONLY <3>1, Joined
  <2> QED
    BY <1>4, <2>1
<1>6. FramesTypeOK'
  <2>1. got' \in 0 .. Len(stream')
    BY <1>1, <1>2, <1>3
  <2> QED
    BY <1>1, <1>2, <1>5, <2>1 DEF IInv, FramesTypeOK
<1>7. StreamInv' /\ SentInOrder' /\ SendInv' /\ \A i \in Nat : Before(i)' = Before(i) /\ Payload(i)' = Payload(i)
  BY <1>2, SameWire
<1>8. BufInv'
  <2>1. /\ Taken <= Len(frames) /\ Done <= got /\ Len(buf) = got - Done
        /\ \A j \in 1 .. Len(buf) : buf[j] = stream[Done + j]
    BY <1>1 DEF IInv, BufInv
  <2>2. Taken' = Taken /\ Done' = Done /\ Done \in Nat
    <3>1. Taken' = Taken /\ Done' = Done
      BY <1>2 DEF Taken, Done, Before, End
    <3>2. Taken \in 0 .. Len(frames)
      BY <1>3, <2>1
    <3> QED
      BY <3>1, <3>2, Lengths DEF Done
  <2>3. ASSUME NEW j \in 1 .. Len(buf') PROVE buf'[j] = stream[Done + j]
    <3>1. CASE j \in 1 .. Len(buf)
      BY <1>5, <2>1, <3>1
    <3>2. CASE j \notin 1 .. Len(buf)
      <4>1. PICK i \in 1 .. n : j = Len(buf) + i
        <5>1. j - Len(buf) \in 1 .. n /\ j = Len(buf) + (j - Len(buf))
          BY <1>3, <1>5, <3>2
        <5> QED
          BY <5>1
      <4>2. Done + j = got + i
        BY <1>3, <2>1, <2>2, <4>1
      <4> QED
        BY <1>5, <4>1, <4>2
    <3> QED
      BY <3>1, <3>2
  <2>4. Done <= got' /\ Len(buf') = got' - Done
    BY <1>1, <1>3, <1>5, <2>1, <2>2
  <2> QED
    BY <1>2, <2>1, <2>2, <2>3, <2>4 DEF BufInv
<1>9. FramesIntact' /\ BatchInv' /\ NothingWaits'
  BY <1>1, <1>2 DEF IInv, FramesIntact, BatchInv, NothingWaits, Payload
<1> QED
  BY <1>6, <1>7, <1>8, <1>9 DEF IInv

\* recv ends, with an error or in a panic: nothing more is returned.
LEMMA RecvEnds ==
  ASSUME IInv, UNCHANGED <<frames, start, stream, got, received, sends, off, out, sendOk>>,
         pc' \in {"error", "panic"}, batch' \in Seq(Seq(Bytes)), buf' \in Seq(Bytes)
  PROVE  IInv'
<1>1. FramesTypeOK'
  BY DEF IInv, FramesTypeOK
<1>2. StreamInv' /\ SentInOrder' /\ SendInv'
  BY SameWire
<1>3. BufInv' /\ BatchInv' /\ NothingWaits'
  BY DEF BufInv, BatchInv, NothingWaits
<1>4. FramesIntact'
  BY DEF IInv, FramesIntact, Payload
<1> QED
  BY <1>1, <1>2, <1>3, <1>4 DEF IInv

\* A whole frame in the buffer is the next one that was sent, and its length
\* field says so.
LEMMA NextFrame ==
  ASSUME IInv, pc = "decode", Len(buf) > 2, NEW i \in Nat, i = Taken + 1
  PROVE  /\ i \in 1 .. Len(frames) /\ start[i] = Done /\ FrameSize = frames[i].size
         /\ Done \in Nat /\ Len(buf) = got - Done
         /\ \A j \in 1 .. Len(buf) : buf[j] = stream[Done + j]
<1>1. /\ Taken <= Len(frames) /\ Done <= got /\ Len(buf) = got - Done
      /\ \A j \in 1 .. Len(buf) : buf[j] = stream[Done + j]
  BY DEF IInv, BufInv
<1>2. /\ Len(frames) \in Nat /\ Taken \in Nat /\ got \in Nat /\ got <= Len(stream) /\ Len(stream) \in Nat
      /\ Len(buf) \in Nat /\ \A k \in 0 .. Len(frames) : Before(k) \in Nat
  BY Lengths
<1>3. Done \in Nat
  <2>1. Taken \in 0 .. Len(frames)
    BY <1>1, <1>2
  <2> QED
    BY <1>2, <2>1 DEF Done
<1>4. i \in 1 .. Len(frames)
  <2>1. Len(stream) = Before(Len(frames))
    BY DEF IInv, StreamInv
  <2>2. Taken # Len(frames)
    <3> SUFFICES ASSUME Taken = Len(frames) PROVE FALSE
      OBVIOUS
    <3>1. Done = Len(stream)
      BY <2>1 DEF Done
    <3> QED
      BY <1>1, <1>2, <1>3, <3>1
  <2> QED
    BY <1>1, <1>2, <2>2
<1>5. start[i] = Done
  <2>1. i - 1 = Taken
    BY <1>2
  <2>2. start[i] = Before(i - 1)
    BY <1>4 DEF IInv, StreamInv
  <2> QED
    BY <2>1, <2>2 DEF Done
<1>6. /\ frames[i].size \in Nat /\ frames[i].size \in FrameSizes /\ i \in 1 .. MaxFrames
  BY <1>4, SentFacts
<1>7. buf[1] = Byte(i, frames[i].size, 1) /\ buf[2] = Byte(i, frames[i].size, 2)
  <2>1. \A k \in Nat : 1 <= k /\ k <= frames[i].size + 2 =>
          stream[start[i] + k] = Byte(i, frames[i].size, k)
    BY <1>4 DEF IInv, StreamInv
  <2>2. buf[1] = stream[Done + 1] /\ buf[2] = stream[Done + 2]
    BY <1>1, <1>2
  <2>3. 1 <= frames[i].size + 2 /\ 2 <= frames[i].size + 2
    BY <1>6
  <2> QED
    BY <1>5, <2>1, <2>2, <2>3
<1>8. FrameSize = frames[i].size
  BY <1>6, <1>7, ByteFacts DEF FrameSize
<1> QED
  BY <1>1, <1>3, <1>4, <1>5, <1>8

\* A frame is taken off the buffer: it is the next one, whole.
LEMMA DecodeFrameStep ==
  ASSUME IInv, DecodeFrame
  PROVE  IInv'
<1> DEFINE payload == SubSeq(buf, 3, FrameSize + 2)
<1>1. pc = "decode" /\ Len(buf) > 2 /\ Len(buf) >= FrameSize + 2
  BY DEF DecodeFrame, Complete
<1>2. UNCHANGED <<frames, start, stream, got, received, sends, off, out, sendOk>>
  BY DEF DecodeFrame, streamVars, sendVars
<1>3. \/ batch' = Append(batch, payload) /\ buf' = Rest(FrameSize) /\ pc' = pc
      \/ batch' = << >> /\ buf' = << >> /\ pc' = "error"
      \/ pc' = "panic" /\ UNCHANGED <<batch, buf>>
  BY DEF DecodeFrame
<1>4. CASE batch' = << >> /\ buf' = << >> /\ pc' = "error"
  BY <1>2, <1>4, EmptySeq, RecvEnds
<1>5. CASE pc' = "panic" /\ UNCHANGED <<batch, buf>>
  <2>1. batch' \in Seq(Seq(Bytes)) /\ buf' \in Seq(Bytes)
    BY <1>5 DEF IInv, FramesTypeOK
  <2> QED
    BY <1>2, <1>5, <2>1, RecvEnds
<1>6. CASE batch' = Append(batch, payload) /\ buf' = Rest(FrameSize) /\ pc' = pc
  <2>1. PICK i \in Nat : i = Taken + 1
    BY Lengths
  <2>2. /\ i \in 1 .. Len(frames) /\ start[i] = Done /\ FrameSize = frames[i].size
        /\ Done \in Nat /\ Len(buf) = got - Done
        /\ \A j \in 1 .. Len(buf) : buf[j] = stream[Done + j]
    BY <1>1, <2>1, NextFrame
  <2>3. PICK m \in Nat : m = frames[i].size
    BY <2>2, SentFacts
  <2>4. /\ buf \in Seq(Bytes) /\ batch \in Seq(Seq(Bytes)) /\ Len(buf) \in Nat /\ Len(batch) \in Nat
        /\ Len(received) \in Nat /\ m + 2 <= Len(buf) /\ got \in Nat
    BY <1>1, <2>2, <2>3, Lengths DEF IInv, FramesTypeOK
  <2>5. /\ payload \in Seq(Bytes) /\ Len(payload) = m
        /\ \A j \in 1 .. m : payload[j] = buf[j + 2]
    <3>1. payload = SubSeq(buf, 3, m + 2)
      BY <2>2, <2>3
    <3> HIDE DEF payload
    <3>2. m + 2 \in Nat /\ 3 \in Nat /\ 1 <= 3 /\ 3 <= (m + 2) + 1 /\ m + 2 <= Len(buf)
      BY <2>3, <2>4
    <3>3. /\ payload \in Seq(Bytes) /\ Len(payload) = (m + 2) - 3 + 1
          /\ \A j \in 1 .. Len(payload) : payload[j] = buf[3 + j - 1]
      BY <2>4, <3>1, <3>2, Part
    <3>4. Len(payload) = m /\ \A j \in 1 .. m : 3 + j - 1 = j + 2
      BY <2>3, <3>3
    <3> QED
      BY <3>3, <3>4
  <2> HIDE DEF payload
  <2>6. /\ buf' \in Seq(Bytes) /\ Len(buf') = Len(buf) - (m + 2)
        /\ \A j \in 1 .. Len(buf') : buf'[j] = buf[m + 2 + j]
    <3>1. buf' = SubSeq(buf, m + 3, Len(buf))
      BY <1>6, <2>2, <2>3 DEF Rest
    <3>2. m + 3 \in Nat /\ 1 <= m + 3 /\ m + 3 <= Len(buf) + 1 /\ Len(buf) <= Len(buf)
      BY <2>3, <2>4, SMTT(30)
    <3>3. /\ buf' \in Seq(Bytes) /\ Len(buf') = Len(buf) - (m + 3) + 1
          /\ \A j \in 1 .. Len(buf') : buf'[j] = buf[(m + 3) + j - 1]
      BY <2>4, <3>1, <3>2, Part
    <3>4. Len(buf') = Len(buf) - (m + 2)
      BY <2>3, <2>4, <3>3, SMTT(30)
    <3>5. \A j \in 1 .. Len(buf') : (m + 3) + j - 1 = m + 2 + j
      BY <2>3, <2>4, <3>4
    <3> QED
      BY <3>3, <3>4, <3>5
  <2>7. /\ batch' \in Seq(Seq(Bytes)) /\ Len(batch') = Len(batch) + 1
        /\ batch'[Len(batch) + 1] = payload
        /\ \A j \in 1 .. Len(batch) : batch'[j] = batch[j]
    BY <1>6, <2>4, <2>5, AppendProperties
  <2>8. payload = Payload(i)
    <3>1. \A k \in Nat : 1 <= k /\ k <= m + 2 => stream[Done + k] = Byte(i, m, k)
      BY <2>2, <2>3 DEF IInv, StreamInv
    <3>2. ASSUME NEW j \in 1 .. m PROVE payload[j] = Byte(i, m, j + 2)
      <4>1. j + 2 \in 1 .. Len(buf) /\ j + 2 \in Nat /\ 1 <= j + 2 /\ j + 2 <= m + 2
        BY <2>3, <2>4
      <4>2. payload[j] = stream[Done + (j + 2)]
        BY <2>2, <2>5, <4>1
      <4> QED
        BY <3>1, <4>1, <4>2
    <3>3. payload \in [1 .. m -> Bytes]
      BY <2>5, LenProperties
    <3>4. payload = [j \in 1 .. m |-> Byte(i, m, j + 2)]
      BY <3>2, <3>3
    <3> QED
      BY <2>3, <3>4 DEF Payload
  <2>9. StreamInv' /\ SentInOrder' /\ SendInv' /\ \A k \in Nat : Before(k)' = Before(k) /\ Payload(k)' = Payload(k)
    BY <1>2, SameWire
  <2>10. FramesTypeOK'
    BY <1>2, <1>6, <2>6, <2>7 DEF IInv, FramesTypeOK
  <2>11. Taken' = i /\ Taken + 1 = i /\ Taken \in Nat
    BY <1>2, <2>1, <2>4, <2>7 DEF Taken
  <2>12. Done' = Done + m + 2
    <3>1. Done' = Before(i)'
      BY <2>11 DEF Done, Before
    <3>2. Before(i) = End(i)
      BY <2>2 DEF Before
    <3>3. Done' = End(i)
      BY <2>9, <3>1, <3>2
    <3>4. End(i) = Done + 2 + m /\ Done \in Nat
      BY <2>2, <2>3 DEF End
    <3> QED
      BY <2>3, <3>3, <3>4
  <2>13. BufInv'
    <3>1. Taken' <= Len(frames')
      BY <1>2, <2>2, <2>11
    <3>0. /\ Done \in Nat /\ m \in Nat /\ Len(buf) \in Nat /\ got \in Nat /\ got' = got
          /\ Len(buf) = got - Done /\ m + 2 <= Len(buf) /\ Done' = Done + m + 2
          /\ Len(buf') = Len(buf) - (m + 2)
      BY <1>2, <2>2, <2>3, <2>4, <2>6, <2>12
    <3>2. Done' <= got' /\ Len(buf') = got' - Done'
      BY ONLY <3>0
    <3>3. ASSUME NEW j \in 1 .. Len(buf') PROVE buf'[j] = stream'[Done' + j]
      <4>1. /\ m + 2 + j \in 1 .. Len(buf) /\ Done + (m + 2 + j) = Done' + j
        BY ONLY <3>0, <3>3
      <4> QED
        BY <1>2, <2>2, <2>6, <4>1
    <3> QED
      BY <3>1, <3>2, <3>3 DEF BufInv
  <2>14. BatchInv'
    <3>1. ASSUME NEW j \in 1 .. Len(batch') PROVE batch'[j] = Payload(Len(received) + j)'
      <4>1. PICK k \in Nat : k = Len(received) + j
        BY <2>4, <2>7
      <4>2. Payload(Len(received) + j)' = Payload(k)
        <5>1. Payload(Len(received) + j)' = Payload(k)'
          BY <1>2, <4>1 DEF Payload
        <5> QED
          BY <2>9, <5>1
      <4>3. CASE j \in 1 .. Len(batch)
        <5>1. batch[j] = Payload(k)
          BY <1>1, <4>1, <4>3 DEF IInv, BatchInv
        <5> QED
          BY <2>7, <4>2, <4>3, <5>1
      <4>4. CASE j \notin 1 .. Len(batch)
        <5>1. j = Len(batch) + 1 /\ k = i
          BY <2>1, <2>4, <2>7, <4>1, <4>4 DEF Taken
        <5> QED
          BY <2>7, <2>8, <4>2, <5>1
      <4> QED
        BY <4>3, <4>4
    <3>2. received' = received /\ pc' = "decode"
      BY <1>1, <1>2, <1>6
    <3> QED
      BY <3>1, <3>2 DEF BatchInv, Payload
  <2>15. FramesIntact' /\ NothingWaits'
    BY <1>1, <1>2, <1>6 DEF IInv, FramesIntact, NothingWaits, Payload
  <2> QED
    BY <2>9, <2>10, <2>13, <2>14, <2>15 DEF IInv
<1> QED
  BY <1>3, <1>4, <1>5, <1>6

\* decode returns: every frame that has arrived in full is in the batch.
LEMMA DecodeRestStep ==
  ASSUME IInv, DecodeRest
  PROVE  IInv'
<1>1. /\ pc = "decode" /\ ~(Len(buf) > 2 /\ Len(buf) >= FrameSize + 2)
      /\ received' = received \o batch /\ batch' = << >> /\ pc' = "read"
  BY DEF DecodeRest, Leave, Complete
<1>2. UNCHANGED <<frames, start, stream, got, buf, sends, off, out, sendOk>>
  BY DEF DecodeRest, streamVars, sendVars
<1>3. /\ received \in Seq(Seq(Bytes)) /\ batch \in Seq(Seq(Bytes))
      /\ Len(received) \in Nat /\ Len(batch) \in Nat /\ Taken \in Nat /\ Len(frames) \in Nat
      /\ Len(buf) \in Nat /\ got \in Nat /\ frames \in Seq(Catalog)
  BY Lengths DEF IInv, FramesTypeOK
<1>4. /\ received' \in Seq(Seq(Bytes)) /\ Len(received') = Len(received) + Len(batch)
      /\ \A j \in 1 .. Len(received) : received'[j] = received[j]
      /\ \A j \in 1 .. Len(batch) : received'[Len(received) + j] = batch[j]
  <2>1. received' = received \o batch
    BY <1>1
  <2> QED
    BY ONLY <1>3, <2>1, Joined, SMTT(30)
<1>5. batch' \in Seq(Seq(Bytes)) /\ Len(batch') = 0
  BY <1>1, EmptySeq
<1>6. FramesTypeOK'
  BY <1>1, <1>2, <1>4, <1>5 DEF IInv, FramesTypeOK
<1>7. StreamInv' /\ SentInOrder' /\ SendInv' /\ \A k \in Nat : End(k)' = End(k) /\ Payload(k)' = Payload(k)
  BY <1>2, SameWire
<1>8. Taken' = Taken /\ Len(received') = Taken
  BY <1>3, <1>4, <1>5 DEF Taken
<1>9. BufInv'
  <2>1. Done' = Done
    BY <1>2, <1>8 DEF Done, Before, End
  <2> QED
    BY <1>1, <1>2, <1>8, <2>1 DEF IInv, BufInv
<1>10. BatchInv'
  BY <1>1, <1>5 DEF BatchInv
<1>11. FramesIntact'
  <2>1. Len(received') <= Len(frames')
    BY <1>1, <1>2, <1>8 DEF IInv, BufInv
  <2>2. DOMAIN received' = 1 .. Len(received') /\ DOMAIN received = 1 .. Len(received)
    BY <1>3, <1>4, LenProperties
  <2>3. ASSUME NEW j \in 1 .. Len(received') PROVE received'[j] = Payload(j)'
    <3>1. CASE j \in 1 .. Len(received)
      <4>1. received[j] = Payload(j)
        BY <2>2, <3>1 DEF IInv, FramesIntact
      <4>2. j \in Nat
        BY <1>3, <3>1
      <4> QED
        BY <1>4, <1>7, <3>1, <4>1, <4>2
    <3>2. CASE j \notin 1 .. Len(received)
      <4>1. PICK k \in 1 .. Len(batch) : j = Len(received) + k
        <5>1. j - Len(received) \in 1 .. Len(batch) /\ j = Len(received) + (j - Len(received))
          BY <1>3, <1>4, <3>2
        <5> QED
          BY <5>1
      <4>2. batch[k] = Payload(j)
        BY <1>1, <4>1 DEF IInv, BatchInv
      <4> QED
        BY <1>4, <1>7, <4>1, <4>2
    <3> QED
      BY <3>1, <3>2
  <2> QED
    BY <2>1, <2>2, <2>3 DEF FramesIntact
<1>12. NothingWaits'
  <2> SUFFICES ASSUME NEW i \in 1 .. Len(frames), frames[i].size > 0, End(i) <= got, i > Taken
               PROVE  FALSE
    <3>1. DOMAIN frames' = 1 .. Len(frames)
      BY <1>2, <1>3, LenProperties
    <3> QED
      BY <1>2, <1>3, <1>7, <1>8, <3>1 DEF NothingWaits
  <2>1. PICK n \in Nat : n = Taken + 1
    BY <1>3
  <2>2. n \in 1 .. Len(frames) /\ n <= i
    BY <1>3, <2>1
  <2>3. /\ frames[i].size \in Nat /\ start[i] \in Nat /\ End(i) = start[i] + 2 + frames[i].size
        /\ frames[n].size \in Nat /\ start[n] \in Nat /\ End(n) = start[n] + 2 + frames[n].size
    BY <2>2, SentFacts
  <2>4. Done = start[n] /\ Len(buf) = got - Done
    <3>1. n - 1 = Taken
      BY <1>3, <2>1
    <3>2. start[n] = Before(n - 1)
      BY <2>2 DEF IInv, StreamInv
    <3> QED
      BY <1>1, <3>1, <3>2 DEF IInv, BufInv, Done
  <2>5. Len(buf) > 2 /\ Len(buf) >= frames[n].size + 2
    <3>1. CASE n = i
      BY <1>3, <2>3, <2>4, <3>1
    <3>2. CASE n < i
      <4>1. End(n) <= start[i]
        BY <2>2, <3>2 DEF IInv, StreamInv
      <4>2. PICK a \in Nat, c \in Nat : a = start[n] /\ c = frames[n].size
        BY <2>3
      <4>3. PICK b \in Nat, d \in Nat : b = start[i] /\ d = frames[i].size
        BY <2>3
      <4>4. PICK g \in Nat, l \in Nat : g = got /\ l = Len(buf)
        BY <1>3
      <4>5. a + 2 + c <= b /\ b + 2 + d <= g /\ d > 0 /\ l = g - a
        BY <2>3, <2>4, <4>1, <4>2, <4>3, <4>4
      <4>6. l > 2 /\ l >= c + 2
        BY ONLY <4>5
      <4> QED
        BY <4>2, <4>4, <4>6
    <3> QED
      BY <2>1, <2>2, <3>1, <3>2
  <2>6. FrameSize = frames[n].size
    BY <1>1, <2>1, <2>5, NextFrame
  <2> QED
    BY <1>1, <2>5, <2>6
<1> QED
  BY <1>6, <1>7, <1>9, <1>10, <1>11, <1>12 DEF IInv

-----------------------------------------------------------------------------
(* send                                                                    *)

\* The steps of send leave the receiver alone.
LEMMA SameRecv ==
  ASSUME IInv, UNCHANGED <<frames, start, stream, got, buf, batch, pc, received>>
  PROVE  StreamInv' /\ BufInv' /\ BatchInv' /\ FramesIntact' /\ NothingWaits'
<1>1. StreamInv'
  BY DEF IInv, StreamInv, Before, End
<1>2. BufInv'
  BY DEF IInv, BufInv, Taken, Done, Before, End
<1>3. BatchInv' /\ FramesIntact' /\ NothingWaits'
  BY DEF IInv, BatchInv, FramesIntact, NothingWaits, Payload, End
<1> QED
  BY <1>1, <1>2, <1>3

\* Multiplication by a natural number is monotonic.
LEMMA TimesMonotonic ==
  ASSUME NEW m \in Nat, NEW n \in Nat, NEW p \in Nat, m <= n
  PROVE  m * p <= n * p /\ m * p \in Nat /\ n * p \in Nat
<1>1. PICK d \in Nat : n = m + d
  BY n - m \in Nat
<1>2. n * p = m * p + d * p /\ d * p \in Nat /\ m * p \in Nat
  BY <1>1
<1> QED
  BY <1>1, <1>2

\* The next message is begun: the one before has been written to its end.
LEMMA SendStep ==
  ASSUME IInv, SendNext
  PROVE  IInv'
<1>1. sendOk /\ off = SendSize /\ sends < MaxSends /\ sends' = sends + 1 /\ off' = 0
  BY DEF SendNext
<1>2. UNCHANGED <<frames, start, stream, got, buf, batch, pc, received, out, sendOk>>
  BY DEF SendNext, recvVars, streamVars
<1>3. sends \in Nat /\ MaxSends \in Nat /\ SendSize \in Nat /\ SendSize # 0
  BY FramesAssumption DEF IInv, FramesTypeOK
<1>4. FramesTypeOK'
  <2>1. sends' \in 0 .. MaxSends /\ off' \in 0 .. SendSize
    BY <1>1, <1>3
  <2> QED
    BY <1>2, <2>1 DEF IInv, FramesTypeOK
<1>5. StreamInv' /\ BufInv' /\ BatchInv' /\ FramesIntact' /\ NothingWaits' /\ SendInv'
  <2>1. sends' # 0
    BY <1>1, <1>3
  <2> QED
    BY <1>2, <2>1, SameRecv DEF SendInv
<1>6. /\ Len(out) = IF sends = 0 THEN 0 ELSE (sends - 1) * SendSize + off
      /\ \A m \in 1 .. sends, k \in 1 .. SendSize :
           (m - 1) * SendSize + k <= Len(out) => out[(m - 1) * SendSize + k] = [of |-> m, at |-> k]
  BY DEF IInv, SentInOrder
<1>7. Len(out) = sends * SendSize /\ sends' # 0 /\ (sends' - 1) * SendSize + off' = sends * SendSize
  <2>1. sends' - 1 = sends /\ sends' # 0 /\ sends * SendSize \in Nat
    BY <1>1, <1>3
  <2>2. (sends' - 1) * SendSize + off' = sends * SendSize
    BY <1>1, <2>1
  <2>3. CASE sends = 0
    <3>1. 0 * SendSize = 0
      BY <1>3
    <3> QED
      BY <1>6, <2>1, <2>2, <2>3, <3>1
  <2>4. CASE sends # 0
    <3>1. (sends - 1) * SendSize + SendSize = sends * SendSize
      BY <1>3
    <3> QED
      BY <1>1, <1>6, <2>1, <2>2, <2>4, <3>1
  <2> QED
    BY <2>3, <2>4
<1>8. SentInOrder'
  <2>1. ASSUME NEW m \in 1 .. sends', NEW k \in 1 .. SendSize, (m - 1) * SendSize + k <= Len(out)
        PROVE  out[(m - 1) * SendSize + k] = [of |-> m, at |-> k]
    <3>1. m \in 1 .. sends
      <4> SUFFICES ASSUME m = sends + 1 PROVE FALSE
        BY <1>1, <1>3
      <4>1. m - 1 = sends /\ k \in Nat /\ k >= 1 /\ sends * SendSize \in Nat
        BY <1>3
      <4> QED
        BY <1>7, <2>1, <4>1
    <3> QED
      BY <1>6, <2>1, <3>1
  <2> QED
    BY <1>2, <1>7, <2>1 DEF SentInOrder
<1> QED
  BY <1>4, <1>5, <1>8 DEF IInv

\* Some more of a message is written, behind what has been written of it.
LEMMA WriteSomeStep ==
  ASSUME IInv, NEW n \in 1 .. SendSize, WriteSome(n)
  PROVE  IInv'
<1> DEFINE more == [k \in 1 .. n |-> [of |-> sends, at |-> off + k]]
           Units == [of : 1 .. MaxSends, at : 1 .. SendSize]
           base == (sends - 1) * SendSize
<1>1. sendOk /\ n <= SendSize - off /\ out' = out \o more /\ off' = off + n
  BY DEF WriteSome, Off
<1>2. UNCHANGED <<frames, start, stream, got, buf, batch, pc, received, sends, sendOk>>
  BY DEF WriteSome, recvVars, streamVars
<1>3. /\ sends \in Nat /\ sends <= MaxSends /\ MaxSends \in Nat /\ SendSize \in Nat /\ SendSize # 0
      /\ off \in Nat /\ off <= SendSize /\ n \in Nat /\ n >= 1 /\ out \in Seq(Units) /\ Len(out) \in Nat
      /\ off + n <= SendSize
  <2>1. /\ sends \in 0 .. MaxSends /\ MaxSends \in Nat /\ SendSize \in Nat \ {0}
        /\ off \in 0 .. SendSize /\ out \in Seq(Units)
    BY FramesAssumption DEF IInv, FramesTypeOK
  <2>2. Len(out) \in Nat
    BY Lengths
  <2> QED
    BY <1>1, <2>1, <2>2
<1>4. /\ Len(out) = IF sends = 0 THEN 0 ELSE base + off
      /\ \A m \in 1 .. sends, k \in 1 .. SendSize :
           (m - 1) * SendSize + k <= Len(out) => out[(m - 1) * SendSize + k] = [of |-> m, at |-> k]
  BY DEF IInv, SentInOrder
<1>5. sends # 0 /\ Len(out) = base + off /\ base \in Nat
  <2>1. sends # 0
    BY <1>3 DEF IInv, SendInv
  <2>2. sends - 1 \in Nat
    BY <1>3, <2>1
  <2>3. base \in Nat
    BY <1>3, <2>2
  <2> QED
    BY <1>4, <2>1, <2>3
<1>6. /\ more \in Seq(Units) /\ Len(more) = n
      /\ \A k \in 1 .. n : more[k] = [of |-> sends, at |-> off + k]
  <2>1. more \in [1 .. n -> Units]
    BY <1>3, <1>5
  <2>2. more \in Seq(Units) /\ Len(more) = n
    BY <1>3, <2>1, SeqOf
  <2> QED
    BY <2>2
<1> HIDE DEF more, Units
<1>7. /\ out' \in Seq(Units) /\ Len(out') = Len(out) + n
      /\ \A b \in 1 .. Len(out) : out'[b] = out[b]
      /\ \A k \in 1 .. n : out'[Len(out) + k] = [of |-> sends, at |-> off + k]
  <2>1. /\ out' \in Seq(Units) /\ Len(out') = Len(out) + Len(more)
        /\ \A b \in 1 .. Len(out) : out'[b] = out[b]
        /\ \A k \in 1 .. Len(more) : out'[Len(out) + k] = more[k]
    <3>1. out \in Seq(Units) /\ more \in Seq(Units) /\ out' = out \o more
      BY <1>1, <1>3, <1>6
    <3> QED
      BY ONLY <3>1, Joined
  <2> QED
    BY <1>6, <2>1
<1>8. FramesTypeOK'
  <2>1. off' \in 0 .. SendSize
    BY <1>1, <1>3
  <2>2. out' \in Seq([of : 1 .. MaxSends, at : 1 .. SendSize])
    BY <1>7 DEF Units
  <2> QED
    BY <1>2, <2>1, <2>2 DEF IInv, FramesTypeOK
<1>9. StreamInv' /\ BufInv' /\ BatchInv' /\ FramesIntact' /\ NothingWaits'
  BY <1>2, SameRecv
<1> HIDE DEF base
<1>10. Len(out') = base + off'
  BY <1>1, <1>3, <1>5, <1>7
<1>11. ASSUME NEW m \in 1 .. sends, NEW k \in 1 .. SendSize, (m - 1) * SendSize + k <= Len(out')
       PROVE  out'[(m - 1) * SendSize + k] = [of |-> m, at |-> k]
  <2> DEFINE b == (m - 1) * SendSize + k
  <2>0. (m - 1) * SendSize \in Nat /\ k \in Nat /\ k >= 1 /\ k <= SendSize /\ m \in Nat
    BY <1>3
  <2>1. CASE b <= Len(out)
    <3>1. b \in 1 .. Len(out)
      BY <1>3, <2>0, <2>1
    <3> QED
      BY <1>4, <1>7, <2>1, <3>1
  <2>2. CASE b > Len(out)
    <3>1. m = sends
      <4> SUFFICES ASSUME m <= sends - 1 PROVE FALSE
        BY <1>3
      <4>1. m * SendSize <= base /\ m * SendSize \in Nat
        BY <1>3, <1>5, <2>0, TimesMonotonic DEF base
      <4>2. (m - 1) * SendSize + SendSize = m * SendSize
        BY <1>3, <2>0
      <4> QED
        BY <1>3, <1>5, <2>0, <2>2, <4>1, <4>2
    <3>2. b = base + k
      BY <3>1 DEF base
    <3>3. PICK j \in 1 .. n : k = off + j
      <4>1. k - off \in 1 .. n /\ k = off + (k - off)
        BY <1>1, <1>3, <1>5, <1>10, <1>11, <2>0, <2>2, <3>2
      <4> QED
        BY <4>1
    <3>4. b = Len(out) + j
      BY <1>3, <1>5, <2>0, <3>2, <3>3
    <3> QED
      BY <1>7, <3>1, <3>3, <3>4
  <2> QED
    BY <1>3, <2>0, <2>1, <2>2
<1>12. SentInOrder'
  BY <1>2, <1>5, <1>10, <1>11 DEF SentInOrder, base
<1>13. SendInv'
  BY <1>2, <1>5 DEF SendInv
<1> QED
  BY <1>8, <1>9, <1>12, <1>13 DEF IInv

\* A message is given up where it is.
LEMMA WriteFailsStep ==
  ASSUME IInv, WriteFails
  PROVE  IInv'
<1>1. UNCHANGED <<frames, start, stream, got, buf, batch, pc, received, sends, off, out>> /\ sendOk' = FALSE
  BY DEF WriteFails, recvVars, streamVars
<1>2. FramesTypeOK'
  BY <1>1 DEF IInv, FramesTypeOK
<1>3. SentInOrder' /\ SendInv'
  BY <1>1 DEF IInv, SentInOrder, SendInv
<1> QED
  BY <1>1, <1>2, <1>3, SameRecv DEF IInv

-----------------------------------------------------------------------------
(* The theorems                                                            *)

\* Every step keeps the invariant.
LEMMA StepIInv == IInv /\ [FramesNext]_framesVars => IInv'
<1> SUFFICES ASSUME IInv, [FramesNext]_framesVars PROVE IInv'
  OBVIOUS
<1>1. CASE \E f \in Catalog : ServerSends(f)
  BY <1>1, ServerSendsStep
<1>2. CASE \E n \in 1 .. MaxRead : Read(n)
  BY <1>2, ReadStep
<1>3. CASE ReadFails
  <2>1. /\ UNCHANGED <<frames, start, stream, got, buf, batch, received, sends, off, out, sendOk>>
        /\ pc' = "error"
    BY <1>3 DEF ReadFails, streamVars, sendVars
  <2>2. batch' \in Seq(Seq(Bytes)) /\ buf' \in Seq(Bytes)
    BY <2>1 DEF IInv, FramesTypeOK
  <2> QED
    BY <2>1, <2>2, RecvEnds
<1>4. CASE DecodeFrame
  BY <1>4, DecodeFrameStep
<1>5. CASE DecodeRest
  BY <1>5, DecodeRestStep
<1>6. CASE SendNext
  BY <1>6, SendStep
<1>7. CASE WriteFails
  BY <1>7, WriteFailsStep
<1>8. CASE \E n \in 1 .. SendSize : WriteSome(n)
  BY <1>8, WriteSomeStep
<1>9. CASE UNCHANGED framesVars
  <2>1. UNCHANGED <<frames, start, stream, got, buf, batch, pc, received, sends, off, out, sendOk>>
    BY <1>9 DEF framesVars, recvVars, streamVars, sendVars
  <2>2. FramesTypeOK'
    BY <2>1 DEF IInv, FramesTypeOK
  <2>3. SentInOrder' /\ SendInv'
    BY <2>1 DEF IInv, SentInOrder, SendInv
  <2> QED
    BY <2>1, <2>2, <2>3, SameRecv DEF IInv
<1> QED
  BY <1>1, <1>2, <1>3, <1>4, <1>5, <1>6, <1>7, <1>8, <1>9 DEF FramesNext

\* The invariant holds throughout.
LEMMA Invariant == FramesSpec => []IInv
BY InitIInv, StepIInv, PTL DEF FramesSpec

\* Types; the offset of send stays within the message it slices.
THEOREM FramesTypeCorrect == FramesSpec => []FramesTypeOK
<1>1. IInv => FramesTypeOK
  BY DEF IInv
<1> QED
  BY Invariant, <1>1, PTL

\* However the stream is cut into reads, recv returns the server's frames
\* whole, in order and none twice, for every catalog of frames.
THEOREM FramesIntactHolds == FramesSpec => []FramesIntact
<1>1. IInv => FramesIntact
  BY DEF IInv
<1> QED
  BY Invariant, <1>1, PTL

\* recv never blocks in read with a message in its buffer.
THEOREM NothingWaitsHolds == FramesSpec => []NothingWaits
<1>1. IInv => NothingWaits
  BY DEF IInv
<1> QED
  BY Invariant, <1>1, PTL

\* Messages of any length go out whole, in order and unbroken, however short
\* the writes.
THEOREM SentInOrderHolds == FramesSpec => []SentInOrder
<1>1. IInv => SentInOrder
  BY DEF IInv
<1> QED
  BY Invariant, <1>1, PTL

-----------------------------------------------------------------------------
(* Messages.  A field is a part of the message at an offset (PartAt), and  *)
(* joining keeps parts; a cursor that moves on by the width of each field  *)
(* arrives at the places Lyrion knows (Laid).                              *)

\* Quotient and remainder.
LEMMA DivMod ==
  ASSUME NEW v \in Nat, NEW m \in Nat \ {0}
  PROVE  v \div m \in Nat /\ v % m \in Nat /\ v % m < m /\ v = (m * (v \div m)) + (v % m)
OBVIOUS

\* A number written as a multiple of m and less than m has that remainder.
LEMMA ModUnique ==
  ASSUME NEW m \in Nat \ {0}, NEW q \in Nat, NEW r \in 0 .. m - 1, NEW v \in Nat, v = m * q + r
  PROVE  v % m = r
<1> DEFINE p == v \div m
           s == v % m
<1>1. p \in Nat /\ s \in 0 .. m - 1 /\ v = m * p + s
  BY DivMod
<1> HIDE DEF p, s
<1>2. m * (p - q) = r - s
  BY <1>1
<1>3. p - q >= 1 => m * (p - q) >= m
  BY <1>1
<1>4. p - q <= -1 => m * (p - q) <= -m
  BY <1>1
<1>5. p = q
  BY <1>1, <1>2, <1>3, <1>4
<1>6. r = s
  BY <1>1, <1>5
<1> QED
  BY <1>6 DEF s

\* A number that fits is not changed.
LEMMA ModSmall ==
  ASSUME NEW m \in Nat \ {0}, NEW v \in Nat, v < m
  PROVE  v % m = v
OBVIOUS

\* A number written as its two halves is read as it was, modulo the width of both.
LEMMA Halves ==
  ASSUME NEW m \in Nat \ {0}, NEW v \in Nat
  PROVE  (((v \div m) % m) * m) + (v % m) = v % (m * m)
<1> DEFINE q == v \div m
           r == v % m
           a == q \div m
           b == q % m
<1>1. q \in Nat /\ r \in 0 .. m - 1 /\ v = m * q + r
  BY DivMod
<1>2. a \in Nat /\ b \in 0 .. m - 1 /\ q = m * a + b
  BY <1>1, DivMod
<1> HIDE DEF q, r, a, b
<1> DEFINE n == m * m
           c == (b * m) + r
<1>3. n \in Nat \ {0}
  OBVIOUS
<1>4. c \in 0 .. n - 1
  <2>1. (b + 1) * m <= m * m
    BY <1>2
  <2>2. c < (b + 1) * m /\ c \in Nat /\ (b + 1) * m \in Nat
    BY <1>1, <1>2
  <2> QED
    BY <2>1, <2>2, <1>3
<1>5. v = (n * a) + c
  <2>1. m * ((m * a) + b) + r = ((m * m) * a) + ((b * m) + r)
    BY <1>1, <1>2
  <2> QED
    BY <2>1, <1>1, <1>2
<1> HIDE DEF n, c
<1>6. v % n = c
  BY <1>2, <1>3, <1>4, <1>5, ModUnique
<1> QED
  BY <1>6 DEF q, r, b, n, c

-----------------------------------------------------------------------------
(* Parts of a sequence of bytes                                            *)

\* p is what follows the first `at` bytes of r.
PartAt(r, at, p) == at + Len(p) <= Len(r) /\ \A i \in 1 .. Len(p) : r[at + i] = p[i]

\* r is s with t behind it.
Adds(s, t, r) ==
  /\ r \in Seq(Nat) /\ Len(r) = Len(s) + Len(t) /\ PartAt(r, Len(s), t)
  /\ \A at \in Nat, p \in Seq(Nat) : PartAt(s, at, p) => PartAt(r, at, p)

\* Joining keeps the parts of the first sequence and adds the second behind it.
LEMMA Extend ==
  ASSUME NEW s \in Seq(Nat), NEW t \in Seq(Nat)
  PROVE  Adds(s, t, s \o t)
<1> DEFINE r == s \o t
<1>1. /\ r \in Seq(Nat) /\ Len(r) = Len(s) + Len(t) /\ Len(s) \in Nat /\ Len(t) \in Nat
      /\ \A i \in 1 .. Len(s) : r[i] = s[i]
      /\ \A i \in 1 .. Len(t) : r[Len(s) + i] = t[i]
  BY Joined
<1> HIDE DEF r
<1>2. PartAt(r, Len(s), t)
  BY <1>1 DEF PartAt
<1>3. ASSUME NEW at \in Nat, NEW p \in Seq(Nat), PartAt(s, at, p)
      PROVE  PartAt(r, at, p)
  <2>1. Len(p) \in Nat
    BY LenProperties
  <2>2. ASSUME NEW i \in 1 .. Len(p)
        PROVE  r[at + i] = p[i]
    <3>1. at + Len(p) <= Len(s) /\ i <= Len(p) /\ i >= 1
      BY <1>1, <1>3, <2>1 DEF PartAt
    <3>2. at + i \in 1 .. Len(s)
      BY <1>1, <2>1, <3>1
    <3>3. s[at + i] = p[i]
      BY <1>3 DEF PartAt
    <3> QED
      BY <1>1, <3>2, <3>3
  <2> QED
    BY <1>1, <1>3, <2>1, <2>2 DEF PartAt
<1> QED
  BY <1>1, <1>2, <1>3 DEF Adds, r

\* A part of a part is a part.
LEMMA Inside ==
  ASSUME NEW r \in Seq(Nat), NEW s \in Seq(Nat), NEW p \in Seq(Nat), NEW a \in Nat, NEW b \in Nat,
         PartAt(r, a, s), PartAt(s, b, p)
  PROVE  PartAt(r, a + b, p)
<1>1. Len(r) \in Nat /\ Len(s) \in Nat /\ Len(p) \in Nat
  BY LenProperties
<1>2. a + b + Len(p) <= Len(r)
  BY <1>1 DEF PartAt
<1>3. ASSUME NEW i \in 1 .. Len(p)
      PROVE  r[(a + b) + i] = p[i]
  <2>1. b + i \in 1 .. Len(s) /\ s[b + i] = p[i]
    <3>1. b + Len(p) <= Len(s) /\ i <= Len(p) /\ i >= 1
      BY <1>1 DEF PartAt
    <3>2. b + i \in 1 .. Len(s)
      BY <1>1, <3>1
    <3> QED
      BY <3>2 DEF PartAt
  <2>2. r[a + (b + i)] = s[b + i] /\ a + (b + i) = (a + b) + i
    BY <1>1, <2>1 DEF PartAt
  <2> QED
    BY <2>1, <2>2
<1> QED
  BY <1>1, <1>2, <1>3 DEF PartAt

\* What is left of a sequence behind its first k elements.
LEMMA Behind ==
  ASSUME NEW s \in Seq(Nat), NEW k \in Nat, k <= Len(s)
  PROVE  /\ SubSeq(s, k + 1, Len(s)) \in Seq(Nat) /\ Len(SubSeq(s, k + 1, Len(s))) = Len(s) - k
         /\ PartAt(s, k, SubSeq(s, k + 1, Len(s)))
<1> DEFINE m == k + 1
           n == Len(s)
           r == SubSeq(s, m, n)
<1>1. n \in Nat /\ n <= Len(s) /\ k <= n
  BY LenProperties
<1>2. m \in Nat /\ 1 <= m /\ m <= n + 1 /\ n - m + 1 = n - k /\ \A i \in Nat : m + i - 1 = k + i
  BY <1>1
<1> HIDE DEF m, n
<1>3. r \in Seq(Nat) /\ Len(r) = n - m + 1 /\ \A i \in 1 .. Len(r) : r[i] = s[m + i - 1]
  BY <1>1, <1>2, Part
<1> HIDE DEF r
<1>4. Len(r) = n - k /\ Len(r) \in Nat
  BY <1>1, <1>2, <1>3
<1>5. \A i \in 1 .. Len(r) : s[k + i] = r[i]
  <2> TAKE i \in 1 .. Len(r)
  <2>1. m + i - 1 = k + i
    BY <1>2, <1>4
  <2>2. r[i] = s[m + i - 1]
    BY <1>3
  <2> QED
    BY <2>1, <2>2
<1>6. k + Len(r) <= n
  BY <1>1, <1>4
<1>7. PartAt(s, k, r)
  BY <1>5, <1>6 DEF PartAt, n
<1> QED
  BY <1>3, <1>4, <1>7 DEF r, m, n

\* What is last is what is left behind all before it.
LEMMA Suffix ==
  ASSUME NEW r \in Seq(Nat), NEW p \in Seq(Nat), NEW at \in Nat, PartAt(r, at, p), Len(r) = at + Len(p)
  PROVE  SubSeq(r, at + 1, Len(r)) = p
<1> DEFINE b == SubSeq(r, at + 1, Len(r))
<1>1. Len(r) \in Nat /\ Len(p) \in Nat /\ at <= Len(r)
  BY LenProperties
<1>2. b \in Seq(Nat) /\ Len(b) = Len(r) - at /\ PartAt(r, at, b)
  BY <1>1, Behind
<1> HIDE DEF b
<1>3. Len(b) = Len(p)
  BY <1>1, <1>2
<1>4. \A i \in 1 .. Len(b) : b[i] = p[i]
  <2> TAKE i \in 1 .. Len(b)
  <2>1. r[at + i] = b[i]
    BY <1>2 DEF PartAt
  <2>2. r[at + i] = p[i]
    BY <1>3 DEF PartAt
  <2> QED
    BY <2>1, <2>2
<1>5. b = p
  BY <1>2, <1>3, <1>4, SeqEqual
<1> QED
  BY <1>5 DEF b

-----------------------------------------------------------------------------
(* Numbers                                                                 *)

\* The numbers of values of the integer types.
LEMMA Powers ==
  /\ U8 \in Nat \ {0} /\ U16 \in Nat \ {0} /\ U32 \in Nat \ {0} /\ U64 \in Nat \ {0}
  /\ U8 > 2 /\ U16 > U8 /\ U32 > 80
<1>1. U8 \in Nat /\ U8 > 2
  BY MessagesAssumption DEF U8
<1>2. U16 = U8 * U8 /\ U32 = U16 * U16 /\ U64 = U32 * U32
  BY DEF U16, U32, U64
<1> HIDE DEF U8, U16, U32, U64
<1>3. U16 \in Nat /\ U16 >= 9 /\ U16 > U8
  <2>1. U8 * U8 >= 3 * U8
    BY <1>1
  <2> QED
    BY <1>1, <1>2, <2>1
<1>4. U32 \in Nat /\ U32 >= 81
  <2>1. U16 * U16 >= 9 * U16
    BY <1>3
  <2> QED
    BY <1>2, <1>3, <2>1
<1>5. U64 \in Nat /\ U64 # 0
  <2>1. U32 * U32 >= U32
    BY <1>4
  <2> QED
    BY <1>2, <1>4, <2>1
<1> QED
  BY <1>1, <1>3, <1>4, <1>5

\* What is written of a number is as many bytes as its type has.
LEMMA PutBytes ==
  ASSUME NEW v \in Nat
  PROVE  /\ PutU8(v) \in Seq(Nat) /\ Len(PutU8(v)) = 1
         /\ PutU16(v) \in Seq(Nat) /\ Len(PutU16(v)) = 2
         /\ PutU32(v) \in Seq(Nat) /\ Len(PutU32(v)) = 4
         /\ PutU64(v) \in Seq(Nat) /\ Len(PutU64(v)) = 8
<1>1. \A n \in Nat : PutU8(n) \in Seq(Nat) /\ Len(PutU8(n)) = 1
  <2> TAKE n \in Nat
  <2>1. n % U8 \in Nat
    BY Powers, DivMod
  <2> QED
    BY <2>1 DEF PutU8
<1>2. \A n \in Nat : PutU16(n) \in Seq(Nat) /\ Len(PutU16(n)) = 2
  <2> TAKE n \in Nat
  <2> DEFINE hi == n \div U8
  <2>1. hi \in Nat
    BY Powers, DivMod
  <2>2. PutU16(n) = PutU8(hi) \o PutU8(n)
    BY DEF PutU16
  <2> HIDE DEF hi
  <2>3. /\ PutU8(hi) \in Seq(Nat) /\ Len(PutU8(hi)) = 1
        /\ PutU8(n) \in Seq(Nat) /\ Len(PutU8(n)) = 1
    BY <1>1, <2>1
  <2>4. Adds(PutU8(hi), PutU8(n), PutU16(n))
    BY <2>2, <2>3, Extend
  <2> QED
    BY <2>3, <2>4 DEF Adds
<1>3. \A n \in Nat : PutU32(n) \in Seq(Nat) /\ Len(PutU32(n)) = 4
  <2> TAKE n \in Nat
  <2> DEFINE hi == n \div U16
  <2>1. hi \in Nat
    BY Powers, DivMod
  <2>2. PutU32(n) = PutU16(hi) \o PutU16(n)
    BY DEF PutU32
  <2> HIDE DEF hi
  <2>3. /\ PutU16(hi) \in Seq(Nat) /\ Len(PutU16(hi)) = 2
        /\ PutU16(n) \in Seq(Nat) /\ Len(PutU16(n)) = 2
    BY <1>2, <2>1
  <2>4. Adds(PutU16(hi), PutU16(n), PutU32(n))
    BY <2>2, <2>3, Extend
  <2> QED
    BY <2>3, <2>4 DEF Adds
<1>4. \A n \in Nat : PutU64(n) \in Seq(Nat) /\ Len(PutU64(n)) = 8
  <2> TAKE n \in Nat
  <2> DEFINE hi == n \div U32
  <2>1. hi \in Nat
    BY Powers, DivMod
  <2>2. PutU64(n) = PutU32(hi) \o PutU32(n)
    BY DEF PutU64
  <2> HIDE DEF hi
  <2>3. /\ PutU32(hi) \in Seq(Nat) /\ Len(PutU32(hi)) = 4
        /\ PutU32(n) \in Seq(Nat) /\ Len(PutU32(n)) = 4
    BY <1>3, <2>1
  <2>4. Adds(PutU32(hi), PutU32(n), PutU64(n))
    BY <2>2, <2>3, Extend
  <2> QED
    BY <2>3, <2>4 DEF Adds
<1> QED
  BY <1>1, <1>2, <1>3, <1>4

\* What is written at a place is read there, modulo its width.
LEMMA GetPutU8 ==
  ASSUME NEW r \in Seq(Nat), NEW at \in Nat, NEW v \in Nat, PartAt(r, at, PutU8(v))
  PROVE  GetU8(r, at) = v % U8
<1>1. Len(PutU8(v)) = 1 /\ PutU8(v)[1] = v % U8
  BY DEF PutU8
<1>2. r[at + 1] = PutU8(v)[1]
  BY <1>1 DEF PartAt
<1> QED
  BY <1>1, <1>2 DEF GetU8

\* Reading a u16 where it was written gives the number, modulo its width.
LEMMA GetPutU16 ==
  ASSUME NEW r \in Seq(Nat), NEW at \in Nat, NEW v \in Nat, PartAt(r, at, PutU16(v))
  PROVE  GetU16(r, at) = v % U16
<1> DEFINE hi == v \div U8
<1>1. U8 \in Nat \ {0} /\ hi \in Nat
  BY Powers, DivMod
<1>2. PutU16(v) = PutU8(hi) \o PutU8(v)
  BY DEF PutU16
<1> HIDE DEF hi
<1>3. /\ PutU8(hi) \in Seq(Nat) /\ Len(PutU8(hi)) = 1 /\ PutU8(v) \in Seq(Nat)
      /\ PutU16(v) \in Seq(Nat)
  BY <1>1, PutBytes
<1>4. Adds(PutU8(hi), PutU8(v), PutU16(v))
  BY <1>2, <1>3, Extend
<1>5. PartAt(PutU16(v), 0, PutU8(hi)) /\ PartAt(PutU16(v), 1, PutU8(v))
  <2>1. PartAt(PutU8(hi), 0, PutU8(hi))
    BY <1>3 DEF PartAt
  <2> QED
    BY <1>3, <1>4, <2>1 DEF Adds
<1>6. PartAt(r, at + 0, PutU8(hi)) /\ PartAt(r, at + 1, PutU8(v))
  BY <1>3, <1>5, Inside
<1>7. GetU8(r, at) = hi % U8 /\ GetU8(r, at + 1) = v % U8
  <2>1. at + 0 = at /\ at + 1 \in Nat
    OBVIOUS
  <2> QED
    BY <1>1, <1>6, <2>1, GetPutU8
<1>8. ((hi % U8) * U8) + (v % U8) = v % U16
  BY <1>1, Halves DEF hi, U16
<1> QED
  BY <1>7, <1>8 DEF GetU16

\* The same for a u32.
LEMMA GetPutU32 ==
  ASSUME NEW r \in Seq(Nat), NEW at \in Nat, NEW v \in Nat, PartAt(r, at, PutU32(v))
  PROVE  GetU32(r, at) = v % U32
<1> DEFINE hi == v \div U16
<1>1. U16 \in Nat \ {0} /\ hi \in Nat
  BY Powers, DivMod
<1>2. PutU32(v) = PutU16(hi) \o PutU16(v)
  BY DEF PutU32
<1> HIDE DEF hi
<1>3. /\ PutU16(hi) \in Seq(Nat) /\ Len(PutU16(hi)) = 2 /\ PutU16(v) \in Seq(Nat)
      /\ PutU32(v) \in Seq(Nat)
  BY <1>1, PutBytes
<1>4. Adds(PutU16(hi), PutU16(v), PutU32(v))
  BY <1>2, <1>3, Extend
<1>5. PartAt(PutU32(v), 0, PutU16(hi)) /\ PartAt(PutU32(v), 2, PutU16(v))
  <2>1. PartAt(PutU16(hi), 0, PutU16(hi))
    BY <1>3 DEF PartAt
  <2> QED
    BY <1>3, <1>4, <2>1 DEF Adds
<1>6. PartAt(r, at + 0, PutU16(hi)) /\ PartAt(r, at + 2, PutU16(v))
  BY <1>3, <1>5, Inside
<1>7. GetU16(r, at) = hi % U16 /\ GetU16(r, at + 2) = v % U16
  <2>1. at + 0 = at /\ at + 2 \in Nat
    OBVIOUS
  <2> QED
    BY <1>1, <1>6, <2>1, GetPutU16
<1>8. ((hi % U16) * U16) + (v % U16) = v % U32
  BY <1>1, Halves DEF hi, U32
<1> QED
  BY <1>7, <1>8 DEF GetU32

\* The same for a u64.
LEMMA GetPutU64 ==
  ASSUME NEW r \in Seq(Nat), NEW at \in Nat, NEW v \in Nat, PartAt(r, at, PutU64(v))
  PROVE  GetU64(r, at) = v % U64
<1> DEFINE hi == v \div U32
<1>1. U32 \in Nat \ {0} /\ hi \in Nat
  BY Powers, DivMod
<1>2. PutU64(v) = PutU32(hi) \o PutU32(v)
  BY DEF PutU64
<1> HIDE DEF hi
<1>3. /\ PutU32(hi) \in Seq(Nat) /\ Len(PutU32(hi)) = 4 /\ PutU32(v) \in Seq(Nat)
      /\ PutU64(v) \in Seq(Nat)
  BY <1>1, PutBytes
<1>4. Adds(PutU32(hi), PutU32(v), PutU64(v))
  BY <1>2, <1>3, Extend
<1>5. PartAt(PutU64(v), 0, PutU32(hi)) /\ PartAt(PutU64(v), 4, PutU32(v))
  <2>1. PartAt(PutU32(hi), 0, PutU32(hi))
    BY <1>3 DEF PartAt
  <2> QED
    BY <1>3, <1>4, <2>1 DEF Adds
<1>6. PartAt(r, at + 0, PutU32(hi)) /\ PartAt(r, at + 4, PutU32(v))
  BY <1>3, <1>5, Inside
<1>7. GetU32(r, at) = hi % U32 /\ GetU32(r, at + 4) = v % U32
  <2>1. at + 0 = at /\ at + 4 \in Nat
    OBVIOUS
  <2> QED
    BY <1>1, <1>6, <2>1, GetPutU32
<1>8. ((hi % U32) * U32) + (v % U32) = v % U64
  BY <1>1, Halves DEF hi, U64
<1> QED
  BY <1>7, <1>8 DEF GetU64

\* The same of a place, for a value that fits it.
LEMMA AtU8 ==
  ASSUME NEW r \in Seq(Nat), NEW at \in Nat, NEW v \in Nat, v < U8,
         PartAt(r, at, PutU8(v))
  PROVE  At(r, <<at, 1>>) = v
<1>1. At(r, <<at, 1>>) = GetU8(r, at)
  BY DEF At
<1>2. U8 \in Nat \ {0}
  BY Powers
<1> QED
  BY <1>1, <1>2, GetPutU8, ModSmall

\* The same for a u16 that fits.
LEMMA AtU16 ==
  ASSUME NEW r \in Seq(Nat), NEW at \in Nat, NEW v \in Nat, v < U16,
         PartAt(r, at, PutU16(v))
  PROVE  At(r, <<at, 2>>) = v
<1>1. At(r, <<at, 2>>) = GetU16(r, at)
  BY DEF At
<1>2. U16 \in Nat \ {0}
  BY Powers
<1> QED
  BY <1>1, <1>2, GetPutU16, ModSmall

\* The same for a u32 that fits.
LEMMA AtU32 ==
  ASSUME NEW r \in Seq(Nat), NEW at \in Nat, NEW v \in Nat, v < U32,
         PartAt(r, at, PutU32(v))
  PROVE  At(r, <<at, 4>>) = v
<1>1. At(r, <<at, 4>>) = GetU32(r, at)
  BY DEF At
<1>2. U32 \in Nat \ {0}
  BY Powers
<1> QED
  BY <1>1, <1>2, GetPutU32, ModSmall

\* The same for a u64 that fits.
LEMMA AtU64 ==
  ASSUME NEW r \in Seq(Nat), NEW at \in Nat, NEW v \in Nat, v < U64,
         PartAt(r, at, PutU64(v))
  PROVE  At(r, <<at, 8>>) = v
<1>1. At(r, <<at, 8>>) = GetU64(r, at)
  BY DEF At
<1>2. U64 \in Nat \ {0}
  BY Powers
<1> QED
  BY <1>1, <1>2, GetPutU64, ModSmall

-----------------------------------------------------------------------------
(* Client messages                                                         *)

\* A message says how long its body is, and the body follows.
LEMMA Envelope ==
  ASSUME NEW cmd \in Nat, NEW body \in Seq(Nat), Len(body) < U32
  PROVE  /\ Framed(cmd, body) \in Seq(Nat) /\ Len(Framed(cmd, body)) = 5 + Len(body)
         /\ Framed(cmd, body)[1] = cmd /\ GetU32(Framed(cmd, body), 1) = Len(body)
         /\ SubSeq(Framed(cmd, body), 6, Len(Framed(cmd, body))) = body
<1> DEFINE c == <<cmd>>
           p == PutU32(Len(body))
           s == c \o p
           msg == Framed(cmd, body)
<1>1. msg = s \o body
  BY DEF Framed, LengthOf
<1>2. Len(body) \in Nat /\ c \in Seq(Nat) /\ Len(c) = 1 /\ c[1] = cmd
  BY LenProperties
<1>3. p \in Seq(Nat) /\ Len(p) = 4
  BY <1>2, PutBytes
<1>4. Adds(c, p, s)
  BY <1>2, <1>3, Extend
<1> HIDE DEF c, p, s, msg
<1>5. s \in Seq(Nat) /\ Len(s) = 5 /\ PartAt(s, 1, p) /\ PartAt(s, 0, c)
  <2>1. PartAt(c, 0, c)
    BY <1>2 DEF PartAt
  <2> QED
    BY <1>2, <1>3, <1>4, <2>1 DEF Adds
<1>6. Adds(s, body, msg)
  BY <1>1, <1>5, Extend
<1>7. msg \in Seq(Nat) /\ Len(msg) = 5 + Len(body) /\ PartAt(msg, 5, body)
  BY <1>5, <1>6 DEF Adds
<1>8. PartAt(msg, 1, p) /\ PartAt(msg, 0, c)
  BY <1>2, <1>3, <1>5, <1>6 DEF Adds
<1>9. msg[1] = cmd
  BY <1>2, <1>8 DEF PartAt
<1>10. GetU32(msg, 1) = Len(body)
  <2>1. GetU32(msg, 1) = Len(body) % U32
    BY <1>2, <1>7, <1>8, GetPutU32 DEF p
  <2>2. U32 \in Nat \ {0}
    BY Powers
  <2> QED
    BY <1>2, <2>1, <2>2, ModSmall
<1>11. SubSeq(msg, 6, Len(msg)) = body
  <2>1. 5 + 1 = 6
    OBVIOUS
  <2> QED
    BY <1>7, <2>1, Suffix
<1> QED
  BY <1>7, <1>9, <1>10, <1>11 DEF msg

\* A whole message that Lyrion takes for what was meant.
Says(msg, meaning) ==
  /\ msg \in Seq(Nat) /\ Len(msg) = 5 + GetU32(msg, 1) /\ Len(msg) >= 5
  /\ Reading(msg) = meaning

\* Every field of a StatusData fits the bytes a STAT has for it.
LEMMA StatTypes ==
  ASSUME NEW d \in StatusData
  PROVE  /\ d.crlf \in Nat /\ d.crlf < U8
         /\ d.buffer_size \in Nat /\ d.buffer_size < U32 /\ d.fullness \in Nat /\ d.fullness < U32
         /\ d.bytes_received \in Nat /\ d.bytes_received < U64
         /\ d.sig_strength \in Nat /\ d.sig_strength < U16 /\ d.voltage \in Nat /\ d.voltage < U16
         /\ d.output_buffer_size \in Nat /\ d.output_buffer_size < U32
         /\ d.output_buffer_fullness \in Nat /\ d.output_buffer_fullness < U32
         /\ d.elapsed_seconds \in Nat /\ d.elapsed_seconds < U32
         /\ d.elapsed_milliseconds \in Nat /\ d.elapsed_milliseconds < U32
         /\ d.error_code \in Nat /\ d.error_code < U16
         /\ IntoU32(d.jiffies) \in Nat /\ IntoU32(d.jiffies) < U32
         /\ IntoU32(d.timestamp) \in Nat /\ IntoU32(d.timestamp) < U32
<1>1. /\ U8 \in Nat \ {0} /\ U16 \in Nat \ {0} /\ U32 \in Nat \ {0} /\ U64 \in Nat \ {0}
  BY Powers
<1>2. /\ d.crlf \in 0 .. U8 - 1 /\ d.bytes_received \in 0 .. U64 - 1
      /\ d.sig_strength \in 0 .. U16 - 1 /\ d.voltage \in 0 .. U16 - 1 /\ d.error_code \in 0 .. U16 - 1
      /\ d.buffer_size \in 0 .. U32 - 1 /\ d.fullness \in 0 .. U32 - 1
      /\ d.output_buffer_size \in 0 .. U32 - 1 /\ d.output_buffer_fullness \in 0 .. U32 - 1
      /\ d.elapsed_seconds \in 0 .. U32 - 1 /\ d.elapsed_milliseconds \in 0 .. U32 - 1
      /\ d.jiffies \in Nat /\ d.timestamp \in Nat
  BY DEF StatusData
<1>3. \A n \in Nat : \A v \in 0 .. n - 1 : v \in Nat /\ v < n
  OBVIOUS
<1>4. \A v \in Nat : IntoU32(v) \in Nat /\ IntoU32(v) < U32
  BY <1>1 DEF IntoU32
<1> QED
  BY <1>1, <1>2, <1>3, <1>4

\* Where the body of a STAT has which field.
StatParts(body, code, d) ==
  /\ Len(body) = 50 /\ body[1] = code
  /\ PartAt(body, 1, PutU8(d.crlf))
  /\ PartAt(body, 4, PutU32(d.buffer_size))
  /\ PartAt(body, 8, PutU32(d.fullness))
  /\ PartAt(body, 12, PutU64(d.bytes_received))
  /\ PartAt(body, 20, PutU16(d.sig_strength))
  /\ PartAt(body, 22, PutU32(IntoU32(d.jiffies)))
  /\ PartAt(body, 26, PutU32(d.output_buffer_size))
  /\ PartAt(body, 30, PutU32(d.output_buffer_fullness))
  /\ PartAt(body, 34, PutU32(d.elapsed_seconds))
  /\ PartAt(body, 38, PutU16(d.voltage))
  /\ PartAt(body, 40, PutU32(d.elapsed_milliseconds))
  /\ PartAt(body, 44, PutU32(IntoU32(d.timestamp)))
  /\ PartAt(body, 48, PutU16(d.error_code))

\* The body of a STAT, written field after field, has each at its place.
LEMMA StatBody ==
  ASSUME NEW code \in Nat, NEW d \in StatusData
  PROVE  \E body \in Seq(Nat) : EncodeStat(code, d) = Framed(STAT, body) /\ StatParts(body, code, d)
<1> DEFINE b0 == <<code>>
           p1 == PutU8(d.crlf)
           b1 == b0 \o p1
           p2 == PutU16(0)
           b2 == b1 \o p2
           p3 == PutU32(d.buffer_size)
           b3 == b2 \o p3
           p4 == PutU32(d.fullness)
           b4 == b3 \o p4
           p5 == PutU64(d.bytes_received)
           b5 == b4 \o p5
           p6 == PutU16(d.sig_strength)
           b6 == b5 \o p6
           p7 == PutU32(IntoU32(d.jiffies))
           b7 == b6 \o p7
           p8 == PutU32(d.output_buffer_size)
           b8 == b7 \o p8
           p9 == PutU32(d.output_buffer_fullness)
           b9 == b8 \o p9
           p10 == PutU32(d.elapsed_seconds)
           b10 == b9 \o p10
           p11 == PutU16(d.voltage)
           b11 == b10 \o p11
           p12 == PutU32(d.elapsed_milliseconds)
           b12 == b11 \o p12
           p13 == PutU32(IntoU32(d.timestamp))
           b13 == b12 \o p13
           p14 == PutU16(d.error_code)
           b14 == b13 \o p14
<1>1. EncodeStat(code, d) = Framed(STAT, b14)
  BY DEF EncodeStat
<1>2. b0 \in Seq(Nat) /\ Len(b0) = 1 /\ b0[1] = code
  OBVIOUS
<1>3. /\ p1 \in Seq(Nat) /\ Len(p1) = 1
      /\ p2 \in Seq(Nat) /\ Len(p2) = 2
      /\ p3 \in Seq(Nat) /\ Len(p3) = 4
      /\ p4 \in Seq(Nat) /\ Len(p4) = 4
      /\ p5 \in Seq(Nat) /\ Len(p5) = 8
      /\ p6 \in Seq(Nat) /\ Len(p6) = 2
      /\ p7 \in Seq(Nat) /\ Len(p7) = 4
      /\ p8 \in Seq(Nat) /\ Len(p8) = 4
      /\ p9 \in Seq(Nat) /\ Len(p9) = 4
      /\ p10 \in Seq(Nat) /\ Len(p10) = 4
      /\ p11 \in Seq(Nat) /\ Len(p11) = 2
      /\ p12 \in Seq(Nat) /\ Len(p12) = 4
      /\ p13 \in Seq(Nat) /\ Len(p13) = 4
      /\ p14 \in Seq(Nat) /\ Len(p14) = 2
  BY PutBytes, StatTypes
<1> HIDE DEF b0, p1, p2, p3, p4, p5, p6, p7, p8, p9, p10, p11, p12, p13, p14
<1>4. /\ b1 \in Seq(Nat) /\ Len(b1) = 2 /\ PartAt(b1, 1, p1)
      /\ \A at \in Nat, p \in Seq(Nat) : PartAt(b0, at, p) => PartAt(b1, at, p)
  <2>1. Adds(b0, p1, b1)
    BY <1>3, <1>2, Extend
  <2> QED
    BY <1>3, <1>2, <2>1 DEF Adds
<1> HIDE DEF b1
<1>5. /\ b2 \in Seq(Nat) /\ Len(b2) = 4 /\ PartAt(b2, 2, p2)
      /\ \A at \in Nat, p \in Seq(Nat) : PartAt(b1, at, p) => PartAt(b2, at, p)
  <2>1. Adds(b1, p2, b2)
    BY <1>3, <1>4, Extend
  <2> QED
    BY <1>3, <1>4, <2>1 DEF Adds
<1> HIDE DEF b2
<1>6. /\ b3 \in Seq(Nat) /\ Len(b3) = 8 /\ PartAt(b3, 4, p3)
      /\ \A at \in Nat, p \in Seq(Nat) : PartAt(b2, at, p) => PartAt(b3, at, p)
  <2>1. Adds(b2, p3, b3)
    BY <1>3, <1>5, Extend
  <2> QED
    BY <1>3, <1>5, <2>1 DEF Adds
<1> HIDE DEF b3
<1>7. /\ b4 \in Seq(Nat) /\ Len(b4) = 12 /\ PartAt(b4, 8, p4)
      /\ \A at \in Nat, p \in Seq(Nat) : PartAt(b3, at, p) => PartAt(b4, at, p)
  <2>1. Adds(b3, p4, b4)
    BY <1>3, <1>6, Extend
  <2> QED
    BY <1>3, <1>6, <2>1 DEF Adds
<1> HIDE DEF b4
<1>8. /\ b5 \in Seq(Nat) /\ Len(b5) = 20 /\ PartAt(b5, 12, p5)
      /\ \A at \in Nat, p \in Seq(Nat) : PartAt(b4, at, p) => PartAt(b5, at, p)
  <2>1. Adds(b4, p5, b5)
    BY <1>3, <1>7, Extend
  <2> QED
    BY <1>3, <1>7, <2>1 DEF Adds
<1> HIDE DEF b5
<1>9. /\ b6 \in Seq(Nat) /\ Len(b6) = 22 /\ PartAt(b6, 20, p6)
      /\ \A at \in Nat, p \in Seq(Nat) : PartAt(b5, at, p) => PartAt(b6, at, p)
  <2>1. Adds(b5, p6, b6)
    BY <1>3, <1>8, Extend
  <2> QED
    BY <1>3, <1>8, <2>1 DEF Adds
<1> HIDE DEF b6
<1>10. /\ b7 \in Seq(Nat) /\ Len(b7) = 26 /\ PartAt(b7, 22, p7)
      /\ \A at \in Nat, p \in Seq(Nat) : PartAt(b6, at, p) => PartAt(b7, at, p)
  <2>1. Adds(b6, p7, b7)
    BY <1>3, <1>9, Extend
  <2> QED
    BY <1>3, <1>9, <2>1 DEF Adds
<1> HIDE DEF b7
<1>11. /\ b8 \in Seq(Nat) /\ Len(b8) = 30 /\ PartAt(b8, 26, p8)
      /\ \A at \in Nat, p \in Seq(Nat) : PartAt(b7, at, p) => PartAt(b8, at, p)
  <2>1. Adds(b7, p8, b8)
    BY <1>3, <1>10, Extend
  <2> QED
    BY <1>3, <1>10, <2>1 DEF Adds
<1> HIDE DEF b8
<1>12. /\ b9 \in Seq(Nat) /\ Len(b9) = 34 /\ PartAt(b9, 30, p9)
      /\ \A at \in Nat, p \in Seq(Nat) : PartAt(b8, at, p) => PartAt(b9, at, p)
  <2>1. Adds(b8, p9, b9)
    BY <1>3, <1>11, Extend
  <2> QED
    BY <1>3, <1>11, <2>1 DEF Adds
<1> HIDE DEF b9
<1>13. /\ b10 \in Seq(Nat) /\ Len(b10) = 38 /\ PartAt(b10, 34, p10)
      /\ \A at \in Nat, p \in Seq(Nat) : PartAt(b9, at, p) => PartAt(b10, at, p)
  <2>1. Adds(b9, p10, b10)
    BY <1>3, <1>12, Extend
  <2> QED
    BY <1>3, <1>12, <2>1 DEF Adds
<1> HIDE DEF b10
<1>14. /\ b11 \in Seq(Nat) /\ Len(b11) = 40 /\ PartAt(b11, 38, p11)
      /\ \A at \in Nat, p \in Seq(Nat) : PartAt(b10, at, p) => PartAt(b11, at, p)
  <2>1. Adds(b10, p11, b11)
    BY <1>3, <1>13, Extend
  <2> QED
    BY <1>3, <1>13, <2>1 DEF Adds
<1> HIDE DEF b11
<1>15. /\ b12 \in Seq(Nat) /\ Len(b12) = 44 /\ PartAt(b12, 40, p12)
      /\ \A at \in Nat, p \in Seq(Nat) : PartAt(b11, at, p) => PartAt(b12, at, p)
  <2>1. Adds(b11, p12, b12)
    BY <1>3, <1>14, Extend
  <2> QED
    BY <1>3, <1>14, <2>1 DEF Adds
<1> HIDE DEF b12
<1>16. /\ b13 \in Seq(Nat) /\ Len(b13) = 48 /\ PartAt(b13, 44, p13)
      /\ \A at \in Nat, p \in Seq(Nat) : PartAt(b12, at, p) => PartAt(b13, at, p)
  <2>1. Adds(b12, p13, b13)
    BY <1>3, <1>15, Extend
  <2> QED
    BY <1>3, <1>15, <2>1 DEF Adds
<1> HIDE DEF b13
<1>17. /\ b14 \in Seq(Nat) /\ Len(b14) = 50 /\ PartAt(b14, 48, p14)
      /\ \A at \in Nat, p \in Seq(Nat) : PartAt(b13, at, p) => PartAt(b14, at, p)
  <2>1. Adds(b13, p14, b14)
    BY <1>3, <1>16, Extend
  <2> QED
    BY <1>3, <1>16, <2>1 DEF Adds
<1> HIDE DEF b14
<1>18. PartAt(b14, 0, b0)
  <2>1. PartAt(b0, 0, b0)
    BY <1>2 DEF PartAt
  <2> QED
    BY <1>2, <2>1, <1>4, <1>5, <1>6, <1>7, <1>8, <1>9, <1>10, <1>11, <1>12, <1>13, <1>14, <1>15, <1>16, <1>17
<1>19. b14[1] = code
  BY <1>2, <1>18 DEF PartAt
<1>20. PartAt(b14, 1, p1)
  BY <1>3, <1>4, <1>5, <1>6, <1>7, <1>8, <1>9, <1>10, <1>11, <1>12, <1>13, <1>14, <1>15, <1>16, <1>17
<1>21. PartAt(b14, 4, p3)
  BY <1>3, <1>6, <1>7, <1>8, <1>9, <1>10, <1>11, <1>12, <1>13, <1>14, <1>15, <1>16, <1>17
<1>22. PartAt(b14, 8, p4)
  BY <1>3, <1>7, <1>8, <1>9, <1>10, <1>11, <1>12, <1>13, <1>14, <1>15, <1>16, <1>17
<1>23. PartAt(b14, 12, p5)
  BY <1>3, <1>8, <1>9, <1>10, <1>11, <1>12, <1>13, <1>14, <1>15, <1>16, <1>17
<1>24. PartAt(b14, 20, p6)
  BY <1>3, <1>9, <1>10, <1>11, <1>12, <1>13, <1>14, <1>15, <1>16, <1>17
<1>25. PartAt(b14, 22, p7)
  BY <1>3, <1>10, <1>11, <1>12, <1>13, <1>14, <1>15, <1>16, <1>17
<1>26. PartAt(b14, 26, p8)
  BY <1>3, <1>11, <1>12, <1>13, <1>14, <1>15, <1>16, <1>17
<1>27. PartAt(b14, 30, p9)
  BY <1>3, <1>12, <1>13, <1>14, <1>15, <1>16, <1>17
<1>28. PartAt(b14, 34, p10)
  BY <1>3, <1>13, <1>14, <1>15, <1>16, <1>17
<1>29. PartAt(b14, 38, p11)
  BY <1>3, <1>14, <1>15, <1>16, <1>17
<1>30. PartAt(b14, 40, p12)
  BY <1>3, <1>15, <1>16, <1>17
<1>31. PartAt(b14, 44, p13)
  BY <1>3, <1>16, <1>17
<1>32. PartAt(b14, 48, p14)
  BY <1>3, <1>17
<1>33. StatParts(b14, code, d)
  BY <1>17, <1>19, <1>20, <1>21, <1>22, <1>23, <1>24, <1>25, <1>26, <1>27, <1>28, <1>29, <1>30, <1>31, <1>32
  DEF StatParts, p1, p3, p4, p5, p6, p7, p8, p9, p10, p11, p12, p13, p14
<1>34. b14 \in Seq(Nat)
  BY <1>17
<1> QED
  BY <1>1, <1>33, <1>34

\* The names of the messages differ.
LEMMA Names == STAT # HELO /\ STAT # BYE /\ HELO # BYE /\ SETD \notin {STAT, HELO, BYE}
               /\ STAT \in Nat /\ HELO \in Nat /\ BYE \in Nat /\ SETD \in Nat
BY DEF STAT, HELO, BYE, SETD

\* What Lyrion reads is selected by the name.
LEMMA Readings ==
  ASSUME NEW msg, NEW body, SubSeq(msg, 6, Len(msg)) = body
  PROVE  /\ msg[1] = STAT => Reading(msg) = <<STAT, body[1], Fields(body, StatPlaces)>>
         /\ msg[1] = HELO =>
              Reading(msg) = <<HELO, Fields(body, HeloPlaces), SubSeq(body, 37, Len(body))>>
         /\ msg[1] = BYE => Reading(msg) = <<BYE, body[1]>>
         /\ msg[1] = SETD => Reading(msg) = <<SETD, body[1], Tail(body)>>
<1>1. CASE msg[1] = STAT
  BY <1>1, Names, Zenon DEF Reading
<1>2. CASE msg[1] = HELO
  BY <1>2, Names, Zenon DEF Reading
<1>3. CASE msg[1] = BYE
  BY <1>3, Names, Zenon DEF Reading
<1>4. CASE msg[1] = SETD
  BY <1>4, Names, Zenon DEF Reading
<1> QED
  BY <1>1, <1>2, <1>3, <1>4

\* A STAT says what the block holds, with zero for a clock that does not fit.
LEMMA StatSays ==
  ASSUME NEW code \in Nat, NEW d \in StatusData
  PROVE  Says(EncodeStat(code, d),
              <<STAT, code, [d EXCEPT !.jiffies = IntoU32(@), !.timestamp = IntoU32(@)]>>)
<1> DEFINE msg == EncodeStat(code, d)
           e == [d EXCEPT !.jiffies = IntoU32(@), !.timestamp = IntoU32(@)]
<1>0. /\ DOMAIN e = DOMAIN StatPlaces /\ e = [f \in DOMAIN StatPlaces |-> e[f]]
      /\ e["crlf"] = d.crlf
      /\ e["buffer_size"] = d.buffer_size
      /\ e["fullness"] = d.fullness
      /\ e["bytes_received"] = d.bytes_received
      /\ e["sig_strength"] = d.sig_strength
      /\ e["jiffies"] = IntoU32(d.jiffies)
      /\ e["output_buffer_size"] = d.output_buffer_size
      /\ e["output_buffer_fullness"] = d.output_buffer_fullness
      /\ e["elapsed_seconds"] = d.elapsed_seconds
      /\ e["voltage"] = d.voltage
      /\ e["elapsed_milliseconds"] = d.elapsed_milliseconds
      /\ e["timestamp"] = IntoU32(d.timestamp)
      /\ e["error_code"] = d.error_code
  <2>1. DOMAIN d = {"crlf", "buffer_size", "fullness", "bytes_received", "sig_strength", "jiffies",
                      "output_buffer_size", "output_buffer_fullness", "elapsed_seconds", "voltage",
                      "elapsed_milliseconds", "timestamp", "error_code"}
        /\ DOMAIN StatPlaces = DOMAIN d
    BY DEF StatusData, StatPlaces
  <2> QED
    BY <2>1 DEF StatusData
<1> HIDE DEF e
<1>1. PICK body \in Seq(Nat) : msg = Framed(STAT, body) /\ StatParts(body, code, d)
  BY StatBody, Zenon
<1> HIDE DEF msg
<1>2. /\ msg \in Seq(Nat) /\ Len(msg) = 55 /\ GetU32(msg, 1) = 50 /\ msg[1] = STAT
      /\ SubSeq(msg, 6, Len(msg)) = body
  <2>1. 50 < U32
    BY Powers
  <2>2. msg = Framed(STAT, body) /\ Len(body) = 50
    BY <1>1 DEF StatParts
  <2>3. /\ Framed(STAT, body) \in Seq(Nat) /\ Len(Framed(STAT, body)) = 5 + Len(body)
        /\ Framed(STAT, body)[1] = STAT /\ GetU32(Framed(STAT, body), 1) = Len(body)
        /\ SubSeq(Framed(STAT, body), 6, Len(Framed(STAT, body))) = body
    BY <2>1, <2>2, Envelope, Names
  <2> QED
    BY <2>2, <2>3
<1>3. Reading(msg) = <<STAT, body[1], Fields(body, StatPlaces)>>
  BY <1>2, Readings
<1>4. Fields(body, StatPlaces) = e
  <2>1. DOMAIN StatPlaces = {"crlf", "buffer_size", "fullness", "bytes_received", "sig_strength", "jiffies",
                               "output_buffer_size", "output_buffer_fullness", "elapsed_seconds", "voltage",
                               "elapsed_milliseconds", "timestamp", "error_code"}
    BY DEF StatPlaces
  <2>3. At(body, StatPlaces["crlf"]) = e["crlf"]
    <3>1. StatPlaces["crlf"] = <<1, 1>>
      BY DEF StatPlaces
    <3>2. d.crlf \in Nat /\ d.crlf < U8
      BY StatTypes
    <3>3. PartAt(body, 1, PutU8(d.crlf))
      BY <1>1 DEF StatParts
    <3>4. At(body, <<1, 1>>) = d.crlf
      BY <3>2, <3>3, AtU8
    <3> QED
      BY <1>0, <3>1, <3>4
  <2>4. At(body, StatPlaces["buffer_size"]) = e["buffer_size"]
    <3>1. StatPlaces["buffer_size"] = <<4, 4>>
      BY DEF StatPlaces
    <3>2. d.buffer_size \in Nat /\ d.buffer_size < U32
      BY StatTypes
    <3>3. PartAt(body, 4, PutU32(d.buffer_size))
      BY <1>1 DEF StatParts
    <3>4. At(body, <<4, 4>>) = d.buffer_size
      BY <3>2, <3>3, AtU32
    <3> QED
      BY <1>0, <3>1, <3>4
  <2>5. At(body, StatPlaces["fullness"]) = e["fullness"]
    <3>1. StatPlaces["fullness"] = <<8, 4>>
      BY DEF StatPlaces
    <3>2. d.fullness \in Nat /\ d.fullness < U32
      BY StatTypes
    <3>3. PartAt(body, 8, PutU32(d.fullness))
      BY <1>1 DEF StatParts
    <3>4. At(body, <<8, 4>>) = d.fullness
      BY <3>2, <3>3, AtU32
    <3> QED
      BY <1>0, <3>1, <3>4
  <2>6. At(body, StatPlaces["bytes_received"]) = e["bytes_received"]
    <3>1. StatPlaces["bytes_received"] = <<12, 8>>
      BY DEF StatPlaces
    <3>2. d.bytes_received \in Nat /\ d.bytes_received < U64
      BY StatTypes
    <3>3. PartAt(body, 12, PutU64(d.bytes_received))
      BY <1>1 DEF StatParts
    <3>4. At(body, <<12, 8>>) = d.bytes_received
      BY <3>2, <3>3, AtU64
    <3> QED
      BY <1>0, <3>1, <3>4
  <2>7. At(body, StatPlaces["sig_strength"]) = e["sig_strength"]
    <3>1. StatPlaces["sig_strength"] = <<20, 2>>
      BY DEF StatPlaces
    <3>2. d.sig_strength \in Nat /\ d.sig_strength < U16
      BY StatTypes
    <3>3. PartAt(body, 20, PutU16(d.sig_strength))
      BY <1>1 DEF StatParts
    <3>4. At(body, <<20, 2>>) = d.sig_strength
      BY <3>2, <3>3, AtU16
    <3> QED
      BY <1>0, <3>1, <3>4
  <2>8. At(body, StatPlaces["jiffies"]) = e["jiffies"]
    <3>1. StatPlaces["jiffies"] = <<22, 4>>
      BY DEF StatPlaces
    <3>2. IntoU32(d.jiffies) \in Nat /\ IntoU32(d.jiffies) < U32
      BY StatTypes
    <3>3. PartAt(body, 22, PutU32(IntoU32(d.jiffies)))
      BY <1>1 DEF StatParts
    <3>4. At(body, <<22, 4>>) = IntoU32(d.jiffies)
      BY <3>2, <3>3, AtU32
    <3> QED
      BY <1>0, <3>1, <3>4
  <2>9. At(body, StatPlaces["output_buffer_size"]) = e["output_buffer_size"]
    <3>1. StatPlaces["output_buffer_size"] = <<26, 4>>
      BY DEF StatPlaces
    <3>2. d.output_buffer_size \in Nat /\ d.output_buffer_size < U32
      BY StatTypes
    <3>3. PartAt(body, 26, PutU32(d.output_buffer_size))
      BY <1>1 DEF StatParts
    <3>4. At(body, <<26, 4>>) = d.output_buffer_size
      BY <3>2, <3>3, AtU32
    <3> QED
      BY <1>0, <3>1, <3>4
  <2>10. At(body, StatPlaces["output_buffer_fullness"]) = e["output_buffer_fullness"]
    <3>1. StatPlaces["output_buffer_fullness"] = <<30, 4>>
      BY DEF StatPlaces
    <3>2. d.output_buffer_fullness \in Nat /\ d.output_buffer_fullness < U32
      BY StatTypes
    <3>3. PartAt(body, 30, PutU32(d.output_buffer_fullness))
      BY <1>1 DEF StatParts
    <3>4. At(body, <<30, 4>>) = d.output_buffer_fullness
      BY <3>2, <3>3, AtU32
    <3> QED
      BY <1>0, <3>1, <3>4
  <2>11. At(body, StatPlaces["elapsed_seconds"]) = e["elapsed_seconds"]
    <3>1. StatPlaces["elapsed_seconds"] = <<34, 4>>
      BY DEF StatPlaces
    <3>2. d.elapsed_seconds \in Nat /\ d.elapsed_seconds < U32
      BY StatTypes
    <3>3. PartAt(body, 34, PutU32(d.elapsed_seconds))
      BY <1>1 DEF StatParts
    <3>4. At(body, <<34, 4>>) = d.elapsed_seconds
      BY <3>2, <3>3, AtU32
    <3> QED
      BY <1>0, <3>1, <3>4
  <2>12. At(body, StatPlaces["voltage"]) = e["voltage"]
    <3>1. StatPlaces["voltage"] = <<38, 2>>
      BY DEF StatPlaces
    <3>2. d.voltage \in Nat /\ d.voltage < U16
      BY StatTypes
    <3>3. PartAt(body, 38, PutU16(d.voltage))
      BY <1>1 DEF StatParts
    <3>4. At(body, <<38, 2>>) = d.voltage
      BY <3>2, <3>3, AtU16
    <3> QED
      BY <1>0, <3>1, <3>4
  <2>13. At(body, StatPlaces["elapsed_milliseconds"]) = e["elapsed_milliseconds"]
    <3>1. StatPlaces["elapsed_milliseconds"] = <<40, 4>>
      BY DEF StatPlaces
    <3>2. d.elapsed_milliseconds \in Nat /\ d.elapsed_milliseconds < U32
      BY StatTypes
    <3>3. PartAt(body, 40, PutU32(d.elapsed_milliseconds))
      BY <1>1 DEF StatParts
    <3>4. At(body, <<40, 4>>) = d.elapsed_milliseconds
      BY <3>2, <3>3, AtU32
    <3> QED
      BY <1>0, <3>1, <3>4
  <2>14. At(body, StatPlaces["timestamp"]) = e["timestamp"]
    <3>1. StatPlaces["timestamp"] = <<44, 4>>
      BY DEF StatPlaces
    <3>2. IntoU32(d.timestamp) \in Nat /\ IntoU32(d.timestamp) < U32
      BY StatTypes
    <3>3. PartAt(body, 44, PutU32(IntoU32(d.timestamp)))
      BY <1>1 DEF StatParts
    <3>4. At(body, <<44, 4>>) = IntoU32(d.timestamp)
      BY <3>2, <3>3, AtU32
    <3> QED
      BY <1>0, <3>1, <3>4
  <2>15. At(body, StatPlaces["error_code"]) = e["error_code"]
    <3>1. StatPlaces["error_code"] = <<48, 2>>
      BY DEF StatPlaces
    <3>2. d.error_code \in Nat /\ d.error_code < U16
      BY StatTypes
    <3>3. PartAt(body, 48, PutU16(d.error_code))
      BY <1>1 DEF StatParts
    <3>4. At(body, <<48, 2>>) = d.error_code
      BY <3>2, <3>3, AtU16
    <3> QED
      BY <1>0, <3>1, <3>4
  <2>16. \A f \in DOMAIN StatPlaces : At(body, StatPlaces[f]) = e[f]
    BY <2>1, <2>3, <2>4, <2>5, <2>6, <2>7, <2>8, <2>9, <2>10, <2>11, <2>12, <2>13, <2>14, <2>15
  <2> QED
    BY <1>0, <2>16 DEF Fields
<1>5. body[1] = code
  BY <1>1 DEF StatParts
<1>6. Reading(msg) = <<STAT, code, e>>
  BY <1>3, <1>4, <1>5
<1>7. Len(msg) = 5 + GetU32(msg, 1) /\ Len(msg) >= 5
  BY <1>2
<1>8. Says(msg, <<STAT, code, e>>)
  BY <1>2, <1>6, <1>7 DEF Says
<1> QED
  BY <1>8 DEF msg, e

\* A HELO says its device, channel list, bytes received and capabilities.
LEMMA HeloSays ==
  ASSUME NEW id \in Nat, id < U8, NEW wlan \in Nat, wlan < U16,
         NEW n \in Nat, n < U64, NEW caps \in Seq(Nat), Len(caps) + 36 < U32
  PROVE  Says(EncodeHelo(id, wlan, n, caps),
              <<HELO, [device_id |-> id, wlan_channel_list |-> wlan, bytes_received |-> n], caps>>)
<1> DEFINE msg == EncodeHelo(id, wlan, n, caps)
           e == [device_id |-> id, wlan_channel_list |-> wlan, bytes_received |-> n]
           b1 == PutU8(id)
           p2 == Blank(1)
           b2 == b1 \o p2
           p3 == Blank(6)
           b3 == b2 \o p3
           p4 == Blank(16)
           b4 == b3 \o p4
           p5 == PutU16(wlan)
           b5 == b4 \o p5
           p6 == PutU64(n)
           b6 == b5 \o p6
           p7 == Blank(2)
           b7 == b6 \o p7
           b8 == b7 \o caps
<1>1. msg = Framed(HELO, b8)
  BY DEF EncodeHelo
<1>2. \A k \in Nat : Blank(k) \in Seq(Nat) /\ Len(Blank(k)) = k
  BY DEF Blank
<1>3. /\ b1 \in Seq(Nat) /\ Len(b1) = 1
      /\ p2 \in Seq(Nat) /\ Len(p2) = 1 /\ p3 \in Seq(Nat) /\ Len(p3) = 6
      /\ p4 \in Seq(Nat) /\ Len(p4) = 16 /\ p5 \in Seq(Nat) /\ Len(p5) = 2
      /\ p6 \in Seq(Nat) /\ Len(p6) = 8 /\ p7 \in Seq(Nat) /\ Len(p7) = 2
      /\ Len(caps) \in Nat
  BY <1>2, PutBytes, LenProperties
<1> HIDE DEF msg, b1, p2, p3, p4, p5, p6, p7
<1>4. /\ b2 \in Seq(Nat) /\ Len(b2) = 2 /\ PartAt(b2, 1, p2)
      /\ \A at \in Nat, p \in Seq(Nat) : PartAt(b1, at, p) => PartAt(b2, at, p)
  <2>1. Adds(b1, p2, b2)
    BY <1>3, <1>3, Extend
  <2> QED
    BY <1>3, <1>3, <2>1 DEF Adds
<1> HIDE DEF b2
<1>5. /\ b3 \in Seq(Nat) /\ Len(b3) = 8 /\ PartAt(b3, 2, p3)
      /\ \A at \in Nat, p \in Seq(Nat) : PartAt(b2, at, p) => PartAt(b3, at, p)
  <2>1. Adds(b2, p3, b3)
    BY <1>3, <1>4, Extend
  <2> QED
    BY <1>3, <1>4, <2>1 DEF Adds
<1> HIDE DEF b3
<1>6. /\ b4 \in Seq(Nat) /\ Len(b4) = 24 /\ PartAt(b4, 8, p4)
      /\ \A at \in Nat, p \in Seq(Nat) : PartAt(b3, at, p) => PartAt(b4, at, p)
  <2>1. Adds(b3, p4, b4)
    BY <1>3, <1>5, Extend
  <2> QED
    BY <1>3, <1>5, <2>1 DEF Adds
<1> HIDE DEF b4
<1>7. /\ b5 \in Seq(Nat) /\ Len(b5) = 26 /\ PartAt(b5, 24, p5)
      /\ \A at \in Nat, p \in Seq(Nat) : PartAt(b4, at, p) => PartAt(b5, at, p)
  <2>1. Adds(b4, p5, b5)
    BY <1>3, <1>6, Extend
  <2> QED
    BY <1>3, <1>6, <2>1 DEF Adds
<1> HIDE DEF b5
<1>8. /\ b6 \in Seq(Nat) /\ Len(b6) = 34 /\ PartAt(b6, 26, p6)
      /\ \A at \in Nat, p \in Seq(Nat) : PartAt(b5, at, p) => PartAt(b6, at, p)
  <2>1. Adds(b5, p6, b6)
    BY <1>3, <1>7, Extend
  <2> QED
    BY <1>3, <1>7, <2>1 DEF Adds
<1> HIDE DEF b6
<1>9. /\ b7 \in Seq(Nat) /\ Len(b7) = 36 /\ PartAt(b7, 34, p7)
      /\ \A at \in Nat, p \in Seq(Nat) : PartAt(b6, at, p) => PartAt(b7, at, p)
  <2>1. Adds(b6, p7, b7)
    BY <1>3, <1>8, Extend
  <2> QED
    BY <1>3, <1>8, <2>1 DEF Adds
<1> HIDE DEF b7
<1>10. /\ b8 \in Seq(Nat) /\ Len(b8) = 36 + Len(caps) /\ PartAt(b8, 36, caps)
      /\ \A at \in Nat, p \in Seq(Nat) : PartAt(b7, at, p) => PartAt(b8, at, p)
  <2>1. Adds(b7, caps, b8)
    BY <1>3, <1>9, Extend
  <2> QED
    BY <1>3, <1>9, <2>1 DEF Adds
<1> HIDE DEF b8
<1>11. PartAt(b8, 0, b1)
  <2>1. PartAt(b1, 0, b1)
    BY <1>3 DEF PartAt
  <2> QED
    BY <1>3, <2>1, <1>4, <1>5, <1>6, <1>7, <1>8, <1>9, <1>10
<1>12. PartAt(b8, 24, p5)
  BY <1>3, <1>7, <1>8, <1>9, <1>10
<1>13. PartAt(b8, 26, p6)
  BY <1>3, <1>8, <1>9, <1>10
<1>14. SubSeq(b8, 37, Len(b8)) = caps
  <2>1. SubSeq(b8, 36 + 1, Len(b8)) = caps
    BY <1>10, Suffix
  <2> QED
    BY <2>1
<1>15. Fields(b8, HeloPlaces) = e
  <2>1. /\ DOMAIN HeloPlaces = {"device_id", "wlan_channel_list", "bytes_received"}
        /\ HeloPlaces["device_id"] = <<0, 1>> /\ HeloPlaces["wlan_channel_list"] = <<24, 2>>
        /\ HeloPlaces["bytes_received"] = <<26, 8>>
    BY DEF HeloPlaces
  <2>2. /\ e = [f \in DOMAIN HeloPlaces |-> e[f]]
        /\ e["device_id"] = id /\ e["wlan_channel_list"] = wlan /\ e["bytes_received"] = n
    BY <2>1
  <2> HIDE DEF e
  <2>3. At(b8, <<0, 1>>) = id
    BY <1>10, <1>11, AtU8 DEF b1
  <2>4. At(b8, <<24, 2>>) = wlan
    BY <1>10, <1>12, AtU16 DEF p5
  <2>5. At(b8, <<26, 8>>) = n
    BY <1>10, <1>13, AtU64 DEF p6
  <2>6. \A f \in DOMAIN HeloPlaces : At(b8, HeloPlaces[f]) = e[f]
    BY <2>1, <2>2, <2>3, <2>4, <2>5
  <2> QED
    BY <2>2, <2>6 DEF Fields
<1> HIDE DEF e
<1>16. Len(b8) \in Nat /\ Len(b8) < U32
  BY <1>3, <1>10, Powers
<1>17. /\ Framed(HELO, b8) \in Seq(Nat) /\ Len(Framed(HELO, b8)) = 5 + Len(b8)
       /\ Framed(HELO, b8)[1] = HELO /\ GetU32(Framed(HELO, b8), 1) = Len(b8)
       /\ SubSeq(Framed(HELO, b8), 6, Len(Framed(HELO, b8))) = b8
  BY <1>10, <1>16, Envelope, Names
<1>18. Reading(msg) = <<HELO, Fields(b8, HeloPlaces), SubSeq(b8, 37, Len(b8))>>
  BY <1>1, <1>17, Readings
<1> QED
  BY <1>1, <1>14, <1>15, <1>16, <1>17, <1>18 DEF Says, msg, e

\* A BYE! says its value.
LEMMA ByeSays ==
  Says(EncodeBye(0), <<BYE, 0>>)
<1> DEFINE body == PutU8(0)
<1>1. U8 \in Nat \ {0} /\ U32 \in Nat /\ 1 < U32
  BY Powers
<1>2. body \in Seq(Nat) /\ Len(body) = 1 /\ body[1] = 0
  BY <1>1, ModSmall DEF PutU8
<1> HIDE DEF body
<1>3. /\ Framed(BYE, body) \in Seq(Nat) /\ Len(Framed(BYE, body)) = 5 + Len(body)
      /\ Framed(BYE, body)[1] = BYE /\ GetU32(Framed(BYE, body), 1) = Len(body)
      /\ SubSeq(Framed(BYE, body), 6, Len(Framed(BYE, body))) = body
  BY <1>1, <1>2, Envelope, Names
<1>4. EncodeBye(0) = Framed(BYE, body)
  BY DEF EncodeBye, body
<1>5. Reading(EncodeBye(0)) = <<BYE, body[1]>>
  BY <1>3, <1>4, Readings
<1>6. Reading(EncodeBye(0)) = <<BYE, 0>>
  BY <1>2, <1>5
<1> DEFINE msg == EncodeBye(0)
           meaning == <<BYE, 0>>
<1>7. msg \in Seq(Nat) /\ Len(msg) = 6 /\ GetU32(msg, 1) = 1 /\ Reading(msg) = meaning
  BY <1>2, <1>3, <1>4, <1>6
<1> HIDE DEF msg, meaning
<1>8. Says(msg, meaning)
  BY <1>7 DEF Says
<1> QED
  BY <1>8 DEF msg, meaning

\* A SETD says the name of the player.
LEMMA NameSays ==
  ASSUME NEW text \in Seq(Nat), Len(text) + 36 < U32
  PROVE  Says(EncodeName(text), <<SETD, 0, text>>)
<1> DEFINE z == PutU8(0)
           body == z \o text
<1>1. U8 \in Nat \ {0} /\ U32 \in Nat
  BY Powers
<1>2. z \in Seq(Nat) /\ Len(z) = 1 /\ z[1] = 0
  BY <1>1, ModSmall DEF PutU8
<1> HIDE DEF z
<1>3. Adds(z, text, body)
  BY <1>2, Extend
<1>4. PartAt(z, 0, z)
  BY <1>2 DEF PartAt
<1>5. EncodeName(text) = Framed(SETD, body)
  BY DEF EncodeName, z
<1> HIDE DEF body
<1>6. Len(text) \in Nat
  BY LenProperties
<1>7. body \in Seq(Nat) /\ Len(body) = 1 + Len(text) /\ PartAt(body, 1, text) /\ PartAt(body, 0, z)
  BY <1>2, <1>3, <1>4 DEF Adds
<1>8. body[1] = 0
  BY <1>2, <1>7 DEF PartAt
<1>9. Tail(body) = text
  <2>1. Tail(body) = SubSeq(body, 2, Len(body))
    BY <1>6, <1>7
  <2>2. 1 + 1 = 2
    OBVIOUS
  <2> QED
    BY <1>7, <2>1, <2>2, Suffix
<1>10. Len(body) \in Nat /\ Len(body) < U32
  BY <1>1, <1>6, <1>7
<1>11. /\ Framed(SETD, body) \in Seq(Nat) /\ Len(Framed(SETD, body)) = 5 + Len(body)
       /\ Framed(SETD, body)[1] = SETD /\ GetU32(Framed(SETD, body), 1) = Len(body)
       /\ SubSeq(Framed(SETD, body), 6, Len(Framed(SETD, body))) = body
  BY <1>7, <1>10, Envelope, Names
<1>12. Reading(EncodeName(text)) = <<SETD, body[1], Tail(body)>>
  BY <1>5, <1>11, Readings
<1> DEFINE msg == EncodeName(text)
<1>13. msg \in Seq(Nat) /\ Len(msg) = 5 + Len(body) /\ GetU32(msg, 1) = Len(body)
  BY <1>5, <1>11
<1>14. Reading(msg) = <<SETD, 0, text>>
  BY <1>8, <1>9, <1>12
<1> HIDE DEF msg
<1>15. Len(msg) >= 5 /\ Len(msg) = 5 + GetU32(msg, 1)
  BY <1>10, <1>13
<1>16. Says(msg, <<SETD, 0, text>>)
  BY <1>13, <1>14, <1>15 DEF Says
<1> QED
  BY <1>16 DEF msg

\* A status message says what the history says, whatever was counted since.
LEMMA StatusSays ==
  ASSUME NEW code \in Nat, NEW data \in StatusData, now \in Nat,
         data.crlf = added.crlf % U8, data.bytes_received = added.bytes % U64
  PROVE  /\ [data EXCEPT !.jiffies = now] \in StatusData
         /\ Says(EncodeStat(code, [data EXCEPT !.jiffies = now]), StatMeaning(code, data))
<1> DEFINE d == [data EXCEPT !.jiffies = now]
           e == [d EXCEPT !.jiffies = IntoU32(@), !.timestamp = IntoU32(@)]
<1>1. d \in StatusData
  BY DEF StatusData
<1>2. Says(EncodeStat(code, d), <<STAT, code, e>>)
  BY <1>1, StatSays
<1>3. StatMeaning(code, data) = <<STAT, code, e>>
  BY DEF StatMeaning, StatusData, IntoU32
<1> QED
  BY <1>1, <1>2, <1>3

\* A cursor that moves on by the width of each field is the cursor.
LEMMA CursorMoves ==
  ASSUME NEW layout, NEW n \in Nat, Len(layout) + 1 = n, NEW w \in [1 .. n -> Nat],
         \A i \in 1 .. n : w[i] = IF i = 1 THEN 0 ELSE w[i - 1] + layout[i - 1][2]
  PROVE  \A i \in 1 .. n :
           Cursor(layout)[i] = IF i = 1 THEN 0 ELSE Cursor(layout)[i - 1] + layout[i - 1][2]
<1> DEFINE F(c) == [i \in 1 .. n |-> IF i = 1 THEN 0 ELSE c[i - 1] + layout[i - 1][2]]
<1>1. w = F(w)
  OBVIOUS
<1>2. \E c : c = F(c)
  BY <1>1
<1>3. Cursor(layout) = CHOOSE c : c = F(c)
  BY DEF Cursor
<1> HIDE DEF F
<1>4. Cursor(layout) = F(Cursor(layout))
  BY <1>2, <1>3
<1> DEFINE c == Cursor(layout)
<1> HIDE DEF c
<1>5. c = F(c)
  BY <1>4 DEF c
<1>6. \A i \in 1 .. n : c[i] = IF i = 1 THEN 0 ELSE c[i - 1] + layout[i - 1][2]
  BY <1>5 DEF F
<1> QED
  BY <1>6 DEF c

\* A layout names a field once.
Distinct(layout) == \A i, j \in 1 .. Len(layout) : layout[i][1] = layout[j][1] => i = j

\* A field is split off where the cursor is then.
LEMMA SplitPlace ==
  ASSUME NEW layout, Distinct(layout), NEW k \in 1 .. Len(layout), layout[k][1] # ""
  PROVE  SplitAt(layout)[layout[k][1]] = <<Cursor(layout)[k], layout[k][2]>>
<1> DEFINE names == {layout[i][1] : i \in 1 .. Len(layout)} \ {""}
           index(g) == CHOOSE i \in 1 .. Len(layout) : layout[i][1] = g
           f == layout[k][1]
<1>1. SplitAt(layout) = [g \in names |-> <<Cursor(layout)[index(g)], layout[index(g)][2]>>]
  BY DEF SplitAt
<1>2. f \in names
  OBVIOUS
<1>3. index(f) = k
  BY DEF Distinct
<1> HIDE DEF names, index, f
<1>4. SplitAt(layout)[f] = <<Cursor(layout)[k], layout[k][2]>>
  BY <1>1, <1>2, <1>3
<1> QED
  BY <1>4 DEF f

\* The fields that are split off are those with a name.
LEMMA SplitNames ==
  ASSUME NEW layout, NEW n \in Nat, Len(layout) = n
  PROVE  DOMAIN SplitAt(layout) = {layout[i][1] : i \in 1 .. n} \ {""}
BY DEF SplitAt

\* Splitting by a layout leads to places, counted from behind the first `skip`
\* bytes, and takes `needs` bytes.
Laid(layout, places, skip, needs) ==
  /\ Needs(layout) = needs /\ DOMAIN SplitAt(layout) = DOMAIN places
  /\ \A f \in DOMAIN places : \E a \in Nat, n \in {1, 2, 4} :
       places[f] = <<a + skip, n>> /\ SplitAt(layout)[f] = <<a, n>> /\ a + n <= needs

\* The fields of strm s as they are split off, one by one.
LEMMA StreamWidths ==
  /\ Len(StreamFields) = 16
  /\ \A i \in 1 .. 16 : StreamFields[i][2] = IF i <= 13 THEN 1 ELSE IF i = 15 THEN 2 ELSE 4
<1>1. Len(StreamFields) = 16
  BY DEF StreamFields
<1>2. StreamFields[1][2] = 1
  BY DEF StreamFields
<1>3. StreamFields[2][2] = 1
  BY DEF StreamFields
<1>4. StreamFields[3][2] = 1
  BY DEF StreamFields
<1>5. StreamFields[4][2] = 1
  BY DEF StreamFields
<1>6. StreamFields[5][2] = 1
  BY DEF StreamFields
<1>7. StreamFields[6][2] = 1
  BY DEF StreamFields
<1>8. StreamFields[7][2] = 1
  BY DEF StreamFields
<1>9. StreamFields[8][2] = 1
  BY DEF StreamFields
<1>10. StreamFields[9][2] = 1
  BY DEF StreamFields
<1>11. StreamFields[10][2] = 1
  BY DEF StreamFields
<1>12. StreamFields[11][2] = 1
  BY DEF StreamFields
<1>13. StreamFields[12][2] = 1
  BY DEF StreamFields
<1>14. StreamFields[13][2] = 1
  BY DEF StreamFields
<1>15. StreamFields[14][2] = 4
  BY DEF StreamFields
<1>16. StreamFields[15][2] = 2
  BY DEF StreamFields
<1>17. StreamFields[16][2] = 4
  BY DEF StreamFields
<1>18. \A i \in 1 .. 16 : i = 1 \/ i = 2 \/ i = 3 \/ i = 4 \/ i = 5 \/ i = 6 \/ i = 7 \/ i = 8 \/ i = 9 \/ i = 10
      \/ i = 11 \/ i = 12 \/ i = 13 \/ i = 14 \/ i = 15 \/ i = 16
  OBVIOUS
<1> QED
  BY <1>1, <1>2, <1>3, <1>4, <1>5, <1>6, <1>7, <1>8, <1>9, <1>10, <1>11, <1>12, <1>13, <1>14, <1>15, <1>16,
     <1>17, <1>18

\* How far strm s has been split off before each field.
LEMMA StreamCursor ==
  /\ Cursor(StreamFields)[1] = 0 /\ Cursor(StreamFields)[2] = 1 /\ Cursor(StreamFields)[3] = 2
  /\ Cursor(StreamFields)[4] = 3 /\ Cursor(StreamFields)[5] = 4 /\ Cursor(StreamFields)[6] = 5
  /\ Cursor(StreamFields)[7] = 6 /\ Cursor(StreamFields)[8] = 7 /\ Cursor(StreamFields)[9] = 8
  /\ Cursor(StreamFields)[10] = 9 /\ Cursor(StreamFields)[11] = 10 /\ Cursor(StreamFields)[12] = 11
  /\ Cursor(StreamFields)[13] = 12 /\ Cursor(StreamFields)[14] = 13 /\ Cursor(StreamFields)[15] = 17
  /\ Cursor(StreamFields)[16] = 19 /\ Cursor(StreamFields)[17] = 23
<1> DEFINE w == [i \in 1 .. 17 |-> IF i <= 14 THEN i - 1 ELSE IF i = 15 THEN 17 ELSE IF i = 16 THEN 19 ELSE 23]
           c == Cursor(StreamFields)
<1>1. Len(StreamFields) + 1 = 17 /\ 17 \in Nat /\ w \in [1 .. 17 -> Nat]
  BY StreamWidths
<1>2. \A i \in 1 .. 17 : w[i] = IF i = 1 THEN 0 ELSE w[i - 1] + StreamFields[i - 1][2]
  BY StreamWidths
<1> HIDE DEF w, c
<1>3. \A i \in 1 .. 17 : c[i] = IF i = 1 THEN 0 ELSE c[i - 1] + StreamFields[i - 1][2]
  BY <1>1, <1>2, CursorMoves DEF c
<1>4. c[1] = 0
  BY <1>3
<1>5. c[2] = 1
  BY <1>3, <1>4, StreamWidths
<1>6. c[3] = 2
  BY <1>3, <1>5, StreamWidths
<1>7. c[4] = 3
  BY <1>3, <1>6, StreamWidths
<1>8. c[5] = 4
  BY <1>3, <1>7, StreamWidths
<1>9. c[6] = 5
  BY <1>3, <1>8, StreamWidths
<1>10. c[7] = 6
  BY <1>3, <1>9, StreamWidths
<1>11. c[8] = 7
  BY <1>3, <1>10, StreamWidths
<1>12. c[9] = 8
  BY <1>3, <1>11, StreamWidths
<1>13. c[10] = 9
  BY <1>3, <1>12, StreamWidths
<1>14. c[11] = 10
  BY <1>3, <1>13, StreamWidths
<1>15. c[12] = 11
  BY <1>3, <1>14, StreamWidths
<1>16. c[13] = 12
  BY <1>3, <1>15, StreamWidths
<1>17. c[14] = 13
  BY <1>3, <1>16, StreamWidths
<1>18. c[15] = 17
  BY <1>3, <1>17, StreamWidths
<1>19. c[16] = 19
  BY <1>3, <1>18, StreamWidths
<1>20. c[17] = 23
  BY <1>3, <1>19, StreamWidths
<1> QED
  BY <1>4, <1>5, <1>6, <1>7, <1>8, <1>9, <1>10, <1>11, <1>12, <1>13, <1>14, <1>15, <1>16, <1>17, <1>18,
     <1>19, <1>20 DEF c

\* Splitting strm s field by field leads to where Lyrion puts them.
LEMMA StreamLaid == Laid(StreamFields, Places["Stream"], 1, 23)
<1> DEFINE lay == StreamFields
           split == SplitAt(lay)
           places == Places["Stream"]
           fields == {"autostart", "format", "pcmsamplesize", "pcmsamplerate", "pcmchannels", "pcmendian",
                      "threshold", "spdif_enable", "trans_period", "trans_type", "flags", "output_threshold",
                      "replay_gain", "server_port", "server_ip"}
           names == {lay[i][1] : i \in 1 .. 16} \ {""}
<1>1. Len(lay) = 16 /\ 16 \in Nat
  BY StreamWidths
<1>2. lay[1][1] = "autostart"
  BY DEF StreamFields
<1>3. lay[2][1] = "format"
  BY DEF StreamFields
<1>4. lay[3][1] = "pcmsamplesize"
  BY DEF StreamFields
<1>5. lay[4][1] = "pcmsamplerate"
  BY DEF StreamFields
<1>6. lay[5][1] = "pcmchannels"
  BY DEF StreamFields
<1>7. lay[6][1] = "pcmendian"
  BY DEF StreamFields
<1>8. lay[7][1] = "threshold"
  BY DEF StreamFields
<1>9. lay[8][1] = "spdif_enable"
  BY DEF StreamFields
<1>10. lay[9][1] = "trans_period"
  BY DEF StreamFields
<1>11. lay[10][1] = "trans_type"
  BY DEF StreamFields
<1>12. lay[11][1] = "flags"
  BY DEF StreamFields
<1>13. lay[12][1] = "output_threshold"
  BY DEF StreamFields
<1>14. lay[13][1] = ""
  BY DEF StreamFields
<1>15. lay[14][1] = "replay_gain"
  BY DEF StreamFields
<1>16. lay[15][1] = "server_port"
  BY DEF StreamFields
<1>17. lay[16][1] = "server_ip"
  BY DEF StreamFields
<1>18. \A i \in 1 .. 16 : i = 1 \/ i = 2 \/ i = 3 \/ i = 4 \/ i = 5 \/ i = 6 \/ i = 7 \/ i = 8 \/ i = 9 \/ i = 10
      \/ i = 11 \/ i = 12 \/ i = 13 \/ i = 14 \/ i = 15 \/ i = 16
  OBVIOUS
<1>19. Distinct(lay)
  <2> SUFFICES ASSUME NEW i \in 1 .. 16, NEW j \in 1 .. 16, lay[i][1] = lay[j][1] PROVE i = j
    BY <1>1 DEF Distinct
  <2>1. i = 1 => j = 1
    BY <1>2, <1>3, <1>4, <1>5, <1>6, <1>7, <1>8, <1>9, <1>10, <1>11, <1>12, <1>13, <1>14, <1>15, <1>16, <1>17, <1>18
  <2>2. i = 2 => j = 2
    BY <1>2, <1>3, <1>4, <1>5, <1>6, <1>7, <1>8, <1>9, <1>10, <1>11, <1>12, <1>13, <1>14, <1>15, <1>16, <1>17, <1>18
  <2>3. i = 3 => j = 3
    BY <1>2, <1>3, <1>4, <1>5, <1>6, <1>7, <1>8, <1>9, <1>10, <1>11, <1>12, <1>13, <1>14, <1>15, <1>16, <1>17, <1>18
  <2>4. i = 4 => j = 4
    BY <1>2, <1>3, <1>4, <1>5, <1>6, <1>7, <1>8, <1>9, <1>10, <1>11, <1>12, <1>13, <1>14, <1>15, <1>16, <1>17, <1>18
  <2>5. i = 5 => j = 5
    BY <1>2, <1>3, <1>4, <1>5, <1>6, <1>7, <1>8, <1>9, <1>10, <1>11, <1>12, <1>13, <1>14, <1>15, <1>16, <1>17, <1>18
  <2>6. i = 6 => j = 6
    BY <1>2, <1>3, <1>4, <1>5, <1>6, <1>7, <1>8, <1>9, <1>10, <1>11, <1>12, <1>13, <1>14, <1>15, <1>16, <1>17, <1>18
  <2>7. i = 7 => j = 7
    BY <1>2, <1>3, <1>4, <1>5, <1>6, <1>7, <1>8, <1>9, <1>10, <1>11, <1>12, <1>13, <1>14, <1>15, <1>16, <1>17, <1>18
  <2>8. i = 8 => j = 8
    BY <1>2, <1>3, <1>4, <1>5, <1>6, <1>7, <1>8, <1>9, <1>10, <1>11, <1>12, <1>13, <1>14, <1>15, <1>16, <1>17, <1>18
  <2>9. i = 9 => j = 9
    BY <1>2, <1>3, <1>4, <1>5, <1>6, <1>7, <1>8, <1>9, <1>10, <1>11, <1>12, <1>13, <1>14, <1>15, <1>16, <1>17, <1>18
  <2>10. i = 10 => j = 10
    BY <1>2, <1>3, <1>4, <1>5, <1>6, <1>7, <1>8, <1>9, <1>10, <1>11, <1>12, <1>13, <1>14, <1>15, <1>16, <1>17, <1>18
  <2>11. i = 11 => j = 11
    BY <1>2, <1>3, <1>4, <1>5, <1>6, <1>7, <1>8, <1>9, <1>10, <1>11, <1>12, <1>13, <1>14, <1>15, <1>16, <1>17, <1>18
  <2>12. i = 12 => j = 12
    BY <1>2, <1>3, <1>4, <1>5, <1>6, <1>7, <1>8, <1>9, <1>10, <1>11, <1>12, <1>13, <1>14, <1>15, <1>16, <1>17, <1>18
  <2>13. i = 13 => j = 13
    BY <1>2, <1>3, <1>4, <1>5, <1>6, <1>7, <1>8, <1>9, <1>10, <1>11, <1>12, <1>13, <1>14, <1>15, <1>16, <1>17, <1>18
  <2>14. i = 14 => j = 14
    BY <1>2, <1>3, <1>4, <1>5, <1>6, <1>7, <1>8, <1>9, <1>10, <1>11, <1>12, <1>13, <1>14, <1>15, <1>16, <1>17, <1>18
  <2>15. i = 15 => j = 15
    BY <1>2, <1>3, <1>4, <1>5, <1>6, <1>7, <1>8, <1>9, <1>10, <1>11, <1>12, <1>13, <1>14, <1>15, <1>16, <1>17, <1>18
  <2>16. i = 16 => j = 16
    BY <1>2, <1>3, <1>4, <1>5, <1>6, <1>7, <1>8, <1>9, <1>10, <1>11, <1>12, <1>13, <1>14, <1>15, <1>16, <1>17, <1>18
  <2> QED
    BY <1>18, <2>1, <2>2, <2>3, <2>4, <2>5, <2>6, <2>7, <2>8, <2>9, <2>10, <2>11, <2>12, <2>13, <2>14, <2>15, <2>16
<1>20. names = fields
  <2>1. ASSUME NEW i \in 1 .. 16, lay[i][1] # "" PROVE lay[i][1] \in fields
    BY <1>2, <1>3, <1>4, <1>5, <1>6, <1>7, <1>8, <1>9, <1>10, <1>11, <1>12, <1>13, <1>14, <1>15, <1>16,
       <1>17, <1>18, <2>1
  <2>2. \A x \in names : x \in fields
    BY <2>1
  <2>3. "autostart" \in names
    BY <1>2
  <2>4. "format" \in names
    BY <1>3
  <2>5. "pcmsamplesize" \in names
    BY <1>4
  <2>6. "pcmsamplerate" \in names
    BY <1>5
  <2>7. "pcmchannels" \in names
    BY <1>6
  <2>8. "pcmendian" \in names
    BY <1>7
  <2>9. "threshold" \in names
    BY <1>8
  <2>10. "spdif_enable" \in names
    BY <1>9
  <2>11. "trans_period" \in names
    BY <1>10
  <2>12. "trans_type" \in names
    BY <1>11
  <2>13. "flags" \in names
    BY <1>12
  <2>14. "output_threshold" \in names
    BY <1>13
  <2>15. "replay_gain" \in names
    BY <1>15
  <2>16. "server_port" \in names
    BY <1>16
  <2>17. "server_ip" \in names
    BY <1>17
  <2> HIDE DEF names
  <2>18. \A x \in fields : x \in names
    BY <2>3, <2>4, <2>5, <2>6, <2>7, <2>8, <2>9, <2>10, <2>11, <2>12, <2>13, <2>14, <2>15, <2>16, <2>17
  <2> QED
    BY <2>2, <2>18
<1>21. DOMAIN places = fields
  BY DEF Places
<1>22. DOMAIN split = fields
  BY <1>1, <1>20, SplitNames
<1>23. Needs(lay) = 23
  BY <1>1, StreamCursor DEF Needs
<1>24. split["autostart"] = <<0, 1>> /\ places["autostart"] = <<1, 1>>
  <2>1. 1 \in 1 .. Len(lay) /\ lay[1][1] # ""
    BY <1>1, <1>2
  <2>2. split[lay[1][1]] = <<Cursor(lay)[1], lay[1][2]>>
    BY <1>19, <2>1, SplitPlace
  <2>3. Cursor(lay)[1] = 0 /\ lay[1][2] = 1
    BY StreamCursor, StreamWidths
  <2>4. places["autostart"] = <<1, 1>>
    BY DEF Places
  <2> QED
    BY <1>2, <2>2, <2>3, <2>4
<1>25. split["format"] = <<1, 1>> /\ places["format"] = <<2, 1>>
  <2>1. 2 \in 1 .. Len(lay) /\ lay[2][1] # ""
    BY <1>1, <1>3
  <2>2. split[lay[2][1]] = <<Cursor(lay)[2], lay[2][2]>>
    BY <1>19, <2>1, SplitPlace
  <2>3. Cursor(lay)[2] = 1 /\ lay[2][2] = 1
    BY StreamCursor, StreamWidths
  <2>4. places["format"] = <<2, 1>>
    BY DEF Places
  <2> QED
    BY <1>3, <2>2, <2>3, <2>4
<1>26. split["pcmsamplesize"] = <<2, 1>> /\ places["pcmsamplesize"] = <<3, 1>>
  <2>1. 3 \in 1 .. Len(lay) /\ lay[3][1] # ""
    BY <1>1, <1>4
  <2>2. split[lay[3][1]] = <<Cursor(lay)[3], lay[3][2]>>
    BY <1>19, <2>1, SplitPlace
  <2>3. Cursor(lay)[3] = 2 /\ lay[3][2] = 1
    BY StreamCursor, StreamWidths
  <2>4. places["pcmsamplesize"] = <<3, 1>>
    BY DEF Places
  <2> QED
    BY <1>4, <2>2, <2>3, <2>4
<1>27. split["pcmsamplerate"] = <<3, 1>> /\ places["pcmsamplerate"] = <<4, 1>>
  <2>1. 4 \in 1 .. Len(lay) /\ lay[4][1] # ""
    BY <1>1, <1>5
  <2>2. split[lay[4][1]] = <<Cursor(lay)[4], lay[4][2]>>
    BY <1>19, <2>1, SplitPlace
  <2>3. Cursor(lay)[4] = 3 /\ lay[4][2] = 1
    BY StreamCursor, StreamWidths
  <2>4. places["pcmsamplerate"] = <<4, 1>>
    BY DEF Places
  <2> QED
    BY <1>5, <2>2, <2>3, <2>4
<1>28. split["pcmchannels"] = <<4, 1>> /\ places["pcmchannels"] = <<5, 1>>
  <2>1. 5 \in 1 .. Len(lay) /\ lay[5][1] # ""
    BY <1>1, <1>6
  <2>2. split[lay[5][1]] = <<Cursor(lay)[5], lay[5][2]>>
    BY <1>19, <2>1, SplitPlace
  <2>3. Cursor(lay)[5] = 4 /\ lay[5][2] = 1
    BY StreamCursor, StreamWidths
  <2>4. places["pcmchannels"] = <<5, 1>>
    BY DEF Places
  <2> QED
    BY <1>6, <2>2, <2>3, <2>4
<1>29. split["pcmendian"] = <<5, 1>> /\ places["pcmendian"] = <<6, 1>>
  <2>1. 6 \in 1 .. Len(lay) /\ lay[6][1] # ""
    BY <1>1, <1>7
  <2>2. split[lay[6][1]] = <<Cursor(lay)[6], lay[6][2]>>
    BY <1>19, <2>1, SplitPlace
  <2>3. Cursor(lay)[6] = 5 /\ lay[6][2] = 1
    BY StreamCursor, StreamWidths
  <2>4. places["pcmendian"] = <<6, 1>>
    BY DEF Places
  <2> QED
    BY <1>7, <2>2, <2>3, <2>4
<1>30. split["threshold"] = <<6, 1>> /\ places["threshold"] = <<7, 1>>
  <2>1. 7 \in 1 .. Len(lay) /\ lay[7][1] # ""
    BY <1>1, <1>8
  <2>2. split[lay[7][1]] = <<Cursor(lay)[7], lay[7][2]>>
    BY <1>19, <2>1, SplitPlace
  <2>3. Cursor(lay)[7] = 6 /\ lay[7][2] = 1
    BY StreamCursor, StreamWidths
  <2>4. places["threshold"] = <<7, 1>>
    BY DEF Places
  <2> QED
    BY <1>8, <2>2, <2>3, <2>4
<1>31. split["spdif_enable"] = <<7, 1>> /\ places["spdif_enable"] = <<8, 1>>
  <2>1. 8 \in 1 .. Len(lay) /\ lay[8][1] # ""
    BY <1>1, <1>9
  <2>2. split[lay[8][1]] = <<Cursor(lay)[8], lay[8][2]>>
    BY <1>19, <2>1, SplitPlace
  <2>3. Cursor(lay)[8] = 7 /\ lay[8][2] = 1
    BY StreamCursor, StreamWidths
  <2>4. places["spdif_enable"] = <<8, 1>>
    BY DEF Places
  <2> QED
    BY <1>9, <2>2, <2>3, <2>4
<1>32. split["trans_period"] = <<8, 1>> /\ places["trans_period"] = <<9, 1>>
  <2>1. 9 \in 1 .. Len(lay) /\ lay[9][1] # ""
    BY <1>1, <1>10
  <2>2. split[lay[9][1]] = <<Cursor(lay)[9], lay[9][2]>>
    BY <1>19, <2>1, SplitPlace
  <2>3. Cursor(lay)[9] = 8 /\ lay[9][2] = 1
    BY StreamCursor, StreamWidths
  <2>4. places["trans_period"] = <<9, 1>>
    BY DEF Places
  <2> QED
    BY <1>10, <2>2, <2>3, <2>4
<1>33. split["trans_type"] = <<9, 1>> /\ places["trans_type"] = <<10, 1>>
  <2>1. 10 \in 1 .. Len(lay) /\ lay[10][1] # ""
    BY <1>1, <1>11
  <2>2. split[lay[10][1]] = <<Cursor(lay)[10], lay[10][2]>>
    BY <1>19, <2>1, SplitPlace
  <2>3. Cursor(lay)[10] = 9 /\ lay[10][2] = 1
    BY StreamCursor, StreamWidths
  <2>4. places["trans_type"] = <<10, 1>>
    BY DEF Places
  <2> QED
    BY <1>11, <2>2, <2>3, <2>4
<1>34. split["flags"] = <<10, 1>> /\ places["flags"] = <<11, 1>>
  <2>1. 11 \in 1 .. Len(lay) /\ lay[11][1] # ""
    BY <1>1, <1>12
  <2>2. split[lay[11][1]] = <<Cursor(lay)[11], lay[11][2]>>
    BY <1>19, <2>1, SplitPlace
  <2>3. Cursor(lay)[11] = 10 /\ lay[11][2] = 1
    BY StreamCursor, StreamWidths
  <2>4. places["flags"] = <<11, 1>>
    BY DEF Places
  <2> QED
    BY <1>12, <2>2, <2>3, <2>4
<1>35. split["output_threshold"] = <<11, 1>> /\ places["output_threshold"] = <<12, 1>>
  <2>1. 12 \in 1 .. Len(lay) /\ lay[12][1] # ""
    BY <1>1, <1>13
  <2>2. split[lay[12][1]] = <<Cursor(lay)[12], lay[12][2]>>
    BY <1>19, <2>1, SplitPlace
  <2>3. Cursor(lay)[12] = 11 /\ lay[12][2] = 1
    BY StreamCursor, StreamWidths
  <2>4. places["output_threshold"] = <<12, 1>>
    BY DEF Places
  <2> QED
    BY <1>13, <2>2, <2>3, <2>4
<1>36. split["replay_gain"] = <<13, 4>> /\ places["replay_gain"] = <<14, 4>>
  <2>1. 14 \in 1 .. Len(lay) /\ lay[14][1] # ""
    BY <1>1, <1>15
  <2>2. split[lay[14][1]] = <<Cursor(lay)[14], lay[14][2]>>
    BY <1>19, <2>1, SplitPlace
  <2>3. Cursor(lay)[14] = 13 /\ lay[14][2] = 4
    BY StreamCursor, StreamWidths
  <2>4. places["replay_gain"] = <<14, 4>>
    BY DEF Places
  <2> QED
    BY <1>15, <2>2, <2>3, <2>4
<1>37. split["server_port"] = <<17, 2>> /\ places["server_port"] = <<18, 2>>
  <2>1. 15 \in 1 .. Len(lay) /\ lay[15][1] # ""
    BY <1>1, <1>16
  <2>2. split[lay[15][1]] = <<Cursor(lay)[15], lay[15][2]>>
    BY <1>19, <2>1, SplitPlace
  <2>3. Cursor(lay)[15] = 17 /\ lay[15][2] = 2
    BY StreamCursor, StreamWidths
  <2>4. places["server_port"] = <<18, 2>>
    BY DEF Places
  <2> QED
    BY <1>16, <2>2, <2>3, <2>4
<1>38. split["server_ip"] = <<19, 4>> /\ places["server_ip"] = <<20, 4>>
  <2>1. 16 \in 1 .. Len(lay) /\ lay[16][1] # ""
    BY <1>1, <1>17
  <2>2. split[lay[16][1]] = <<Cursor(lay)[16], lay[16][2]>>
    BY <1>19, <2>1, SplitPlace
  <2>3. Cursor(lay)[16] = 19 /\ lay[16][2] = 4
    BY StreamCursor, StreamWidths
  <2>4. places["server_ip"] = <<20, 4>>
    BY DEF Places
  <2> QED
    BY <1>17, <2>2, <2>3, <2>4
<1> HIDE DEF split, places
<1>39. \A f \in fields : \E a \in Nat, n \in {1, 2, 4} :
        places[f] = <<a + 1, n>> /\ split[f] = <<a, n>> /\ a + n <= 23
  <2> SUFFICES ASSUME NEW f \in fields
               PROVE  \E a \in Nat, n \in {1, 2, 4} :
                        places[f] = <<a + 1, n>> /\ split[f] = <<a, n>> /\ a + n <= 23
    OBVIOUS
  <2>1. CASE f = "autostart"
    <3>1. places[f] = <<0 + 1, 1>> /\ split[f] = <<0, 1>> /\ 0 + 1 <= 23
      BY <1>24, <2>1
    <3> QED
      BY <3>1
  <2>2. CASE f = "format"
    <3>1. places[f] = <<1 + 1, 1>> /\ split[f] = <<1, 1>> /\ 1 + 1 <= 23
      BY <1>25, <2>2
    <3> QED
      BY <3>1
  <2>3. CASE f = "pcmsamplesize"
    <3>1. places[f] = <<2 + 1, 1>> /\ split[f] = <<2, 1>> /\ 2 + 1 <= 23
      BY <1>26, <2>3
    <3> QED
      BY <3>1
  <2>4. CASE f = "pcmsamplerate"
    <3>1. places[f] = <<3 + 1, 1>> /\ split[f] = <<3, 1>> /\ 3 + 1 <= 23
      BY <1>27, <2>4
    <3> QED
      BY <3>1
  <2>5. CASE f = "pcmchannels"
    <3>1. places[f] = <<4 + 1, 1>> /\ split[f] = <<4, 1>> /\ 4 + 1 <= 23
      BY <1>28, <2>5
    <3> QED
      BY <3>1
  <2>6. CASE f = "pcmendian"
    <3>1. places[f] = <<5 + 1, 1>> /\ split[f] = <<5, 1>> /\ 5 + 1 <= 23
      BY <1>29, <2>6
    <3> QED
      BY <3>1
  <2>7. CASE f = "threshold"
    <3>1. places[f] = <<6 + 1, 1>> /\ split[f] = <<6, 1>> /\ 6 + 1 <= 23
      BY <1>30, <2>7
    <3> QED
      BY <3>1
  <2>8. CASE f = "spdif_enable"
    <3>1. places[f] = <<7 + 1, 1>> /\ split[f] = <<7, 1>> /\ 7 + 1 <= 23
      BY <1>31, <2>8
    <3> QED
      BY <3>1
  <2>9. CASE f = "trans_period"
    <3>1. places[f] = <<8 + 1, 1>> /\ split[f] = <<8, 1>> /\ 8 + 1 <= 23
      BY <1>32, <2>9
    <3> QED
      BY <3>1
  <2>10. CASE f = "trans_type"
    <3>1. places[f] = <<9 + 1, 1>> /\ split[f] = <<9, 1>> /\ 9 + 1 <= 23
      BY <1>33, <2>10
    <3> QED
      BY <3>1
  <2>11. CASE f = "flags"
    <3>1. places[f] = <<10 + 1, 1>> /\ split[f] = <<10, 1>> /\ 10 + 1 <= 23
      BY <1>34, <2>11
    <3> QED
      BY <3>1
  <2>12. CASE f = "output_threshold"
    <3>1. places[f] = <<11 + 1, 1>> /\ split[f] = <<11, 1>> /\ 11 + 1 <= 23
      BY <1>35, <2>12
    <3> QED
      BY <3>1
  <2>13. CASE f = "replay_gain"
    <3>1. places[f] = <<13 + 1, 4>> /\ split[f] = <<13, 4>> /\ 13 + 4 <= 23
      BY <1>36, <2>13
    <3> QED
      BY <3>1
  <2>14. CASE f = "server_port"
    <3>1. places[f] = <<17 + 1, 2>> /\ split[f] = <<17, 2>> /\ 17 + 2 <= 23
      BY <1>37, <2>14
    <3> QED
      BY <3>1
  <2>15. CASE f = "server_ip"
    <3>1. places[f] = <<19 + 1, 4>> /\ split[f] = <<19, 4>> /\ 19 + 4 <= 23
      BY <1>38, <2>15
    <3> QED
      BY <3>1
  <2> QED
    BY <2>1, <2>2, <2>3, <2>4, <2>5, <2>6, <2>7, <2>8, <2>9, <2>10, <2>11, <2>12, <2>13, <2>14, <2>15
<1> QED
  BY <1>21, <1>22, <1>23, <1>39 DEF Laid, split, places

\* The fields of audg as they are split off, one by one.
LEMMA GainWidths ==
  /\ Len(GainFields) = 3
  /\ \A i \in 1 .. 3 : GainFields[i][2] = IF i = 1 THEN 10 ELSE 4
<1>1. Len(GainFields) = 3
  BY DEF GainFields
<1>2. GainFields[1][2] = 10
  BY DEF GainFields
<1>3. GainFields[2][2] = 4
  BY DEF GainFields
<1>4. GainFields[3][2] = 4
  BY DEF GainFields
<1>5. \A i \in 1 .. 3 : i = 1 \/ i = 2 \/ i = 3
  OBVIOUS
<1> QED
  BY <1>1, <1>2, <1>3, <1>4, <1>5

\* How far audg has been split off before each field.
LEMMA GainCursor ==
  /\ Cursor(GainFields)[1] = 0 /\ Cursor(GainFields)[2] = 10 /\ Cursor(GainFields)[3] = 14
  /\ Cursor(GainFields)[4] = 18
<1> DEFINE w == [i \in 1 .. 4 |-> IF i = 1 THEN 0 ELSE IF i = 2 THEN 10 ELSE IF i = 3 THEN 14 ELSE 18]
           c == Cursor(GainFields)
<1>1. Len(GainFields) + 1 = 4 /\ 4 \in Nat /\ w \in [1 .. 4 -> Nat]
  BY GainWidths
<1>2. \A i \in 1 .. 4 : w[i] = IF i = 1 THEN 0 ELSE w[i - 1] + GainFields[i - 1][2]
  BY GainWidths
<1> HIDE DEF w, c
<1>3. \A i \in 1 .. 4 : c[i] = IF i = 1 THEN 0 ELSE c[i - 1] + GainFields[i - 1][2]
  BY <1>1, <1>2, CursorMoves DEF c
<1>4. c[1] = 0
  BY <1>3
<1>5. c[2] = 10
  BY <1>3, <1>4, GainWidths
<1>6. c[3] = 14
  BY <1>3, <1>5, GainWidths
<1>7. c[4] = 18
  BY <1>3, <1>6, GainWidths
<1> QED
  BY <1>4, <1>5, <1>6, <1>7 DEF c

\* Splitting audg field by field leads to where Lyrion puts them.
LEMMA GainLaid == Laid(GainFields, Places["Gain"], 0, 18)
<1> DEFINE lay == GainFields
           split == SplitAt(lay)
           places == Places["Gain"]
           fields == {"left", "right"}
           names == {lay[i][1] : i \in 1 .. 3} \ {""}
<1>1. Len(lay) = 3 /\ 3 \in Nat
  BY GainWidths
<1>2. lay[1][1] = ""
  BY DEF GainFields
<1>3. lay[2][1] = "left"
  BY DEF GainFields
<1>4. lay[3][1] = "right"
  BY DEF GainFields
<1>5. \A i \in 1 .. 3 : i = 1 \/ i = 2 \/ i = 3
  OBVIOUS
<1>6. Distinct(lay)
  <2> SUFFICES ASSUME NEW i \in 1 .. 3, NEW j \in 1 .. 3, lay[i][1] = lay[j][1] PROVE i = j
    BY <1>1 DEF Distinct
  <2>1. i = 1 => j = 1
    BY <1>2, <1>3, <1>4, <1>5
  <2>2. i = 2 => j = 2
    BY <1>2, <1>3, <1>4, <1>5
  <2>3. i = 3 => j = 3
    BY <1>2, <1>3, <1>4, <1>5
  <2> QED
    BY <1>5, <2>1, <2>2, <2>3
<1>7. names = fields
  <2>1. ASSUME NEW i \in 1 .. 3, lay[i][1] # "" PROVE lay[i][1] \in fields
    BY <1>2, <1>3, <1>4, <1>5, <2>1
  <2>2. \A x \in names : x \in fields
    BY <2>1
  <2>3. "left" \in names
    BY <1>3
  <2>4. "right" \in names
    BY <1>4
  <2> HIDE DEF names
  <2>5. \A x \in fields : x \in names
    BY <2>3, <2>4
  <2> QED
    BY <2>2, <2>5
<1>8. DOMAIN places = fields
  BY DEF Places
<1>9. DOMAIN split = fields
  BY <1>1, <1>7, SplitNames
<1>10. Needs(lay) = 18
  BY <1>1, GainCursor DEF Needs
<1>11. split["left"] = <<10, 4>> /\ places["left"] = <<10, 4>>
  <2>1. 2 \in 1 .. Len(lay) /\ lay[2][1] # ""
    BY <1>1, <1>3
  <2>2. split[lay[2][1]] = <<Cursor(lay)[2], lay[2][2]>>
    BY <1>6, <2>1, SplitPlace
  <2>3. Cursor(lay)[2] = 10 /\ lay[2][2] = 4
    BY GainCursor, GainWidths
  <2>4. places["left"] = <<10, 4>>
    BY DEF Places
  <2> QED
    BY <1>3, <2>2, <2>3, <2>4
<1>12. split["right"] = <<14, 4>> /\ places["right"] = <<14, 4>>
  <2>1. 3 \in 1 .. Len(lay) /\ lay[3][1] # ""
    BY <1>1, <1>4
  <2>2. split[lay[3][1]] = <<Cursor(lay)[3], lay[3][2]>>
    BY <1>6, <2>1, SplitPlace
  <2>3. Cursor(lay)[3] = 14 /\ lay[3][2] = 4
    BY GainCursor, GainWidths
  <2>4. places["right"] = <<14, 4>>
    BY DEF Places
  <2> QED
    BY <1>4, <2>2, <2>3, <2>4
<1> HIDE DEF split, places
<1>13. \A f \in fields : \E a \in Nat, n \in {1, 2, 4} :
        places[f] = <<a + 0, n>> /\ split[f] = <<a, n>> /\ a + n <= 18
  <2> SUFFICES ASSUME NEW f \in fields
               PROVE  \E a \in Nat, n \in {1, 2, 4} :
                        places[f] = <<a + 0, n>> /\ split[f] = <<a, n>> /\ a + n <= 18
    OBVIOUS
  <2>1. CASE f = "left"
    <3>1. places[f] = <<10 + 0, 4>> /\ split[f] = <<10, 4>> /\ 10 + 4 <= 18
      BY <1>11, <2>1
    <3> QED
      BY <3>1
  <2>2. CASE f = "right"
    <3>1. places[f] = <<14 + 0, 4>> /\ split[f] = <<14, 4>> /\ 14 + 4 <= 18
      BY <1>12, <2>2
    <3> QED
      BY <3>1
  <2> QED
    BY <2>1, <2>2
<1> QED
  BY <1>8, <1>9, <1>10, <1>13 DEF Laid, split, places

\* The fields of serv as they are split off, one by one.
LEMMA ServWidths ==
  /\ Len(ServFields) = 1
  /\ \A i \in 1 .. 1 : ServFields[i][2] = 4
<1>1. Len(ServFields) = 1
  BY DEF ServFields
<1>2. ServFields[1][2] = 4
  BY DEF ServFields
<1>3. \A i \in 1 .. 1 : i = 1
  OBVIOUS
<1> QED
  BY <1>1, <1>2, <1>3

\* How far serv has been split off before each field.
LEMMA ServCursor ==
  /\ Cursor(ServFields)[1] = 0 /\ Cursor(ServFields)[2] = 4
<1> DEFINE w == [i \in 1 .. 2 |-> IF i = 1 THEN 0 ELSE 4]
           c == Cursor(ServFields)
<1>1. Len(ServFields) + 1 = 2 /\ 2 \in Nat /\ w \in [1 .. 2 -> Nat]
  BY ServWidths
<1>2. \A i \in 1 .. 2 : w[i] = IF i = 1 THEN 0 ELSE w[i - 1] + ServFields[i - 1][2]
  BY ServWidths
<1> HIDE DEF w, c
<1>3. \A i \in 1 .. 2 : c[i] = IF i = 1 THEN 0 ELSE c[i - 1] + ServFields[i - 1][2]
  BY <1>1, <1>2, CursorMoves DEF c
<1>4. c[1] = 0
  BY <1>3
<1>5. c[2] = 4
  BY <1>3, <1>4, ServWidths
<1> QED
  BY <1>4, <1>5 DEF c

\* Splitting serv field by field leads to where Lyrion puts them.
LEMMA ServLaid == Laid(ServFields, Places["Serv"], 0, 4)
<1> DEFINE lay == ServFields
           split == SplitAt(lay)
           places == Places["Serv"]
           fields == {"ip"}
           names == {lay[i][1] : i \in 1 .. 1} \ {""}
<1>1. Len(lay) = 1 /\ 1 \in Nat
  BY ServWidths
<1>2. lay[1][1] = "ip"
  BY DEF ServFields
<1>3. \A i \in 1 .. 1 : i = 1
  OBVIOUS
<1>4. Distinct(lay)
  <2> SUFFICES ASSUME NEW i \in 1 .. 1, NEW j \in 1 .. 1, lay[i][1] = lay[j][1] PROVE i = j
    BY <1>1 DEF Distinct
  <2>1. i = 1 => j = 1
    BY <1>2, <1>3
  <2> QED
    BY <1>3, <2>1
<1>5. names = fields
  <2>1. ASSUME NEW i \in 1 .. 1, lay[i][1] # "" PROVE lay[i][1] \in fields
    BY <1>2, <1>3, <2>1
  <2>2. \A x \in names : x \in fields
    BY <2>1
  <2>3. "ip" \in names
    BY <1>2
  <2> HIDE DEF names
  <2>4. \A x \in fields : x \in names
    BY <2>3
  <2> QED
    BY <2>2, <2>4
<1>6. DOMAIN places = fields
  BY DEF Places
<1>7. DOMAIN split = fields
  BY <1>1, <1>5, SplitNames
<1>8. Needs(lay) = 4
  BY <1>1, ServCursor DEF Needs
<1>9. split["ip"] = <<0, 4>> /\ places["ip"] = <<0, 4>>
  <2>1. 1 \in 1 .. Len(lay) /\ lay[1][1] # ""
    BY <1>1, <1>2
  <2>2. split[lay[1][1]] = <<Cursor(lay)[1], lay[1][2]>>
    BY <1>4, <2>1, SplitPlace
  <2>3. Cursor(lay)[1] = 0 /\ lay[1][2] = 4
    BY ServCursor, ServWidths
  <2>4. places["ip"] = <<0, 4>>
    BY DEF Places
  <2> QED
    BY <1>2, <2>2, <2>3, <2>4
<1> HIDE DEF split, places
<1>10. \A f \in fields : \E a \in Nat, n \in {1, 2, 4} :
        places[f] = <<a + 0, n>> /\ split[f] = <<a, n>> /\ a + n <= 4
  <2> SUFFICES ASSUME NEW f \in fields
               PROVE  \E a \in Nat, n \in {1, 2, 4} :
                        places[f] = <<a + 0, n>> /\ split[f] = <<a, n>> /\ a + n <= 4
    OBVIOUS
  <2>1. CASE f = "ip"
    <3>1. places[f] = <<0 + 0, 4>> /\ split[f] = <<0, 4>> /\ 0 + 4 <= 4
      BY <1>9, <2>1
    <3> QED
      BY <3>1
  <2> QED
    BY <2>1
<1> QED
  BY <1>6, <1>7, <1>8, <1>10 DEF Laid, split, places

\* The fields of aude as they are split off, one by one.
LEMMA EnableWidths ==
  /\ Len(EnableFields) = 2
  /\ \A i \in 1 .. 2 : EnableFields[i][2] = 1
<1>1. Len(EnableFields) = 2
  BY DEF EnableFields
<1>2. EnableFields[1][2] = 1
  BY DEF EnableFields
<1>3. EnableFields[2][2] = 1
  BY DEF EnableFields
<1>4. \A i \in 1 .. 2 : i = 1 \/ i = 2
  OBVIOUS
<1> QED
  BY <1>1, <1>2, <1>3, <1>4

\* How far aude has been split off before each field.
LEMMA EnableCursor ==
  /\ Cursor(EnableFields)[1] = 0 /\ Cursor(EnableFields)[2] = 1 /\ Cursor(EnableFields)[3] = 2
 
<1> DEFINE w == [i \in 1 .. 3 |-> i - 1]
           c == Cursor(EnableFields)
<1>1. Len(EnableFields) + 1 = 3 /\ 3 \in Nat /\ w \in [1 .. 3 -> Nat]
  BY EnableWidths
<1>2. \A i \in 1 .. 3 : w[i] = IF i = 1 THEN 0 ELSE w[i - 1] + EnableFields[i - 1][2]
  BY EnableWidths
<1> HIDE DEF w, c
<1>3. \A i \in 1 .. 3 : c[i] = IF i = 1 THEN 0 ELSE c[i - 1] + EnableFields[i - 1][2]
  BY <1>1, <1>2, CursorMoves DEF c
<1>4. c[1] = 0
  BY <1>3
<1>5. c[2] = 1
  BY <1>3, <1>4, EnableWidths
<1>6. c[3] = 2
  BY <1>3, <1>5, EnableWidths
<1> QED
  BY <1>4, <1>5, <1>6 DEF c

\* Splitting aude field by field leads to where Lyrion puts them.
LEMMA EnableLaid == Laid(EnableFields, Places["Enable"], 0, 2)
<1> DEFINE lay == EnableFields
           split == SplitAt(lay)
           places == Places["Enable"]
           fields == {"spdif", "dac"}
           names == {lay[i][1] : i \in 1 .. 2} \ {""}
<1>1. Len(lay) = 2 /\ 2 \in Nat
  BY EnableWidths
<1>2. lay[1][1] = "spdif"
  BY DEF EnableFields
<1>3. lay[2][1] = "dac"
  BY DEF EnableFields
<1>4. \A i \in 1 .. 2 : i = 1 \/ i = 2
  OBVIOUS
<1>5. Distinct(lay)
  <2> SUFFICES ASSUME NEW i \in 1 .. 2, NEW j \in 1 .. 2, lay[i][1] = lay[j][1] PROVE i = j
    BY <1>1 DEF Distinct
  <2>1. i = 1 => j = 1
    BY <1>2, <1>3, <1>4
  <2>2. i = 2 => j = 2
    BY <1>2, <1>3, <1>4
  <2> QED
    BY <1>4, <2>1, <2>2
<1>6. names = fields
  <2>1. ASSUME NEW i \in 1 .. 2, lay[i][1] # "" PROVE lay[i][1] \in fields
    BY <1>2, <1>3, <1>4, <2>1
  <2>2. \A x \in names : x \in fields
    BY <2>1
  <2>3. "spdif" \in names
    BY <1>2
  <2>4. "dac" \in names
    BY <1>3
  <2> HIDE DEF names
  <2>5. \A x \in fields : x \in names
    BY <2>3, <2>4
  <2> QED
    BY <2>2, <2>5
<1>7. DOMAIN places = fields
  BY DEF Places
<1>8. DOMAIN split = fields
  BY <1>1, <1>6, SplitNames
<1>9. Needs(lay) = 2
  BY <1>1, EnableCursor DEF Needs
<1>10. split["spdif"] = <<0, 1>> /\ places["spdif"] = <<0, 1>>
  <2>1. 1 \in 1 .. Len(lay) /\ lay[1][1] # ""
    BY <1>1, <1>2
  <2>2. split[lay[1][1]] = <<Cursor(lay)[1], lay[1][2]>>
    BY <1>5, <2>1, SplitPlace
  <2>3. Cursor(lay)[1] = 0 /\ lay[1][2] = 1
    BY EnableCursor, EnableWidths
  <2>4. places["spdif"] = <<0, 1>>
    BY DEF Places
  <2> QED
    BY <1>2, <2>2, <2>3, <2>4
<1>11. split["dac"] = <<1, 1>> /\ places["dac"] = <<1, 1>>
  <2>1. 2 \in 1 .. Len(lay) /\ lay[2][1] # ""
    BY <1>1, <1>3
  <2>2. split[lay[2][1]] = <<Cursor(lay)[2], lay[2][2]>>
    BY <1>5, <2>1, SplitPlace
  <2>3. Cursor(lay)[2] = 1 /\ lay[2][2] = 1
    BY EnableCursor, EnableWidths
  <2>4. places["dac"] = <<1, 1>>
    BY DEF Places
  <2> QED
    BY <1>3, <2>2, <2>3, <2>4
<1> HIDE DEF split, places
<1>12. \A f \in fields : \E a \in Nat, n \in {1, 2, 4} :
        places[f] = <<a + 0, n>> /\ split[f] = <<a, n>> /\ a + n <= 2
  <2> SUFFICES ASSUME NEW f \in fields
               PROVE  \E a \in Nat, n \in {1, 2, 4} :
                        places[f] = <<a + 0, n>> /\ split[f] = <<a, n>> /\ a + n <= 2
    OBVIOUS
  <2>1. CASE f = "spdif"
    <3>1. places[f] = <<0 + 0, 1>> /\ split[f] = <<0, 1>> /\ 0 + 1 <= 2
      BY <1>10, <2>1
    <3> QED
      BY <3>1
  <2>2. CASE f = "dac"
    <3>1. places[f] = <<1 + 0, 1>> /\ split[f] = <<1, 1>> /\ 1 + 1 <= 2
      BY <1>11, <2>2
    <3> QED
      BY <3>1
  <2> QED
    BY <2>1, <2>2
<1> QED
  BY <1>7, <1>8, <1>9, <1>12 DEF Laid, split, places

\* The fields of strm t, p, u and a as they are split off, one by one.
LEMMA IntervalWidths ==
  /\ Len(IntervalFields) = 2
  /\ \A i \in 1 .. 2 : IntervalFields[i][2] = IF i = 1 THEN 13 ELSE 4
<1>1. Len(IntervalFields) = 2
  BY DEF IntervalFields
<1>2. IntervalFields[1][2] = 13
  BY DEF IntervalFields
<1>3. IntervalFields[2][2] = 4
  BY DEF IntervalFields
<1>4. \A i \in 1 .. 2 : i = 1 \/ i = 2
  OBVIOUS
<1> QED
  BY <1>1, <1>2, <1>3, <1>4

\* How far strm t, p, u and a has been split off before each field.
LEMMA IntervalCursor ==
  /\ Cursor(IntervalFields)[1] = 0 /\ Cursor(IntervalFields)[2] = 13 /\ Cursor(IntervalFields)[3] = 17
 
<1> DEFINE w == [i \in 1 .. 3 |-> IF i = 1 THEN 0 ELSE IF i = 2 THEN 13 ELSE 17]
           c == Cursor(IntervalFields)
<1>1. Len(IntervalFields) + 1 = 3 /\ 3 \in Nat /\ w \in [1 .. 3 -> Nat]
  BY IntervalWidths
<1>2. \A i \in 1 .. 3 : w[i] = IF i = 1 THEN 0 ELSE w[i - 1] + IntervalFields[i - 1][2]
  BY IntervalWidths
<1> HIDE DEF w, c
<1>3. \A i \in 1 .. 3 : c[i] = IF i = 1 THEN 0 ELSE c[i - 1] + IntervalFields[i - 1][2]
  BY <1>1, <1>2, CursorMoves DEF c
<1>4. c[1] = 0
  BY <1>3
<1>5. c[2] = 13
  BY <1>3, <1>4, IntervalWidths
<1>6. c[3] = 17
  BY <1>3, <1>5, IntervalWidths
<1> QED
  BY <1>4, <1>5, <1>6 DEF c

\* Splitting strm t, p, u and a field by field leads to where Lyrion puts them.
LEMMA IntervalLaid == Laid(IntervalFields, Places["Status"], 1, 17)
<1> DEFINE lay == IntervalFields
           split == SplitAt(lay)
           places == Places["Status"]
           fields == {"interval"}
           names == {lay[i][1] : i \in 1 .. 2} \ {""}
<1>1. Len(lay) = 2 /\ 2 \in Nat
  BY IntervalWidths
<1>2. lay[1][1] = ""
  BY DEF IntervalFields
<1>3. lay[2][1] = "interval"
  BY DEF IntervalFields
<1>4. \A i \in 1 .. 2 : i = 1 \/ i = 2
  OBVIOUS
<1>5. Distinct(lay)
  <2> SUFFICES ASSUME NEW i \in 1 .. 2, NEW j \in 1 .. 2, lay[i][1] = lay[j][1] PROVE i = j
    BY <1>1 DEF Distinct
  <2>1. i = 1 => j = 1
    BY <1>2, <1>3, <1>4
  <2>2. i = 2 => j = 2
    BY <1>2, <1>3, <1>4
  <2> QED
    BY <1>4, <2>1, <2>2
<1>6. names = fields
  <2>1. ASSUME NEW i \in 1 .. 2, lay[i][1] # "" PROVE lay[i][1] \in fields
    BY <1>2, <1>3, <1>4, <2>1
  <2>2. \A x \in names : x \in fields
    BY <2>1
  <2>3. "interval" \in names
    BY <1>3
  <2> HIDE DEF names
  <2>4. \A x \in fields : x \in names
    BY <2>3
  <2> QED
    BY <2>2, <2>4
<1>7. DOMAIN places = fields
  BY DEF Places, Interval
<1>8. DOMAIN split = fields
  BY <1>1, <1>6, SplitNames
<1>9. Needs(lay) = 17
  BY <1>1, IntervalCursor DEF Needs
<1>10. split["interval"] = <<13, 4>> /\ places["interval"] = <<14, 4>>
  <2>1. 2 \in 1 .. Len(lay) /\ lay[2][1] # ""
    BY <1>1, <1>3
  <2>2. split[lay[2][1]] = <<Cursor(lay)[2], lay[2][2]>>
    BY <1>5, <2>1, SplitPlace
  <2>3. Cursor(lay)[2] = 13 /\ lay[2][2] = 4
    BY IntervalCursor, IntervalWidths
  <2>4. places["interval"] = <<14, 4>>
    BY DEF Places, Interval
  <2> QED
    BY <1>3, <2>2, <2>3, <2>4
<1> HIDE DEF split, places
<1>11. \A f \in fields : \E a \in Nat, n \in {1, 2, 4} :
        places[f] = <<a + 1, n>> /\ split[f] = <<a, n>> /\ a + n <= 17
  <2> SUFFICES ASSUME NEW f \in fields
               PROVE  \E a \in Nat, n \in {1, 2, 4} :
                        places[f] = <<a + 1, n>> /\ split[f] = <<a, n>> /\ a + n <= 17
    OBVIOUS
  <2>1. CASE f = "interval"
    <3>1. places[f] = <<13 + 1, 4>> /\ split[f] = <<13, 4>> /\ 13 + 4 <= 17
      BY <1>10, <2>1
    <3> QED
      BY <3>1
  <2> QED
    BY <2>1
<1> QED
  BY <1>7, <1>8, <1>9, <1>11 DEF Laid, split, places

\* A number further back in a longer sequence.
LEMMA ShiftedAt ==
  ASSUME NEW body \in Seq(Nat), NEW left \in Seq(Nat), NEW skip \in Nat, PartAt(body, skip, left),
         NEW a \in Nat, NEW n \in Nat, n = 1 \/ n = 2 \/ n = 4, a + n <= Len(left)
  PROVE  At(left, <<a, n>>) = At(body, <<a + skip, n>>)
<1>1. \A k \in Nat : k + 1 <= Len(left) => GetU8(left, k) = GetU8(body, k + skip)
  <2> SUFFICES ASSUME NEW k \in Nat, k + 1 <= Len(left) PROVE left[k + 1] = body[(k + skip) + 1]
    BY DEF GetU8
  <2>1. k + 1 \in 1 .. Len(left) /\ skip + (k + 1) = (k + skip) + 1
    BY LenProperties
  <2>2. body[skip + (k + 1)] = left[k + 1]
    <3>1. \A i \in 1 .. Len(left) : body[skip + i] = left[i]
      BY DEF PartAt
    <3> QED
      BY <2>1, <3>1
  <2> QED
    BY <2>1, <2>2
<1>2. \A k \in Nat : k + 2 <= Len(left) => GetU16(left, k) = GetU16(body, k + skip)
  <2> SUFFICES ASSUME NEW k \in Nat, k + 2 <= Len(left) PROVE GetU16(left, k) = GetU16(body, k + skip)
    OBVIOUS
  <2>1. Len(left) \in Nat /\ k + 1 <= Len(left) /\ (k + 1) + 1 <= Len(left) /\ (k + 1) + skip = (k + skip) + 1
    BY LenProperties
  <2>2. GetU8(left, k) = GetU8(body, k + skip)
    BY <1>1, <2>1
  <2>3. GetU8(left, k + 1) = GetU8(body, (k + skip) + 1)
    BY <1>1, <2>1
  <2> QED
    BY <2>2, <2>3 DEF GetU16
<1>3. \A k \in Nat : k + 4 <= Len(left) => GetU32(left, k) = GetU32(body, k + skip)
  <2> SUFFICES ASSUME NEW k \in Nat, k + 4 <= Len(left) PROVE GetU32(left, k) = GetU32(body, k + skip)
    OBVIOUS
  <2>1. Len(left) \in Nat /\ k + 2 <= Len(left) /\ (k + 2) + 2 <= Len(left) /\ (k + 2) + skip = (k + skip) + 2
    BY LenProperties
  <2>2. GetU16(left, k) = GetU16(body, k + skip)
    BY <1>2, <2>1
  <2>3. GetU16(left, k + 2) = GetU16(body, (k + skip) + 2)
    BY <1>2, <2>1
  <2> QED
    BY <2>2, <2>3 DEF GetU32
<1>4. CASE n = 1
  <2>1. At(left, <<a, 1>>) = GetU8(left, a) /\ At(body, <<a + skip, 1>>) = GetU8(body, a + skip)
    BY DEF At
  <2> QED
    BY <1>1, <1>4, <2>1
<1>5. CASE n = 2
  <2>1. At(left, <<a, 2>>) = GetU16(left, a) /\ At(body, <<a + skip, 2>>) = GetU16(body, a + skip)
    BY DEF At
  <2> QED
    BY <1>2, <1>5, <2>1
<1>6. CASE n = 4
  <2>1. At(left, <<a, 4>>) = GetU32(left, a) /\ At(body, <<a + skip, 4>>) = GetU32(body, a + skip)
    BY DEF At
  <2> QED
    BY <1>3, <1>6, <2>1
<1> QED
  BY <1>4, <1>5, <1>6

\* No conversion changes what a field with alternatives says, and all agree
\* with what Lyrion means, but for unknown flags.
LEMMA Conversions ==
  ASSUME NEW f, NEW v
  PROVE  /\ f \in DOMAIN Alternatives => Meaning(f, v) = v
         /\ (f = "flags" => v \in KnownFlags) => Converted(f, v) = Meaning(f, v)
         /\ f = "flags" => Meaning(f, v) = v
<1>1. DOMAIN Alternatives = {"autostart", "format", "pcmsamplesize", "pcmsamplerate", "pcmchannels", "pcmendian",
                               "spdif_enable", "trans_type"}
  BY DEF Alternatives
<1>2. /\ DOMAIN Unit = {"threshold", "trans_period", "output_threshold"}
      /\ Unit["threshold"] = 1024 /\ Unit["trans_period"] = 1000 /\ Unit["output_threshold"] = 100
  BY DEF Unit
<1>3. f \in DOMAIN Alternatives => Meaning(f, v) = v
  BY <1>1, <1>2 DEF Meaning
<1>4. f = "flags" => Meaning(f, v) = v
  BY <1>2 DEF Meaning
<1>5. ASSUME f = "flags" => v \in KnownFlags PROVE Converted(f, v) = Meaning(f, v)
  <2>1. CASE f = "threshold"
    BY <1>2, <2>1 DEF Meaning, Converted
  <2>2. CASE f = "trans_period"
    BY <1>2, <2>2 DEF Meaning, Converted
  <2>3. CASE f = "output_threshold"
    BY <1>2, <2>3 DEF Meaning, Converted
  <2>4. CASE f = "flags"
    BY <1>2, <1>5, <2>4 DEF Meaning, Converted
  <2>5. CASE f \in {"spdif", "dac"}
    BY <1>2, <2>5 DEF Meaning, Converted
  <2>6. CASE f \notin {"threshold", "trans_period", "output_threshold", "flags", "spdif", "dac"}
    BY <1>2, <2>6 DEF Meaning, Converted
  <2> QED
    BY <2>1, <2>2, <2>3, <2>4, <2>5, <2>6
<1> QED
  BY <1>3, <1>4, <1>5

\* What ParsedAsLaidOut says of a message of a kind.
Agrees(message, kind, body) ==
  LET fields == [f \in DOMAIN Places[kind] |-> Meaning(f, At(body, Places[kind][f]))] IN
  IF \E f \in DOMAIN fields \cap DOMAIN Alternatives : fields[f] >= Alternatives[f]
  THEN message.kind = "Error"
  ELSE /\ message.kind = kind /\ DOMAIN message.fields = DOMAIN fields
       /\ \A f \in DOMAIN fields : (f = "flags" => fields[f] \in KnownFlags) => message.fields[f] = fields[f]

\* A layout that is laid out as Lyrion means it parses to what Lyrion means.
LEMMA ParseAgrees ==
  ASSUME NEW body \in Seq(Nat), NEW left \in Seq(Nat), NEW skip \in Nat, PartAt(body, skip, left),
         NEW kind, NEW layout, NEW needs \in Nat, needs <= Len(left), Laid(layout, Places[kind], skip, needs),
         kind # "panic"
  PROVE  /\ Agrees(Parse(kind, layout, left), kind, body) /\ Parse(kind, layout, left).kind # "panic"
         /\ Parse(kind, layout, left).kind # "Error" =>
              Parse(kind, layout, left).rest = SubSeq(left, needs + 1, Len(left))
<1> DEFINE raw == Fields(left, SplitAt(layout))
           places == Places[kind]
           fields == [f \in DOMAIN places |-> Meaning(f, At(body, places[f]))]
           bad == \E f \in DOMAIN raw \cap DOMAIN Alternatives : raw[f] >= Alternatives[f]
           whole == [kind |-> kind, fields |-> [f \in DOMAIN raw |-> Converted(f, raw[f])],
                     rest |-> SubSeq(left, needs + 1, Len(left))]
           msg == Parse(kind, layout, left)
<1>1. Needs(layout) = needs /\ DOMAIN SplitAt(layout) = DOMAIN places
  BY DEF Laid
<1>2. DOMAIN raw = DOMAIN places
  BY <1>1 DEF Fields
<1>3. \A f \in DOMAIN places : raw[f] = At(body, places[f])
  <2> SUFFICES ASSUME NEW f \in DOMAIN places PROVE raw[f] = At(body, places[f])
    OBVIOUS
  <2>1. PICK a \in Nat, n \in {1, 2, 4} :
          places[f] = <<a + skip, n>> /\ SplitAt(layout)[f] = <<a, n>> /\ a + n <= needs
    BY DEF Laid
  <2>2. a + n <= Len(left)
    <3>1. Len(left) \in Nat /\ a + n \in Nat
      BY LenProperties
    <3> QED
      BY <2>1, <3>1
  <2>3. At(left, <<a, n>>) = At(body, <<a + skip, n>>)
    <3>1. n \in Nat /\ (n = 1 \/ n = 2 \/ n = 4)
      OBVIOUS
    <3> HIDE DEF raw, places, fields, bad, whole, msg
    <3> QED
      BY <2>2, <3>1, ShiftedAt
  <2> QED
    BY <1>1, <2>1, <2>3 DEF Fields
<1>4. msg = IF bad THEN [kind |-> "Error"] ELSE whole
  <2>1. ~(Len(left) < needs)
    BY LenProperties
  <2> QED
    BY <1>1, <2>1 DEF Parse
<1> HIDE DEF raw, places, msg
<1>5. \A f \in DOMAIN places \cap DOMAIN Alternatives : fields[f] = raw[f]
  BY <1>3, Conversions
<1>6. bad <=> \E f \in DOMAIN fields \cap DOMAIN Alternatives : fields[f] >= Alternatives[f]
  BY <1>2, <1>5
<1>7. \A f \in DOMAIN places : (f = "flags" => fields[f] \in KnownFlags) => Converted(f, raw[f]) = fields[f]
  BY <1>3, Conversions
<1>8. CASE bad
  <2>1. msg.kind = "Error"
    BY <1>4, <1>8
  <2>2. Agrees(msg, kind, body)
    BY <1>6, <1>8, <2>1 DEF Agrees, places
  <2> QED
    BY <2>1, <2>2 DEF msg
<1>9. CASE ~bad
  <2>1. /\ msg.kind = kind /\ msg.rest = SubSeq(left, needs + 1, Len(left))
        /\ msg.fields = [f \in DOMAIN raw |-> Converted(f, raw[f])]
    BY <1>4, <1>9
  <2>2. DOMAIN msg.fields = DOMAIN fields /\ \A f \in DOMAIN fields : msg.fields[f] = Converted(f, raw[f])
    BY <1>2, <2>1
  <2>3. \A f \in DOMAIN fields : (f = "flags" => fields[f] \in KnownFlags) => msg.fields[f] = fields[f]
    BY <1>7, <2>2
  <2>4. ~\E f \in DOMAIN fields \cap DOMAIN Alternatives : fields[f] >= Alternatives[f]
    BY <1>6, <1>9
  <2>5. Agrees(msg, kind, body)
    BY <2>1, <2>2, <2>3, <2>4 DEF Agrees, places
  <2> QED
    BY <2>1, <2>5 DEF msg
<1> QED
  BY <1>8, <1>9

\* The lengths that are checked before a command is read.
LEMMA CheckedLengths ==
  /\ DOMAIN Checks = {"serv", "strm", "aude", "audg", "setd"}
  /\ Checks["serv"] = 4 /\ Checks["strm"] = 24 /\ Checks["aude"] = 2 /\ Checks["audg"] = 18
  /\ Checks["setd"] = 1
BY DEF Checks

\* Which parser a frame that is long enough gets to.
LEMMA ServerCases ==
  ASSUME NEW body \in Seq(Nat)
  PROVE  /\ Len(body) >= 4 => ServerMessage("serv", body) = Parse("Serv", ServFields, body)
         /\ Len(body) >= 24 => ServerMessage("strm", body) = ParseStrm(body[1], Tail(body))
         /\ Len(body) >= 2 => ServerMessage("aude", body) = Parse("Enable", EnableFields, body)
         /\ Len(body) >= 18 => ServerMessage("audg", body) = Parse("Gain", GainFields, body)
         /\ Len(body) >= 1 => ServerMessage("setd", body) = ParseSetd(body)
<1>1. Len(body) \in Nat
  BY LenProperties
<1>2. Len(body) >= 4 => ServerMessage("serv", body) = Parse("Serv", ServFields, body)
  BY <1>1, CheckedLengths DEF ServerMessage
<1>3. Len(body) >= 24 => ServerMessage("strm", body) = ParseStrm(body[1], Tail(body))
  BY <1>1, CheckedLengths DEF ServerMessage
<1>4. Len(body) >= 2 => ServerMessage("aude", body) = Parse("Enable", EnableFields, body)
  BY <1>1, CheckedLengths DEF ServerMessage
<1>5. Len(body) >= 18 => ServerMessage("audg", body) = Parse("Gain", GainFields, body)
  BY <1>1, CheckedLengths DEF ServerMessage
<1>6. Len(body) >= 1 => ServerMessage("setd", body) = ParseSetd(body)
  BY <1>1, CheckedLengths DEF ServerMessage
<1> QED
  BY <1>2, <1>3, <1>4, <1>5, <1>6

\* How each sub-command of strm is read on.
LEMMA StrmCases ==
  ASSUME NEW sub \in Nat, NEW left
  PROVE  /\ sub = 0 => ParseStrm(sub, left) = Parse("Stream", StreamFields, left)
         /\ sub = 1 => ParseStrm(sub, left) = Parse("Status", IntervalFields, left)
         /\ sub = 4 => ParseStrm(sub, left) = Parse("Pause", IntervalFields, left)
         /\ sub = 5 => ParseStrm(sub, left) = Parse("Unpause", IntervalFields, left)
         /\ sub = 6 => ParseStrm(sub, left) = Parse("Skip", IntervalFields, left)
         /\ sub \notin {0, 1, 4, 5, 6} => ParseStrm(sub, left).kind \in {"Stop", "Flush", "Unrecognised"}
<1>1. sub = 0 => ParseStrm(sub, left) = Parse("Stream", StreamFields, left)
  BY DEF ParseStrm
<1>2. sub = 1 => ParseStrm(sub, left) = Parse("Status", IntervalFields, left)
  BY DEF ParseStrm
<1>3. sub = 4 => ParseStrm(sub, left) = Parse("Pause", IntervalFields, left)
  BY DEF ParseStrm
<1>4. sub = 5 => ParseStrm(sub, left) = Parse("Unpause", IntervalFields, left)
  BY DEF ParseStrm
<1>5. sub = 6 => ParseStrm(sub, left) = Parse("Skip", IntervalFields, left)
  BY DEF ParseStrm
<1>6. sub \notin {0, 1, 4, 5, 6} => ParseStrm(sub, left).kind \in {"Stop", "Flush", "Unrecognised"}
  BY DEF ParseStrm
<1> QED
  BY <1>1, <1>2, <1>3, <1>4, <1>5, <1>6

\* What follows the sub-command.
LEMMA Left ==
  ASSUME NEW body \in Seq(Nat), Len(body) >= 1
  PROVE  /\ Tail(body) \in Seq(Nat) /\ Len(Tail(body)) = Len(body) - 1 /\ PartAt(body, 1, Tail(body))
         /\ PartAt(body, 0, body) /\ body[1] \in Nat
<1>1. Len(body) \in Nat /\ body # <<>>
  BY LenProperties
<1>2. /\ Tail(body) \in Seq(Nat) /\ Len(Tail(body)) = Len(body) - 1
      /\ \A i \in 1 .. Len(Tail(body)) : Tail(body)[i] = body[i + 1]
  BY <1>1, HeadTailProperties
<1>3. PartAt(body, 1, Tail(body))
  BY <1>1, <1>2 DEF PartAt
<1>4. PartAt(body, 0, body)
  BY <1>1 DEF PartAt
<1>5. body[1] \in Nat
  BY <1>1, ElementOfSeq
<1> QED
  BY <1>2, <1>3, <1>4, <1>5

\* t, p, u and a have their interval at the same place.
LEMMA IntervalPlaces ==
  ASSUME NEW kind \in {"Status", "Pause", "Unpause", "Skip"}
  PROVE  Laid(IntervalFields, Places[kind], 1, 17)
<1>1. Places[kind] = Places["Status"]
  BY DEF Places
<1> QED
  BY <1>1, IntervalLaid

\* The two ways a strm is read on after its sub-command.
LEMMA StreamParsed ==
  ASSUME NEW body \in Seq(Nat), NEW left \in Seq(Nat), PartAt(body, 1, left), 23 <= Len(left)
  PROVE  /\ Agrees(Parse("Stream", StreamFields, left), "Stream", body)
         /\ Parse("Stream", StreamFields, left).kind # "panic"
         /\ Parse("Stream", StreamFields, left).kind # "Error" =>
              Parse("Stream", StreamFields, left).rest = SubSeq(left, 23 + 1, Len(left))
<1>1. 23 \in Nat /\ 1 \in Nat /\ "Stream" # "panic"
  OBVIOUS
<1> QED
  BY <1>1, StreamLaid, ParseAgrees

\* The other way: an interval.
LEMMA IntervalParsed ==
  ASSUME NEW body \in Seq(Nat), NEW left \in Seq(Nat), PartAt(body, 1, left), 17 <= Len(left),
         NEW kind \in {"Status", "Pause", "Unpause", "Skip"}
  PROVE  /\ Agrees(Parse(kind, IntervalFields, left), kind, body)
         /\ Parse(kind, IntervalFields, left).kind # "panic"
<1>1. 17 \in Nat /\ 1 \in Nat /\ kind # "panic"
  OBVIOUS
<1>2. Laid(IntervalFields, Places[kind], 1, 17)
  BY IntervalPlaces
<1> QED
  BY <1>1, <1>2, ParseAgrees

\* What is left behind the sub-command and the fields is what is left behind both.
LEMMA LeftOfLeft ==
  ASSUME NEW body \in Seq(Nat), NEW left \in Seq(Nat), PartAt(body, 1, left), Len(left) = Len(body) - 1,
         NEW k \in Nat, k <= Len(left)
  PROVE  SubSeq(left, k + 1, Len(left)) = SubSeq(body, k + 2, Len(body))
<1> DEFINE a == SubSeq(left, k + 1, Len(left))
<1>1. a \in Seq(Nat) /\ Len(a) = Len(left) - k /\ PartAt(left, k, a)
  BY Behind
<1> HIDE DEF a
<1>2. PartAt(body, 1 + k, a) /\ 1 + k \in Nat
  BY <1>1, Inside
<1>3. Len(body) = (1 + k) + Len(a)
  BY <1>1, LenProperties
<1>4. SubSeq(body, (1 + k) + 1, Len(body)) = a
  BY <1>1, <1>2, <1>3, Suffix
<1>5. (1 + k) + 1 = k + 2
  OBVIOUS
<1> QED
  BY <1>4, <1>5 DEF a

\* A frame of a kind is parsed as laid out.
Faithful(message, kind, body, size) ==
  /\ Agrees(message, kind, body) /\ message.kind # "panic"
  /\ message.kind # "Error" /\ kind \in {"Stream", "Serv"} => message.rest = SubSeq(body, size + 1, Len(body))

\* Every strm with fields is parsed as Lyrion means it, and no check lets it panic.
LEMMA StrmFaithful ==
  ASSUME NEW body \in Seq(Nat), Len(body) >= 24
  PROVE  /\ body[1] = 0 => Faithful(ServerMessage("strm", body), "Stream", body, 24)
         /\ body[1] = 1 => Faithful(ServerMessage("strm", body), "Status", body, 24)
         /\ body[1] = 4 => Faithful(ServerMessage("strm", body), "Pause", body, 24)
         /\ body[1] = 5 => Faithful(ServerMessage("strm", body), "Unpause", body, 24)
         /\ body[1] = 6 => Faithful(ServerMessage("strm", body), "Skip", body, 24)
<1> DEFINE left == Tail(body)
           msg == ServerMessage("strm", body)
<1>1. Len(body) \in Nat /\ Len(body) >= 1
  BY LenProperties
<1>2. left \in Seq(Nat) /\ Len(left) = Len(body) - 1 /\ PartAt(body, 1, left) /\ body[1] \in Nat
  BY <1>1, Left
<1>3. msg = ParseStrm(body[1], left)
  BY ServerCases
<1>4. 23 <= Len(left) /\ 17 <= Len(left) /\ Len(left) \in Nat
  BY <1>1, <1>2
<1> HIDE DEF left, msg
<1>5. SubSeq(left, 23 + 1, Len(left)) = SubSeq(body, 24 + 1, Len(body))
  <2>1. 23 \in Nat
    OBVIOUS
  <2>2. SubSeq(left, 23 + 1, Len(left)) = SubSeq(body, 23 + 2, Len(body))
    BY <1>2, <1>4, <2>1, LeftOfLeft
  <2> QED
    BY <2>2
<1>6. CASE body[1] = 0
  <2>1. msg = Parse("Stream", StreamFields, left)
    BY <1>2, <1>3, <1>6, StrmCases
  <2>2. /\ Agrees(msg, "Stream", body) /\ msg.kind # "panic"
        /\ msg.kind # "Error" => msg.rest = SubSeq(left, 23 + 1, Len(left))
    BY <1>2, <1>4, <2>1, StreamParsed
  <2>3. Faithful(msg, "Stream", body, 24)
    BY <1>5, <2>2 DEF Faithful
  <2> QED
    BY <1>6, <2>3 DEF msg
<1>7. ASSUME NEW kind \in {"Status", "Pause", "Unpause", "Skip"}, msg = Parse(kind, IntervalFields, left)
      PROVE  Faithful(msg, kind, body, 24)
  <2>1. kind \notin {"Stream", "Serv"}
    OBVIOUS
  <2>2. Agrees(msg, kind, body) /\ msg.kind # "panic"
    BY <1>2, <1>4, <1>7, IntervalParsed
  <2> QED
    BY <2>1, <2>2 DEF Faithful
<1>8. CASE body[1] = 1
  BY <1>2, <1>3, <1>7, <1>8, StrmCases DEF msg
<1>9. CASE body[1] = 4
  BY <1>2, <1>3, <1>7, <1>9, StrmCases DEF msg
<1>10. CASE body[1] = 5
  BY <1>2, <1>3, <1>7, <1>10, StrmCases DEF msg
<1>11. CASE body[1] = 6
  BY <1>2, <1>3, <1>7, <1>11, StrmCases DEF msg
<1> QED
  BY <1>6, <1>8, <1>9, <1>10, <1>11

\* So are serv, aude and audg.
LEMMA OthersFaithful ==
  ASSUME NEW body \in Seq(Nat)
  PROVE  /\ Len(body) >= 4 => Faithful(ServerMessage("serv", body), "Serv", body, 4)
         /\ Len(body) >= 2 => Faithful(ServerMessage("aude", body), "Enable", body, 2)
         /\ Len(body) >= 18 => Faithful(ServerMessage("audg", body), "Gain", body, 18)
<1>1. Len(body) \in Nat /\ PartAt(body, 0, body)
  BY LenProperties DEF PartAt
<1>2. ASSUME Len(body) >= 4 PROVE Faithful(ServerMessage("serv", body), "Serv", body, 4)
  <2> DEFINE msg == ServerMessage("serv", body)
  <2>1. msg = Parse("Serv", ServFields, body)
    BY <1>2, ServerCases
  <2>2. 4 <= Len(body)
    BY <1>1, <1>2
  <2> HIDE DEF msg
  <2>3. /\ Agrees(msg, "Serv", body) /\ msg.kind # "panic"
        /\ msg.kind # "Error" => msg.rest = SubSeq(body, 4 + 1, Len(body))
    BY <1>1, <2>1, <2>2, ServLaid, ParseAgrees
  <2> QED
    BY <2>3 DEF Faithful, msg
<1>3. ASSUME Len(body) >= 2 PROVE Faithful(ServerMessage("aude", body), "Enable", body, 2)
  <2> DEFINE msg == ServerMessage("aude", body)
  <2>1. msg = Parse("Enable", EnableFields, body)
    BY <1>3, ServerCases
  <2>2. 2 <= Len(body)
    BY <1>1, <1>3
  <2> HIDE DEF msg
  <2>3. Agrees(msg, "Enable", body) /\ msg.kind # "panic"
    BY <1>1, <2>1, <2>2, EnableLaid, ParseAgrees
  <2> QED
    BY <2>3 DEF Faithful, msg
<1>4. ASSUME Len(body) >= 18 PROVE Faithful(ServerMessage("audg", body), "Gain", body, 18)
  <2> DEFINE msg == ServerMessage("audg", body)
  <2>1. msg = Parse("Gain", GainFields, body)
    BY <1>4, ServerCases
  <2>2. 18 <= Len(body)
    BY <1>1, <1>4
  <2> HIDE DEF msg
  <2>3. Agrees(msg, "Gain", body) /\ msg.kind # "panic"
    BY <1>1, <2>1, <2>2, GainLaid, ParseAgrees
  <2> QED
    BY <2>3 DEF Faithful, msg
<1> QED
  BY <1>2, <1>3, <1>4

\* However short, no frame makes the parser panic: it becomes a ServerMessage.
LEMMA NoPanic ==
  ASSUME NEW cmd \in STRING, NEW body \in Seq(Nat)
  PROVE  ServerMessage(cmd, body).kind \in Variants
<1> DEFINE msg == ServerMessage(cmd, body)
<1>1. Len(body) \in Nat
  BY LenProperties
<1>0. ASSUME NEW kind \in {"Stream", "Status", "Pause", "Unpause", "Skip", "Serv", "Enable", "Gain"},
             NEW size, Faithful(msg, kind, body, size)
      PROVE  msg.kind \in Variants
  <2>1. msg.kind = "Error" \/ msg.kind = kind
    BY <1>0 DEF Faithful, Agrees
  <2> QED
    BY <2>1 DEF Variants
<1>2. CASE cmd \in DOMAIN Checks /\ Len(body) < Checks[cmd]
  <2>1. msg = [kind |-> "Error"]
    BY <1>2 DEF ServerMessage
  <2> QED
    BY <2>1 DEF Variants
<1>3. CASE cmd \notin DOMAIN Checks
  <2>1. msg = [kind |-> "Unrecognised"]
    BY <1>3, CheckedLengths DEF ServerMessage
  <2> QED
    BY <2>1 DEF Variants
<1>4. CASE cmd = "serv" /\ Len(body) >= 4
  BY <1>0, <1>4, OthersFaithful
<1>5. CASE cmd = "aude" /\ Len(body) >= 2
  BY <1>0, <1>5, OthersFaithful
<1>6. CASE cmd = "audg" /\ Len(body) >= 18
  BY <1>0, <1>6, OthersFaithful
<1>7. CASE cmd = "setd" /\ Len(body) >= 1
  <2>1. msg = ParseSetd(body)
    BY <1>7, ServerCases
  <2>2. ParseSetd(body).kind \in {"Queryname", "Setname", "DisableDac", "Unrecognised"}
    <3>1. CASE body[1] = 0 /\ Len(body) = 1
      BY <1>1, <3>1 DEF ParseSetd
    <3>2. CASE body[1] = 0 /\ Len(body) > 1
      BY <1>1, <3>2 DEF ParseSetd
    <3>3. CASE body[1] = 4
      BY <1>1, <3>3 DEF ParseSetd
    <3>4. CASE body[1] # 0 /\ body[1] # 4
      BY <1>1, <3>4 DEF ParseSetd
    <3>5. \A n \in Nat : n >= 1 => n = 1 \/ n > 1
      OBVIOUS
    <3>6. Len(body) = 1 \/ Len(body) > 1
      BY <1>1, <1>7, <3>5
    <3> QED
      BY <3>1, <3>2, <3>3, <3>4, <3>6
  <2> QED
    BY <2>1, <2>2 DEF Variants
<1>8. CASE cmd = "strm" /\ Len(body) >= 24
  <2>1. body[1] \in Nat
    BY <1>1, <1>8, Left
  <2>2. CASE body[1] \in {0, 1, 4, 5, 6}
    BY <1>0, <1>8, <2>2, StrmFaithful
  <2>3. CASE body[1] \notin {0, 1, 4, 5, 6}
    <3>1. msg = ParseStrm(body[1], Tail(body))
      BY <1>8, ServerCases
    <3>2. ParseStrm(body[1], Tail(body)).kind \in {"Stop", "Flush", "Unrecognised"}
      BY <2>1, <2>3, StrmCases
    <3> QED
      BY <3>1, <3>2 DEF Variants
  <2> QED
    BY <2>2, <2>3
<1> QED
  BY <1>1, <1>2, <1>3, <1>4, <1>5, <1>6, <1>7, <1>8, CheckedLengths

\* The first elements of a sequence.
LEMMA Front ==
  ASSUME NEW s \in Seq(Nat), NEW p \in Seq(Nat), PartAt(s, 0, p)
  PROVE  SubSeq(s, 1, Len(p)) = p
<1> DEFINE n == Len(p)
           r == SubSeq(s, 1, n)
<1>1. n \in Nat /\ Len(s) \in Nat /\ n <= Len(s)
  BY LenProperties DEF PartAt
<1>2. \A i \in 1 .. Len(p) : s[0 + i] = p[i]
  BY DEF PartAt
<1> HIDE DEF n
<1>3. \A i \in 1 .. n : s[i] \in Nat
  BY <1>1, ElementOfSeq
<1>4. r \in Seq(Nat) /\ Len(r) = n /\ \A i \in 1 .. n : r[i] = s[i]
  BY <1>1, <1>3, SubSeqProperties
<1> HIDE DEF r
<1>5. \A i \in 1 .. n : r[i] = p[i]
  BY <1>1, <1>2, <1>4 DEF n
<1>6. r = p
  BY <1>4, <1>5, SeqEqual DEF n
<1> QED
  BY <1>6 DEF r, n

\* The name Lyrion gives arrives without its NUL.
LEMMA NameParsed ==
  ASSUME NEW text \in Seq(Nat)
  PROVE  ServerMessage("setd", <<0>> \o text \o <<0>>).name = text
<1> DEFINE a == <<0>> \o text
           body == a \o <<0>>
           t == Tail(body)
<1>1. <<0>> \in Seq(Nat) /\ Len(<<0>>) = 1 /\ <<0>>[1] = 0
  OBVIOUS
<1>2. a \in Seq(Nat) /\ Len(a) = 1 + Len(text) /\ a[1] = 0 /\ Len(text) \in Nat
      /\ \A i \in 1 .. Len(text) : a[1 + i] = text[i]
  BY <1>1, Joined
<1> HIDE DEF a
<1>3. body \in Seq(Nat) /\ Len(body) = Len(text) + 2 /\ \A i \in 1 .. Len(a) : body[i] = a[i]
  BY <1>1, <1>2, Joined
<1> HIDE DEF body
<1>4. body[1] = 0 /\ Len(body) >= 1 /\ Len(body) > 1
  BY <1>2, <1>3
<1>5. t \in Seq(Nat) /\ Len(t) = Len(text) + 1 /\ PartAt(body, 1, t)
  BY <1>2, <1>3, <1>4, Left
<1> HIDE DEF t
<1>6. ServerMessage("setd", body) = ParseSetd(body)
  BY <1>3, <1>4, ServerCases
<1>7. ParseSetd(body) = [kind |-> "Setname", name |-> WithoutNul(t)]
  BY <1>2, <1>3, <1>4 DEF ParseSetd, t
<1>8. WithoutNul(t) = text
  <2>1. WithoutNul(t) = SubSeq(t, 1, Len(text))
    BY <1>2, <1>5 DEF WithoutNul
  <2>2. \A i \in 1 .. Len(text) : t[0 + i] = text[i]
    <3> TAKE i \in 1 .. Len(text)
    <3>1. 0 + i = i /\ 1 + i \in 1 .. Len(a) /\ i \in 1 .. Len(t)
      BY <1>2, <1>5
    <3>2. body[1 + i] = t[i]
      BY <3>1, <1>5 DEF PartAt
    <3>3. body[1 + i] = a[1 + i] /\ a[1 + i] = text[i]
      BY <1>2, <1>3, <3>1
    <3> QED
      BY <3>1, <3>2, <3>3
  <2>3. PartAt(t, 0, text)
    BY <1>2, <1>5, <2>2 DEF PartAt
  <2>4. SubSeq(t, 1, Len(text)) = text
    BY <1>5, <2>3, Front
  <2> QED
    BY <2>1, <2>4
<1>9. ServerMessage("setd", body).name = text
  BY <1>6, <1>7, <1>8
<1> QED
  BY <1>9 DEF body, a

\* Counting modulo a width loses nothing but multiples of it.
LEMMA AddMod ==
  ASSUME NEW m \in Nat \ {0}, NEW a \in Nat, NEW n \in Nat
  PROVE  ((a % m) + n) % m = (a + n) % m
<1> DEFINE q == a \div m
           r == a % m
           s == r + n
           p == s \div m
           t == s % m
<1>1. q \in Nat /\ r \in Nat /\ a = (m * q) + r
  BY DivMod
<1> HIDE DEF q, r
<1>2. s \in Nat
  BY <1>1
<1>4. a + n = (m * q) + s
  BY <1>1
<1> HIDE DEF s
<1>3. p \in Nat /\ t \in 0 .. m - 1 /\ s = (m * p) + t
  BY <1>2, DivMod
<1> HIDE DEF p, t
<1>5. a + n = (m * (q + p)) + t
  BY <1>1, <1>3, <1>4
<1>6. q + p \in Nat /\ a + n \in Nat
  BY <1>1, <1>3
<1> DEFINE c == q + p
           v == a + n
<1>7. c \in Nat /\ v \in Nat /\ v = (m * c) + t
  BY <1>5, <1>6
<1> HIDE DEF c, v
<1>8. v % m = t
  BY <1>3, <1>7, ModUnique
<1> QED
  BY <1>8 DEF v, t, s, r

\* Also when what is added is cut to the width first, as add_crlf(n as u8) does.
LEMMA AddModBoth ==
  ASSUME NEW m \in Nat \ {0}, NEW a \in Nat, NEW n \in Nat
  PROVE  ((a % m) + (n % m)) % m = (a + n) % m
<1>1. a % m \in Nat /\ n % m \in Nat
  BY DivMod
<1>2. ((a % m) + (n % m)) % m = (a + (n % m)) % m
  BY <1>1, AddMod
<1>3. ((n % m) + a) % m = (n + a) % m
  BY AddMod
<1>4. (n % m) + a = a + (n % m) /\ n + a = a + n
  BY <1>1
<1> QED
  BY <1>2, <1>3, <1>4

-----------------------------------------------------------------------------
(* The bytes on the wire                                                   *)

\* Between two offsets of w is one message, and Lyrion takes it for `meaning`.
Said(w, from, to, meaning) ==
  \E msg \in Seq(Nat) : Says(msg, meaning) /\ PartAt(w, from, msg) /\ to = from + Len(msg)

\* `ends` are where one message after the other ends on w.
Ends(ends, w, m) ==
  /\ ends \in [0 .. Len(m) -> Nat] /\ ends[0] = 0 /\ ends[Len(m)] = Len(w)
  /\ \A i, j \in 0 .. Len(m) : i <= j => ends[i] <= ends[j]
  /\ \A i \in 1 .. Len(m) : Said(w, ends[i - 1], ends[i], m[i])

\* What Lyrion can read out of bytes.
Meanings == {Reading(b) : b \in Seq(Nat)}

\* Nothing on the wire.
LEMMA NoneSent == Ends([i \in 0 .. 0 |-> 0], <<>>, <<>>)
<1>1. Len(<<>>) = 0
  OBVIOUS
<1> QED
  BY <1>1 DEF Ends

\* One message more at the end.
LEMMA OneMore ==
  ASSUME NEW w \in Seq(Nat), NEW m \in Seq(Meanings), NEW ends, Ends(ends, w, m),
         NEW msg, NEW meaning, Says(msg, meaning)
  PROVE  /\ w \o msg \in Seq(Nat) /\ Append(m, meaning) \in Seq(Meanings)
         /\ \E e : Ends(e, w \o msg, Append(m, meaning))
<1> DEFINE n == Len(m)
           v == w \o msg
           l == Append(m, meaning)
           e == [i \in 0 .. n + 1 |-> IF i = n + 1 THEN Len(v) ELSE ends[i]]
<1>1. n \in Nat /\ Len(w) \in Nat /\ msg \in Seq(Nat) /\ Len(msg) \in Nat
  BY LenProperties DEF Says
<1>2. Adds(w, msg, v)
  BY <1>1, Extend
<1>3. v \in Seq(Nat) /\ Len(v) = Len(w) + Len(msg) /\ PartAt(v, Len(w), msg)
  BY <1>2 DEF Adds
<1>4. meaning \in Meanings
  BY DEF Meanings, Says
<1>5. l \in Seq(Meanings) /\ Len(l) = n + 1 /\ l[n + 1] = meaning /\ \A i \in 1 .. n : l[i] = m[i]
  BY <1>4, AppendProperties
<1>6. /\ ends \in [0 .. n -> Nat] /\ ends[0] = 0 /\ ends[n] = Len(w)
      /\ \A i, j \in 0 .. n : i <= j => ends[i] <= ends[j]
  BY DEF Ends
<1> HIDE DEF v, l
<1>7. e \in [0 .. n + 1 -> Nat] /\ e[0] = 0 /\ e[n + 1] = Len(v) /\ \A i \in 0 .. n : e[i] = ends[i]
  BY <1>1, <1>3, <1>6
<1>8. \A i \in 0 .. n : ends[i] <= Len(w) /\ ends[i] \in Nat
  BY <1>1, <1>6
<1>9. \A i, j \in 0 .. n + 1 : i <= j => e[i] <= e[j]
  <2> SUFFICES ASSUME NEW i \in 0 .. n + 1, NEW j \in 0 .. n + 1, i <= j PROVE e[i] <= e[j]
    OBVIOUS
  <2>1. CASE j \in 0 .. n
    BY <1>1, <1>6, <1>7, <2>1
  <2>2. CASE j = n + 1 /\ i \in 0 .. n
    BY <1>1, <1>3, <1>7, <1>8, <2>2
  <2>3. CASE j = n + 1 /\ i = n + 1
    BY <1>3, <1>7, <2>3
  <2> QED
    BY <1>1, <2>1, <2>2, <2>3
<1> HIDE DEF e, n
<1>10. ASSUME NEW i \in 1 .. n + 1
       PROVE  Said(v, e[i - 1], e[i], l[i])
  <2>1. CASE i = n + 1
    <3>1. e[i - 1] = Len(w) /\ e[i] = Len(w) + Len(msg) /\ l[i] = meaning
      <4>1. i - 1 = n /\ n \in 0 .. n
        BY <1>1, <2>1
      <4> QED
        BY <1>3, <1>5, <1>6, <1>7, <2>1, <4>1
    <3> QED
      BY <1>1, <1>3, <3>1 DEF Said
  <2>2. CASE i \in 1 .. n
    <3>1. e[i - 1] = ends[i - 1] /\ e[i] = ends[i] /\ l[i] = m[i] /\ ends[i - 1] \in Nat
      <4>1. i - 1 \in 0 .. n /\ i \in 0 .. n
        BY <1>1, <2>2
      <4> QED
        BY <1>5, <1>7, <1>8, <2>2, <4>1
    <3>2. Said(w, ends[i - 1], ends[i], m[i])
      BY <2>2 DEF Ends, n
    <3>3. PICK p \in Seq(Nat) : Says(p, m[i]) /\ PartAt(w, ends[i - 1], p) /\ ends[i] = ends[i - 1] + Len(p)
      BY <3>2 DEF Said
    <3>4. PartAt(v, ends[i - 1], p)
      BY <1>2, <3>1, <3>3 DEF Adds
    <3> QED
      BY <3>1, <3>3, <3>4 DEF Said
  <2> QED
    BY <1>1, <2>1, <2>2
<1>11. Ends(e, v, l)
  BY <1>5, <1>7, <1>9, <1>10 DEF Ends
<1> QED
  BY <1>3, <1>5, <1>11 DEF v, l

\* Where the first message ends by its length is where it ends.
LEMMA FirstSaid ==
  ASSUME NEW w \in Seq(Nat), NEW m \in Seq(Meanings), m # <<>>, NEW ends, Ends(ends, w, m)
  PROVE  /\ ends[1] = 5 + GetU32(w, 1) /\ ends[1] \in Nat /\ ends[1] <= Len(w)
         /\ Reading(SubSeq(w, 1, ends[1])) = m[1]
<1> DEFINE n == Len(m)
<1>1. n \in Nat /\ n >= 1 /\ Len(w) \in Nat
  BY LenProperties, EmptySeq
<1>2. 1 \in 1 .. n /\ 0 \in 0 .. n /\ 1 \in 0 .. n /\ n \in 0 .. n /\ 1 - 1 = 0
  BY <1>1
<1>3. Said(w, 0, ends[1], m[1])
  BY <1>2 DEF Ends
<1>4. PICK p \in Seq(Nat) : Says(p, m[1]) /\ PartAt(w, 0, p) /\ ends[1] = 0 + Len(p)
  BY <1>3 DEF Said
<1>5. Len(p) \in Nat /\ ends[1] = Len(p) /\ Len(p) <= Len(w)
  BY <1>1, <1>4, LenProperties DEF PartAt
<1>6. Len(p) = 5 + GetU32(p, 1) /\ Len(p) >= 5 /\ Reading(p) = m[1]
  BY <1>4 DEF Says
<1>7. GetU32(p, 1) = GetU32(w, 1)
  <2>1. 1 \in Nat /\ 4 \in Nat /\ 0 \in Nat /\ 1 + 4 <= Len(p)
    BY <1>5, <1>6
  <2>2. At(p, <<1, 4>>) = At(w, <<1 + 0, 4>>)
    BY <1>4, <2>1, ShiftedAt
  <2>3. At(p, <<1, 4>>) = GetU32(p, 1) /\ At(w, <<1 + 0, 4>>) = GetU32(w, 1)
    BY DEF At
  <2> QED
    BY <2>2, <2>3
<1>8. SubSeq(w, 1, Len(p)) = p
  BY <1>4, Front
<1> QED
  BY <1>5, <1>6, <1>7, <1>8

\* One message less at the front.
LEMMA OneLess ==
  ASSUME NEW w \in Seq(Nat), NEW m \in Seq(Meanings), m # <<>>, NEW ends, Ends(ends, w, m)
  PROVE  /\ SubSeq(w, ends[1] + 1, Len(w)) \in Seq(Nat) /\ Tail(m) \in Seq(Meanings)
         /\ \E e : Ends(e, SubSeq(w, ends[1] + 1, Len(w)), Tail(m))
<1> DEFINE n == Len(m)
           k == ends[1]
           v == SubSeq(w, k + 1, Len(w))
           l == Tail(m)
           e == [i \in 0 .. n - 1 |-> ends[i + 1] - k]
<1>1. n \in Nat /\ n >= 1 /\ Len(w) \in Nat
  BY LenProperties, EmptySeq
<1>2. k \in Nat /\ k <= Len(w)
  BY FirstSaid
<1>3. v \in Seq(Nat) /\ Len(v) = Len(w) - k /\ PartAt(w, k, v)
  BY <1>2, Behind
<1>4. l \in Seq(Meanings) /\ Len(l) = n - 1 /\ \A i \in 1 .. n - 1 : l[i] = m[i + 1]
  BY HeadTailProperties
<1>5. /\ ends \in [0 .. n -> Nat] /\ ends[n] = Len(w)
      /\ \A i, j \in 0 .. n : i <= j => ends[i] <= ends[j]
  BY DEF Ends
<1> HIDE DEF v, l
<1>6. ASSUME NEW i \in 0 .. n - 1
      PROVE  e[i] = ends[i + 1] - k /\ e[i] \in Nat /\ ends[i + 1] \in Nat /\ ends[i + 1] = k + e[i]
  <2>1. i + 1 \in 0 .. n /\ 1 \in 0 .. n /\ 1 <= i + 1
    BY <1>1
  <2>2. ends[i + 1] \in Nat /\ k <= ends[i + 1]
    BY <1>5, <2>1
  <2> QED
    BY <1>2, <2>2
<1>7. e \in [0 .. n - 1 -> Nat] /\ e[0] = 0 /\ e[n - 1] = Len(v)
  <2>1. e \in [0 .. n - 1 -> Nat]
    BY <1>6
  <2>2. 0 \in 0 .. n - 1 /\ n - 1 \in 0 .. n - 1 /\ (n - 1) + 1 = n /\ 0 + 1 = 1
    BY <1>1
  <2>3. e[0] = k - k /\ e[n - 1] = ends[n] - k
    BY <2>2
  <2> QED
    BY <1>1, <1>2, <1>3, <1>5, <2>1, <2>3
<1> HIDE DEF e
<1>8. \A i, j \in 0 .. n - 1 : i <= j => e[i] <= e[j]
  <2> SUFFICES ASSUME NEW i \in 0 .. n - 1, NEW j \in 0 .. n - 1, i <= j PROVE e[i] <= e[j]
    OBVIOUS
  <2>1. i + 1 \in 0 .. n /\ j + 1 \in 0 .. n /\ i + 1 <= j + 1
    BY <1>1
  <2>2. ends[i + 1] <= ends[j + 1]
    BY <1>5, <2>1
  <2>3. ends[i + 1] = k + e[i] /\ ends[j + 1] = k + e[j] /\ e[i] \in Nat /\ e[j] \in Nat
    BY <1>6
  <2> HIDE DEF k
  <2> QED
    BY <1>2, <2>2, <2>3
<1> HIDE DEF n, k
<1>9. ASSUME NEW i \in 1 .. n - 1
      PROVE  Said(v, e[i - 1], e[i], l[i])
  <2>1. i - 1 \in 0 .. n - 1 /\ i \in 0 .. n - 1 /\ (i - 1) + 1 = i /\ i + 1 \in 1 .. n /\ (i + 1) - 1 = i
    BY <1>1
  <2>2. Said(w, ends[(i + 1) - 1], ends[i + 1], m[i + 1])
    BY <2>1 DEF Ends, n
  <2>3. PICK p \in Seq(Nat) : Says(p, m[i + 1]) /\ PartAt(w, ends[i], p) /\ ends[i + 1] = ends[i] + Len(p)
    BY <2>1, <2>2 DEF Said
  <2>4. /\ e[i - 1] \in Nat /\ e[i] \in Nat /\ ends[i] = k + e[i - 1] /\ ends[i + 1] = k + e[i]
        /\ Len(p) \in Nat /\ Len(v) \in Nat
    <3>1. e[i - 1] \in Nat /\ ends[(i - 1) + 1] = k + e[i - 1]
      BY <1>6, <2>1
    <3> QED
      BY <1>3, <1>6, <2>1, <2>3, <3>1, LenProperties
  <2>5. e[i] = e[i - 1] + Len(p)
    <3>1. \A a, b, x \in Nat : k + b = (k + a) + x => b = a + x
      BY <1>2
    <3>2. k + e[i] = (k + e[i - 1]) + Len(p)
      BY <2>3, <2>4
    <3> DEFINE a == e[i - 1]
               b == e[i]
               x == Len(p)
    <3>3. a \in Nat /\ b \in Nat /\ x \in Nat /\ k + b = (k + a) + x
      BY <2>4, <3>2
    <3> HIDE DEF a, b, x
    <3>4. b = a + x
      BY <3>1, <3>3
    <3> QED
      BY <3>4 DEF a, b, x
  <2>6. PartAt(v, e[i - 1], p)
    <3>1. (k + e[i - 1]) + Len(p) <= Len(w) /\ \A x \in 1 .. Len(p) : w[(k + e[i - 1]) + x] = p[x]
      BY <2>3, <2>4 DEF PartAt
    <3>2. e[i - 1] + Len(p) <= Len(v)
      BY <1>1, <1>2, <1>3, <2>4, <3>1
    <3>3. ASSUME NEW x \in 1 .. Len(p)
          PROVE  v[e[i - 1] + x] = p[x]
      <4>1. e[i - 1] + x \in 1 .. Len(v) /\ k + (e[i - 1] + x) = (k + e[i - 1]) + x
        <5>1. \A a, b, c \in Nat : a + b <= c =>
                \A y \in 1 .. b : a + y \in 1 .. c /\ k + (a + y) = (k + a) + y
          BY <1>2
        <5> QED
          BY <2>4, <3>2, <5>1
      <4>2. w[k + (e[i - 1] + x)] = v[e[i - 1] + x]
        BY <1>3, <4>1 DEF PartAt
      <4> QED
        BY <3>1, <4>1, <4>2
    <3> QED
      BY <3>2, <3>3 DEF PartAt
  <2>7. l[i] = m[i + 1]
    BY <1>4
  <2> QED
    BY <2>3, <2>5, <2>6, <2>7 DEF Said
<1>10. Ends(e, v, l)
  BY <1>4, <1>7, <1>8, <1>9 DEF Ends
<1> QED
  BY <1>3, <1>4, <1>10 DEF v, l, k

-----------------------------------------------------------------------------
(* The inductive invariant of Messages                                     *)

\* The block has counted what was added, modulo the widths of its fields.
Counted == block.crlf = added.crlf % U8 /\ block.bytes_received = added.bytes % U64

\* The wire holds the messages that were meant, one behind the other.
OnWire == meant \in Seq(Meanings) /\ \E ends : Ends(ends, wire, meant)

\* ParsedAsLaidOut, of any message and frame.
LaidOut(message, f) ==
  \A kind \in DOMAIN Places :
    (/\ f.cmd = Heads[kind][1] /\ Len(f.body) >= Heads[kind][3]
     /\ f.cmd = "strm" => f.body[1] = Heads[kind][2]) =>
    /\ Agrees(message, kind, f.body)
    /\ message.kind # "Error" /\ kind \in {"Stream", "Serv"} =>
         message.rest = SubSeq(f.body, Heads[kind][3] + 1, Len(f.body))

MessagesInv ==
  /\ TypeOK /\ name = named /\ Counted /\ OnWire
  /\ LengthChecksSuffice /\ LaidOut(parsed, frame)

\* The kinds of frames with fields, and how each is recognised.
LEMMA Kinds ==
  /\ DOMAIN Places = {"Stream", "Status", "Pause", "Unpause", "Skip", "Serv", "Enable", "Gain"}
  /\ Heads["Stream"] = <<"strm", 0, 24>> /\ Heads["Status"] = <<"strm", 1, 24>>
  /\ Heads["Pause"] = <<"strm", 4, 24>> /\ Heads["Unpause"] = <<"strm", 5, 24>>
  /\ Heads["Skip"] = <<"strm", 6, 24>> /\ Heads["Serv"] = <<"serv", 0, 4>>
  /\ Heads["Enable"] = <<"aude", 0, 2>> /\ Heads["Gain"] = <<"audg", 0, 18>>
<1>1. DOMAIN Places = {"Stream", "Status", "Pause", "Unpause", "Skip", "Serv", "Enable", "Gain"}
  BY DEF Places
<1>2. /\ Heads["Stream"] = <<"strm", 0, 24>> /\ Heads["Status"] = <<"strm", 1, 24>>
      /\ Heads["Pause"] = <<"strm", 4, 24>> /\ Heads["Unpause"] = <<"strm", 5, 24>>
  BY DEF Heads
<1>3. /\ Heads["Skip"] = <<"strm", 6, 24>> /\ Heads["Serv"] = <<"serv", 0, 4>>
      /\ Heads["Enable"] = <<"aude", 0, 2>> /\ Heads["Gain"] = <<"audg", 0, 18>>
  BY DEF Heads
<1> QED
  BY <1>1, <1>2, <1>3

\* Any frame is parsed as laid out.
LEMMA FrameLaidOut ==
  ASSUME NEW f, f.body \in Seq(Nat), NEW message, message = ServerMessage(f.cmd, f.body)
  PROVE  LaidOut(message, f)
<1> DEFINE body == f.body
           cmd == f.cmd
           Of(kind) == /\ cmd = Heads[kind][1] /\ Len(body) >= Heads[kind][3]
                       /\ cmd = "strm" => body[1] = Heads[kind][2]
           Right(kind) == /\ Agrees(message, kind, body)
                          /\ message.kind # "Error" /\ kind \in {"Stream", "Serv"} =>
                               message.rest = SubSeq(body, Heads[kind][3] + 1, Len(body))
<1>1. body \in Seq(Nat) /\ message = ServerMessage(cmd, body)
  OBVIOUS
<1> HIDE DEF body, cmd
<1>2. Of("Stream") => Right("Stream")
  BY <1>1, Kinds, StrmFaithful DEF Faithful
<1>3. Of("Status") => Right("Status")
  BY <1>1, Kinds, StrmFaithful DEF Faithful
<1>4. Of("Pause") => Right("Pause")
  BY <1>1, Kinds, StrmFaithful DEF Faithful
<1>5. Of("Unpause") => Right("Unpause")
  BY <1>1, Kinds, StrmFaithful DEF Faithful
<1>6. Of("Skip") => Right("Skip")
  BY <1>1, Kinds, StrmFaithful DEF Faithful
<1>7. Of("Serv") => Right("Serv")
  BY <1>1, Kinds, OthersFaithful DEF Faithful
<1>8. Of("Enable") => Right("Enable")
  BY <1>1, Kinds, OthersFaithful DEF Faithful
<1>9. Of("Gain") => Right("Gain")
  BY <1>1, Kinds, OthersFaithful DEF Faithful
<1> HIDE DEF Of, Right
<1>10. \A kind \in DOMAIN Places : Of(kind) => Right(kind)
  BY <1>2, <1>3, <1>4, <1>5, <1>6, <1>7, <1>8, <1>9, Kinds
<1> QED
  BY <1>10 DEF LaidOut, Of, Right, body, cmd

\* Without a frame there is nothing to agree with.
LEMMA NoFrameLaidOut == \A message : LaidOut(message, NoFrame)
<1>1. NoFrame.cmd = "none"
  BY DEF NoFrame
<1>2. \A kind \in DOMAIN Places : Heads[kind][1] # "none"
  BY Kinds
<1> QED
  BY <1>1, <1>2 DEF LaidOut

\* LaidOut is the property.
LEMMA LaidOutSuffices == LaidOut(parsed, frame) => ParsedAsLaidOut
<1> SUFFICES ASSUME LaidOut(parsed, frame), NEW kind \in DOMAIN Places, Sent(kind)
             PROVE  LET fields == [f \in DOMAIN Places[kind] |->
                                     Meaning(f, At(frame.body, Places[kind][f]))] IN
                    IF \E f \in DOMAIN fields \cap DOMAIN Alternatives : fields[f] >= Alternatives[f]
                    THEN parsed.kind = "Error"
                    ELSE /\ parsed.kind = kind /\ DOMAIN parsed.fields = DOMAIN fields
                         /\ \A f \in DOMAIN fields :
                              (f = "flags" => fields[f] \in KnownFlags) => parsed.fields[f] = fields[f]
                         /\ kind \in {"Stream", "Serv"} =>
                              parsed.rest = SubSeq(frame.body, Heads[kind][3] + 1, Len(frame.body))
  BY DEF ParsedAsLaidOut
<1> DEFINE fields == [f \in DOMAIN Places[kind] |-> Meaning(f, At(frame.body, Places[kind][f]))]
           bad == \E f \in DOMAIN fields \cap DOMAIN Alternatives : fields[f] >= Alternatives[f]
           right == \A f \in DOMAIN fields :
                      (f = "flags" => fields[f] \in KnownFlags) => parsed.fields[f] = fields[f]
           rest == SubSeq(frame.body, Heads[kind][3] + 1, Len(frame.body))
<1>1. Agrees(parsed, kind, frame.body)
  BY DEF LaidOut, Sent
<1>2. parsed.kind # "Error" /\ kind \in {"Stream", "Serv"} => parsed.rest = rest
  BY DEF LaidOut, Sent
<1>3. IF bad THEN parsed.kind = "Error"
      ELSE parsed.kind = kind /\ DOMAIN parsed.fields = DOMAIN fields /\ right
  BY <1>1 DEF Agrees
<1>4. kind # "Error"
  BY Kinds
<1> HIDE DEF fields, bad, right, rest
<1>5. IF bad THEN parsed.kind = "Error"
      ELSE /\ parsed.kind = kind /\ DOMAIN parsed.fields = DOMAIN fields /\ right
           /\ kind \in {"Stream", "Serv"} => parsed.rest = rest
  BY <1>2, <1>3, <1>4
<1> QED
  BY <1>5 DEF fields, bad, right, rest

\* The invariant holds the properties.
LEMMA MessagesInvSuffices ==
  MessagesInv => TypeOK /\ ServerUnderstands /\ ParsedAsLaidOut /\ LengthChecksSuffice
<1> SUFFICES ASSUME MessagesInv PROVE ServerUnderstands /\ ParsedAsLaidOut
  BY DEF MessagesInv
<1>1. ParsedAsLaidOut
  BY LaidOutSuffices DEF MessagesInv
<1>2. wire \in Seq(Nat) /\ meant \in Seq(Meanings)
  BY DEF MessagesInv, TypeOK, OnWire
<1>3. PICK ends : Ends(ends, wire, meant)
  BY DEF MessagesInv, OnWire
<1>4. CASE meant = <<>>
  <2>1. Len(meant) = 0
    BY <1>4
  <2>2. Len(wire) = 0
    BY <1>3, <2>1 DEF Ends
  <2>3. wire = <<>>
    BY <1>2, <2>2, EmptySeq
  <2> QED
    BY <1>1, <1>4, <2>3 DEF ServerUnderstands
<1>5. CASE meant # <<>>
  <2>1. /\ ends[1] = 5 + GetU32(wire, 1) /\ ends[1] <= Len(wire)
        /\ Reading(SubSeq(wire, 1, ends[1])) = meant[1]
    BY <1>2, <1>3, <1>5, FirstSaid
  <2>2. Head(meant) = meant[1] /\ FirstEnd = ends[1]
    BY <1>2, <1>5, <2>1 DEF FirstEnd
  <2> QED
    BY <1>1, <1>5, <2>1, <2>2 DEF ServerUnderstands
<1> QED
  BY <1>4, <1>5

\* What the assumption says of each constant, and what a text is.
LEMMA Given ==
  /\ U8 \in Nat \ {0} /\ U16 \in Nat \ {0} /\ U32 \in Nat \ {0} /\ U64 \in Nat \ {0}
  /\ 1 < U8 /\ Base \in Nat /\ Base < U16
  /\ Second \in Nat \ {0} /\ Times \subseteq Nat /\ Counts \subseteq Nat
  /\ \A t \in Texts : t \in Seq(Nat) /\ Len(t) + 36 < U32
  /\ \A f \in Fills : f[1] \in 0 .. U32 - 1 /\ f[2] \in 0 .. U32 - 1
  /\ \A f \in ServerFrames : f.cmd \in STRING /\ f.body \in Seq(Nat)
<1>1. /\ U8 \in Nat \ {0} /\ U16 \in Nat \ {0} /\ U32 \in Nat \ {0} /\ U64 \in Nat \ {0}
  BY Powers
<1>2. Base \in Nat /\ Base > 2 /\ U8 = Base
  BY MessagesAssumption DEF U8
<1>3. Base < Base * Base /\ 1 < U8
  BY <1>2
<1>4. U16 = Base * Base
  BY <1>2 DEF U16
<1>5. Base < U16
  BY <1>3, <1>4
<1>6. /\ Second \in Nat \ {0} /\ Times \subseteq Nat /\ Counts \subseteq Nat
      /\ \A t \in Texts : t \in Seq(Nat) /\ Len(t) + 36 < U32
      /\ \A f \in ServerFrames : f.cmd \in STRING /\ f.body \in Seq(Nat)
  BY MessagesAssumption
<1>7. \A f \in Fills : f[1] \in 0 .. U32 - 1 /\ f[2] \in 0 .. U32 - 1
  BY MessagesAssumption
<1> QED
  BY <1>1, <1>2, <1>3, <1>5, <1>6, <1>7

\* The invariant holds at the start.
LEMMA MessagesInit ==
  Init => MessagesInv
<1> SUFFICES ASSUME Init PROVE MessagesInv
  OBVIOUS
<1>1. /\ now = 0 /\ block = Zero /\ wire = <<>> /\ name \in Texts /\ named = name
      /\ added = [crlf |-> 0, bytes |-> 0] /\ meant = <<>> /\ parsed = Nothing /\ frame = NoFrame
  BY DEF Init
<1>2. Zero \in StatusData
  BY Given DEF Zero, StatusData
<1>3. TypeOK
  BY <1>1, <1>2 DEF TypeOK, Nothing
<1>4. 0 % U8 = 0 /\ 0 % U64 = 0
  BY Given, ModSmall
<1>5. Counted
  BY <1>1, <1>4 DEF Counted, Zero
<1>6. OnWire
  BY <1>1, NoneSent DEF OnWire
<1>7. LengthChecksSuffice
  BY <1>1 DEF LengthChecksSuffice, Nothing
<1>8. LaidOut(parsed, frame)
  BY <1>1, NoFrameLaidOut
<1> QED
  BY <1>1, <1>3, <1>5, <1>6, <1>7, <1>8 DEF MessagesInv

\* A step that sends nothing and parses nothing keeps what was on the wire.
LEMMA StillOnWire ==
  ASSUME MessagesInv, UNCHANGED <<wire, meant, parsed, frame>>
  PROVE  OnWire' /\ LengthChecksSuffice' /\ LaidOut(parsed, frame)' /\ wire' \in Seq(Nat)
         /\ frame' \in ServerFrames \cup {NoFrame}
<1>1. OnWire'
  BY DEF MessagesInv, OnWire
<1>2. LengthChecksSuffice'
  BY DEF MessagesInv, LengthChecksSuffice
<1>3. LaidOut(parsed, frame)'
  BY DEF MessagesInv
<1>4. wire' \in Seq(Nat) /\ frame' \in ServerFrames \cup {NoFrame}
  BY DEF MessagesInv, TypeOK
<1> QED
  BY <1>1, <1>2, <1>3, <1>4

\* One that sends a message that says what is meant adds it.
LEMMA SentOnWire ==
  ASSUME MessagesInv, NEW msg, NEW meaning, Says(msg, meaning),
         wire' = wire \o msg, meant' = Append(meant, meaning), UNCHANGED <<parsed, frame>>
  PROVE  OnWire' /\ LengthChecksSuffice' /\ LaidOut(parsed, frame)' /\ wire' \in Seq(Nat)
         /\ frame' \in ServerFrames \cup {NoFrame}
<1>1. wire \in Seq(Nat) /\ meant \in Seq(Meanings) /\ \E ends : Ends(ends, wire, meant)
  BY DEF MessagesInv, TypeOK, OnWire
<1>2. /\ wire \o msg \in Seq(Nat) /\ Append(meant, meaning) \in Seq(Meanings)
      /\ \E ends : Ends(ends, wire \o msg, Append(meant, meaning))
  BY <1>1, OneMore
<1>3. OnWire' /\ wire' \in Seq(Nat)
  BY <1>2 DEF OnWire
<1>4. LengthChecksSuffice'
  BY DEF MessagesInv, LengthChecksSuffice
<1>5. LaidOut(parsed, frame)'
  BY DEF MessagesInv
<1>6. frame' \in ServerFrames \cup {NoFrame}
  BY DEF MessagesInv, TypeOK
<1> QED
  BY <1>3, <1>4, <1>5, <1>6

\* One lemma for each action: add_crlf.
LEMMA AddCrlfStep ==
  ASSUME MessagesInv, NEW n \in Counts, AddCrlf(n)
  PROVE  MessagesInv'
<1> USE DEF AddCrlf
<1>1. OnWire' /\ LengthChecksSuffice' /\ LaidOut(parsed, frame)' /\ wire' \in Seq(Nat)
      /\ frame' \in ServerFrames \cup {NoFrame}
  BY StillOnWire
<1>2. /\ block \in StatusData /\ added \in [crlf : Nat, bytes : Nat] /\ now \in Nat /\ name \in Texts
      /\ name = named /\ Counted
  BY DEF MessagesInv, TypeOK
<1>3. n \in Nat /\ U8 \in Nat \ {0}
  BY Given
<1> DEFINE a == added.crlf
           v == AddU8(block.crlf, n % U8)
<1>4. a \in Nat /\ added' = [added EXCEPT !.crlf = a + n] /\ block' = [block EXCEPT !.crlf = v]
  BY <1>2
<1>5. v = ((a % U8) + (n % U8)) % U8
  BY <1>2 DEF Counted, AddU8
<1>6. v = (a + n) % U8
  BY <1>3, <1>4, <1>5, AddModBoth
<1>7. a + n \in Nat /\ v \in 0 .. U8 - 1
  <2>1. a + n \in Nat
    BY <1>3, <1>4
  <2>2. (a + n) % U8 \in 0 .. U8 - 1
    BY <1>3, <2>1, DivMod
  <2> QED
    BY <1>6, <2>1, <2>2
<1> HIDE DEF a, v
<1>8. block' \in StatusData /\ block'.crlf = v /\ block'.bytes_received = block.bytes_received
  BY <1>2, <1>4, <1>7 DEF StatusData
<1>9. added' \in [crlf : Nat, bytes : Nat] /\ added'.crlf = a + n /\ added'.bytes = added.bytes
  BY <1>2, <1>4, <1>7
<1>10. Counted'
  BY <1>2, <1>6, <1>8, <1>9 DEF Counted
<1> QED
  BY <1>1, <1>2, <1>8, <1>9, <1>10 DEF MessagesInv, TypeOK

\* add_bytes_received.
LEMMA AddBytesReceivedStep ==
  ASSUME MessagesInv, NEW n \in Counts, AddBytesReceived(n)
  PROVE  MessagesInv'
<1> USE DEF AddBytesReceived
<1>1. OnWire' /\ LengthChecksSuffice' /\ LaidOut(parsed, frame)' /\ wire' \in Seq(Nat)
      /\ frame' \in ServerFrames \cup {NoFrame}
  BY StillOnWire
<1>2. /\ block \in StatusData /\ added \in [crlf : Nat, bytes : Nat] /\ now \in Nat /\ name \in Texts
      /\ name = named /\ Counted
  BY DEF MessagesInv, TypeOK
<1>3. n \in Nat /\ U64 \in Nat \ {0}
  BY Given
<1> DEFINE a == added.bytes
           v == AddU64(block.bytes_received, n)
<1>4. a \in Nat /\ added' = [added EXCEPT !.bytes = a + n] /\ block' = [block EXCEPT !.bytes_received = v]
  BY <1>2
<1>5. v = ((a % U64) + n) % U64
  BY <1>2 DEF Counted, AddU64
<1>6. v = (a + n) % U64
  BY <1>3, <1>4, <1>5, AddMod
<1>7. a + n \in Nat /\ v \in 0 .. U64 - 1
  <2>1. a + n \in Nat
    BY <1>3, <1>4
  <2>2. (a + n) % U64 \in 0 .. U64 - 1
    BY <1>3, <2>1, DivMod
  <2> QED
    BY <1>6, <2>1, <2>2
<1> HIDE DEF a, v
<1>8. block' \in StatusData /\ block'.bytes_received = v /\ block'.crlf = block.crlf
  BY <1>2, <1>4, <1>7 DEF StatusData
<1>9. added' \in [crlf : Nat, bytes : Nat] /\ added'.bytes = a + n /\ added'.crlf = added.crlf
  BY <1>2, <1>4, <1>7
<1>10. Counted'
  BY <1>2, <1>6, <1>8, <1>9 DEF Counted
<1> QED
  BY <1>1, <1>2, <1>8, <1>9, <1>10 DEF MessagesInv, TypeOK

\* The setters of size and fullness touch neither count.
LEMMA SetBufferStep ==
  ASSUME MessagesInv, NEW fill \in Fills, SetBuffer(fill) \/ SetOutputBuffer(fill)
  PROVE  MessagesInv'
<1>1. OnWire' /\ LengthChecksSuffice' /\ LaidOut(parsed, frame)' /\ wire' \in Seq(Nat)
      /\ frame' \in ServerFrames \cup {NoFrame}
  BY StillOnWire DEF SetBuffer, SetOutputBuffer
<1>2. /\ block \in StatusData /\ added \in [crlf : Nat, bytes : Nat] /\ now \in Nat /\ name \in Texts
      /\ name = named /\ Counted
  BY DEF MessagesInv, TypeOK
<1>3. UNCHANGED <<now, name, parsed, added, named>>
  BY DEF SetBuffer, SetOutputBuffer
<1>4. fill[1] \in 0 .. U32 - 1 /\ fill[2] \in 0 .. U32 - 1
  BY Given
<1>5. block' \in StatusData /\ block'.crlf = block.crlf /\ block'.bytes_received = block.bytes_received
  <2>1. CASE SetBuffer(fill)
    BY <1>2, <1>4, <2>1 DEF SetBuffer, StatusData
  <2>2. CASE SetOutputBuffer(fill)
    BY <1>2, <1>4, <2>2 DEF SetOutputBuffer, StatusData
  <2> QED
    BY <2>1, <2>2
<1>6. Counted'
  BY <1>2, <1>3, <1>5 DEF Counted
<1> QED
  BY <1>1, <1>2, <1>3, <1>5, <1>6 DEF MessagesInv, TypeOK

\* make_status_message, of a block that has counted right.
LEMMA SendBlockStep ==
  ASSUME MessagesInv, NEW code \in Nat, NEW data \in StatusData,
         data.crlf = block.crlf, data.bytes_received = block.bytes_received, SendBlock(code, data)
  PROVE  MessagesInv'
<1>1. /\ block \in StatusData /\ added \in [crlf : Nat, bytes : Nat] /\ now \in Nat /\ name \in Texts
      /\ name = named /\ Counted
  BY DEF MessagesInv, TypeOK
<1>2. /\ block' = [data EXCEPT !.jiffies = now] /\ wire' = wire \o EncodeStat(code, block')
      /\ meant' = Append(meant, StatMeaning(code, data))
      /\ UNCHANGED <<now, name, parsed, added, frame, named>>
  BY DEF SendBlock, Send
<1>3. data.crlf = added.crlf % U8 /\ data.bytes_received = added.bytes % U64
  BY <1>1 DEF Counted
<1>4. /\ [data EXCEPT !.jiffies = now] \in StatusData
      /\ Says(EncodeStat(code, [data EXCEPT !.jiffies = now]), StatMeaning(code, data))
  BY <1>1, <1>3, StatusSays
<1>5. block' \in StatusData /\ Says(EncodeStat(code, block'), StatMeaning(code, data))
  BY <1>2, <1>4
<1>6. OnWire' /\ LengthChecksSuffice' /\ LaidOut(parsed, frame)' /\ wire' \in Seq(Nat)
      /\ frame' \in ServerFrames \cup {NoFrame}
  BY <1>2, <1>5, SentOnWire
<1>7. block'.crlf = data.crlf /\ block'.bytes_received = data.bytes_received
  BY <1>2 DEF StatusData
<1>8. Counted'
  BY <1>2, <1>3, <1>7 DEF Counted
<1> QED
  BY <1>1, <1>2, <1>5, <1>6, <1>8 DEF MessagesInv, TypeOK

\* on_status: the times played are cast to a u32, and so fit.
LEMMA OnStatusStep ==
  ASSUME MessagesInv, NEW play_time \in Times, NEW ts \in Times, OnStatus(play_time, ts)
  PROVE  MessagesInv'
<1> DEFINE a == play_time % U32
           s == play_time \div Second
           b == s % U32
           data == [block EXCEPT !.elapsed_milliseconds = a, !.elapsed_seconds = b, !.timestamp = ts]
<1>1. play_time \in Nat /\ ts \in Nat /\ U32 \in Nat \ {0} /\ Second \in Nat \ {0}
  BY Given
<1>2. a \in 0 .. U32 - 1
  BY <1>1, DivMod
<1>3. s \in Nat
  BY <1>1, DivMod
<1> HIDE DEF a, s
<1>4. b \in 0 .. U32 - 1
  BY <1>1, <1>3, DivMod
<1> HIDE DEF b
<1>5. block \in StatusData
  BY DEF MessagesInv, TypeOK
<1>6. data \in StatusData /\ data.crlf = block.crlf /\ data.bytes_received = block.bytes_received
  BY <1>1, <1>2, <1>4, <1>5 DEF StatusData
<1>7. SendBlock(2, data)
  BY DEF OnStatus, a, s, b
<1> HIDE DEF data
<1>8. 2 \in Nat
  OBVIOUS
<1> QED
  BY <1>6, <1>7, <1>8, SendBlockStep

\* Any other STAT.
LEMMA SendStatStep ==
  ASSUME MessagesInv, SendStat
  PROVE  MessagesInv'
<1>1. block \in StatusData /\ 1 \in Nat /\ SendBlock(1, block)
  BY DEF MessagesInv, TypeOK, SendStat
<1> QED
  BY <1>1, SendBlockStep

\* The other messages leave the block as it is.
LEMMA OtherSendStep ==
  ASSUME MessagesInv, NEW msg, NEW meaning, Says(msg, meaning), Send(msg, meaning),
         UNCHANGED <<now, block, name, parsed, added, frame, named>>
  PROVE  MessagesInv'
<1>1. OnWire' /\ LengthChecksSuffice' /\ LaidOut(parsed, frame)' /\ wire' \in Seq(Nat)
      /\ frame' \in ServerFrames \cup {NoFrame}
  BY SentOnWire DEF Send
<1>2. Counted'
  BY DEF MessagesInv, Counted
<1> QED
  BY <1>1, <1>2 DEF MessagesInv, TypeOK

\* Hello::connect.
LEMMA SendHeloStep ==
  ASSUME MessagesInv, NEW reconnect \in BOOLEAN, NEW caps \in Texts, SendHelo(reconnect, caps)
  PROVE  MessagesInv'
<1> DEFINE wlan == IF reconnect THEN ReconnectBit ELSE 0
           n == block.bytes_received
           meaning == <<HELO, [device_id |-> 1, wlan_channel_list |-> wlan, bytes_received |-> n], caps>>
<1>1. caps \in Seq(Nat) /\ Len(caps) + 36 < U32 /\ 1 \in Nat /\ 1 < U8
  BY Given
<1>2. wlan \in Nat /\ wlan < U16
  BY Given DEF ReconnectBit
<1>3. block \in StatusData
  BY DEF MessagesInv, TypeOK
<1>4. n \in Nat /\ n < U64
  BY <1>3, StatTypes
<1>5. n = added.bytes % U64
  BY DEF MessagesInv, Counted
<1>6. Send(EncodeHelo(1, wlan, n, caps), meaning)
  BY <1>5 DEF SendHelo
<1>7. UNCHANGED <<now, block, name, parsed, added, frame, named>>
  BY DEF SendHelo
<1> HIDE DEF wlan, n
<1>8. Says(EncodeHelo(1, wlan, n, caps), meaning)
  BY <1>1, <1>2, <1>4, HeloSays
<1> HIDE DEF meaning
<1> QED
  BY <1>6, <1>7, <1>8, OtherSendStep

\* The farewell.
LEMMA SendByeStep ==
  ASSUME MessagesInv, SendBye
  PROVE  MessagesInv'
BY ByeSays, OtherSendStep DEF SendBye

\* The name is the one Lyrion gave, so the answer says it.
LEMMA AnswerQueryStep ==
  ASSUME MessagesInv, AnswerQuery
  PROVE  MessagesInv'
<1>1. name \in Texts /\ named = name
  BY DEF MessagesInv, TypeOK
<1>2. name \in Seq(Nat) /\ Len(name) + 36 < U32
  BY <1>1, Given
<1>3. Says(EncodeName(name), <<SETD, 0, name>>)
  BY <1>2, NameSays
<1>4. Send(EncodeName(name), <<SETD, 0, name>>) /\ UNCHANGED <<now, block, name, parsed, added, frame, named>>
  BY <1>1 DEF AnswerQuery
<1> QED
  BY <1>3, <1>4, OtherSendStep

\* Lyrion cuts where the message ends, so the rest is whole messages again.
LEMMA LyrionReadsStep ==
  ASSUME MessagesInv, LyrionReads
  PROVE  MessagesInv'
<1>1. wire \in Seq(Nat) /\ meant \in Seq(Meanings) /\ meant # <<>>
  BY DEF MessagesInv, TypeOK, OnWire, LyrionReads
<1>2. PICK ends : Ends(ends, wire, meant)
  BY DEF MessagesInv, OnWire
<1>3. FirstEnd = ends[1]
  BY <1>1, <1>2, FirstSaid DEF FirstEnd
<1>4. meant' = Tail(meant) /\ wire' = SubSeq(wire, ends[1] + 1, Len(wire))
  BY <1>3 DEF LyrionReads
<1>5. OnWire' /\ wire' \in Seq(Nat)
  BY <1>1, <1>2, <1>4, OneLess DEF OnWire
<1>6. UNCHANGED <<now, block, name, parsed, added, frame, named>>
  BY DEF LyrionReads
<1>7. Counted' /\ LengthChecksSuffice' /\ LaidOut(parsed, frame)'
  BY <1>6 DEF MessagesInv, Counted, LengthChecksSuffice
<1> QED
  BY <1>5, <1>6, <1>7 DEF MessagesInv, TypeOK

\* A frame is parsed, of whatever length and content.
LEMMA ReceiveStep ==
  ASSUME MessagesInv, NEW f \in ServerFrames, Receive(f)
  PROVE  MessagesInv'
<1>1. /\ parsed' = ServerMessage(f.cmd, f.body) /\ frame' = f
      /\ UNCHANGED <<now, block, name, wire, added, meant, named>>
  BY DEF Receive
<1>2. f.cmd \in STRING /\ f.body \in Seq(Nat)
  BY Given
<1>3. LengthChecksSuffice' /\ parsed'.kind \in Variants
  BY <1>1, <1>2, NoPanic DEF LengthChecksSuffice, Variants
<1>4. LaidOut(parsed, frame)'
  <2>1. LaidOut(ServerMessage(f.cmd, f.body), f)
    BY <1>2, FrameLaidOut
  <2> QED
    BY <1>1, <2>1
<1>5. Counted' /\ OnWire'
  BY <1>1 DEF MessagesInv, Counted, OnWire
<1> QED
  BY <1>1, <1>3, <1>4, <1>5 DEF MessagesInv, TypeOK

\* The player takes the name Lyrion gives it.
LEMMA ReceiveNameStep ==
  ASSUME MessagesInv, NEW text \in Texts, ReceiveName(text)
  PROVE  MessagesInv'
<1>1. text \in Seq(Nat)
  BY Given
<1>2. name' = text /\ named' = text /\ UNCHANGED <<now, block, wire, parsed, added, meant, frame>>
  BY <1>1, NameParsed DEF ReceiveName
<1>3. OnWire' /\ LengthChecksSuffice' /\ LaidOut(parsed, frame)' /\ wire' \in Seq(Nat)
      /\ frame' \in ServerFrames \cup {NoFrame}
  BY <1>2, StillOnWire
<1>4. Counted'
  BY <1>2 DEF MessagesInv, Counted
<1> QED
  BY <1>2, <1>3, <1>4 DEF MessagesInv, TypeOK

\* The event loop forgets the frame.
LEMMA HandledStep ==
  ASSUME MessagesInv, Handled
  PROVE  MessagesInv'
<1>1. parsed' = Nothing /\ frame' = NoFrame /\ UNCHANGED <<now, block, name, wire, added, meant, named>>
  BY DEF Handled
<1>2. LengthChecksSuffice' /\ parsed'.kind = "none"
  BY <1>1 DEF LengthChecksSuffice, Nothing
<1>3. LaidOut(parsed, frame)'
  BY <1>1, NoFrameLaidOut
<1>4. Counted' /\ OnWire'
  BY <1>1 DEF MessagesInv, Counted, OnWire
<1> QED
  BY <1>1, <1>2, <1>3, <1>4 DEF MessagesInv, TypeOK

\* The clock moves, or nothing does.
LEMMA IdleStep ==
  ASSUME MessagesInv, TimePasses \/ UNCHANGED vars
  PROVE  MessagesInv'
<1>1. /\ now' \in Nat
      /\ UNCHANGED <<block, name, wire, parsed, added, meant, frame, named>>
  BY Given DEF MessagesInv, TypeOK, TimePasses, vars
<1>2. OnWire' /\ LengthChecksSuffice' /\ LaidOut(parsed, frame)' /\ wire' \in Seq(Nat)
      /\ frame' \in ServerFrames \cup {NoFrame}
  BY <1>1, StillOnWire
<1>3. Counted'
  BY <1>1 DEF MessagesInv, Counted
<1> QED
  BY <1>1, <1>2, <1>3 DEF MessagesInv, TypeOK

\* Every step keeps the invariant.
LEMMA MessagesNext ==
  ASSUME MessagesInv, [Next]_vars
  PROVE  MessagesInv'
<1>1. CASE Step
  <2>1. CASE \E n \in Counts : AddCrlf(n) \/ AddBytesReceived(n)
    BY <2>1, AddCrlfStep, AddBytesReceivedStep
  <2>2. CASE \E play_time, ts \in Times : OnStatus(play_time, ts)
    BY <2>2, OnStatusStep
  <2>3. CASE \E fill \in Fills : SetBuffer(fill) \/ SetOutputBuffer(fill)
    BY <2>3, SetBufferStep
  <2>4. CASE TimePasses
    BY <2>4, IdleStep
  <2>5. CASE SendStat \/ SendBye
    BY <2>5, SendStatStep, SendByeStep
  <2>6. CASE \E reconnect \in BOOLEAN, caps \in Texts : SendHelo(reconnect, caps)
    BY <2>6, SendHeloStep
  <2>7. CASE LyrionReads
    BY <2>7, LyrionReadsStep
  <2>8. CASE Fresh /\ \E f \in ServerFrames : Receive(f)
    BY <2>8, ReceiveStep
  <2>9. CASE \E text \in Texts : ReceiveName(text)
    BY <2>9, ReceiveNameStep
  <2>10. CASE AnswerQuery
    BY <2>10, AnswerQueryStep
  <2> QED
    BY <1>1, <2>1, <2>2, <2>3, <2>4, <2>5, <2>6, <2>7, <2>8, <2>9, <2>10 DEF Step
<1>2. CASE Handled
  BY <1>2, HandledStep
<1>3. CASE UNCHANGED vars
  BY <1>3, IdleStep
<1> QED
  BY <1>1, <1>2, <1>3 DEF Next

\* The invariant holds from the start on.
LEMMA MessagesInvariant ==
  Spec => []MessagesInv
<1>1. Init => MessagesInv
  BY MessagesInit
<1>2. MessagesInv /\ [Next]_vars => MessagesInv'
  BY MessagesNext
<1> QED
  BY <1>1, <1>2, PTL DEF Spec

\* Every field of the StatusData block stays within the width status.rs
\* declares for it, whatever is added, set and cast.
THEOREM MessagesTypeCorrect == Spec => []TypeOK
<1>1. MessagesInv => TypeOK
  BY MessagesInvSuffices
<1> QED
  BY <1>1, MessagesInvariant, PTL

\* Whatever is counted, set and sent, in any order and with any number of
\* messages waiting, Lyrion cuts the bytes where the messages end and reads in
\* every field what was meant: for every width of a byte, text and bound.
THEOREM ServerUnderstandsHolds == Spec => []ServerUnderstands
<1>1. MessagesInv => ServerUnderstands
  BY MessagesInvSuffices
<1> QED
  BY <1>1, MessagesInvariant, PTL

\* A frame of any content and length is parsed to what Lyrion put at the
\* places of its fields, in the player's units: for every set of frames.
THEOREM ParsedAsLaidOutHolds == Spec => []ParsedAsLaidOut
<1>1. MessagesInv => ParsedAsLaidOut
  BY MessagesInvSuffices
<1> QED
  BY <1>1, MessagesInvariant, PTL

\* From<BytesMut> for ServerMessage never splits off more than a frame has:
\* the lengths it checks cover what it reads, for every set of frames.
THEOREM LengthChecksSufficeHolds == Spec => []LengthChecksSuffice
<1>1. MessagesInv => LengthChecksSuffice
  BY MessagesInvSuffices
<1> QED
  BY <1>1, MessagesInvariant, PTL
=============================================================================
