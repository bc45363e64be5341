---------------------------- MODULE PulseOutProofs ----------------------------
(***************************************************************************)
(* Proofs about PulseOut: nothing is left behind, every stream is          *)
(* announced once, and the track that ends is the one that leaves the      *)
(* playing slot, for any number of streams and packets and for every size  *)
(* of a packet, of the prefill and of the server's buffer.                 *)
(*                                                                         *)
(* The first rests on an account of every unit of audio.  For the last the *)
(* invariant follows a stream from the moment it is heard: it is in the    *)
(* playing slot, or closed, or some Drained message has taken it out.      *)
(***************************************************************************)
EXTENDS PulseOut, SequenceTheorems, TLAPS

\* The message or report m is in the sequence q.
Has(q, m) == \E i \in 1 .. Len(q) : q[i] = m

\* m is in q twice.
Twice(q, m) == \E i, j \in 1 .. Len(q) : i # j /\ q[i] = m /\ q[j] = m

\* Some Drained message has taken s out of the playing slot.
TakenOut(s) == \E by \in Ids : <<by, s>> \in shifted

\* The Drained message of s has taken a stream out of the playing slot.
TookOut(s) == \E p \in Ids : <<s, p>> \in shifted

\* A decoder is queued once, for a stream that has been started and is not
\* connected, and nothing has been done yet for a stream that is not.
QueueInv ==
  \A s \in Ids :
    /\ ~Twice(queue, <<"Decoder", s>>)
    /\ Has(queue, <<"Decoder", s>>) => link[s] = "none" /\ s <= current
    /\ s > current => link[s] = "none"
    /\ link[s] = "none" => wstate[s] = "Starting" /\ told[s] = 0

\* The streams in the slots are connected.
SlotsInv == \A s \in {playing, next_up} \ {NoStream} : link[s] = "connected"

\* Every unit the decoder delivers is still to be decoded, decoded, or written.
AccountInv == \A s \in Ids : written[s] + audioBuf[s] + packets[s] * PacketSize = total[s]

\* What has been announced goes with the state of on_write.
StateInv ==
  \A s \in Ids :
    \/ wstate[s] = "Starting" /\ started[s] = 0 /\ ended[s] = 0 /\ told[s] = 0
    \/ wstate[s] = "Running" /\ started[s] = 1 /\ ended[s] = 0 /\ told[s] = 0
    \/ wstate[s] = "Drained" /\ started[s] = 1 /\ ended[s] = 1 /\ audioBuf[s] = 0 /\ packets[s] = 0

\* A stream that is heard, or about to be reported, is the playing one or has
\* been taken out; so is one whose end is queued, unless it was stopped.
HeardInv ==
  \A s \in Ids :
    /\ link[s] = "connected" /\ (~corked[s] \/ Has(posted[s], "underflow")) =>
         playing = s \/ TakenOut(s)
    /\ Has(queue, <<"Drained", s>>) => playing = s \/ link[s] = "closed" \/ TakenOut(s)

\* The Drained messages of a stream, queued or acted on, are counted in told.
ToldInv ==
  \A s \in Ids :
    /\ Has(queue, <<"Drained", s>>) \/ TookOut(s) => told[s] >= 1
    /\ Twice(queue, <<"Drained", s>>) => told[s] > 1
    /\ Has(queue, <<"Drained", s>>) /\ TookOut(s) => told[s] > 1

IInv ==
  /\ TypeOK
  /\ QueueInv /\ SlotsInv /\ AccountInv /\ StateInv
  /\ HeardInv /\ ToldInv /\ RightTrackEnds

-----------------------------------------------------------------------------
(* The arithmetic of fill_raw_buffer                                       *)

\* Multiplication by a natural number is monotonic.
LEMMA TimesMonotonic ==
  ASSUME NEW m \in Nat, NEW n \in Nat, NEW p \in Nat, m <= n
  PROVE  m * p <= n * p /\ (n - m) * p = n * p - m * p /\ m * p \in Nat /\ n * p \in Nat
<1>1. PICK d \in Nat : n = m + d
  BY n - m \in Nat
<1>2. n * p = m * p + d * p /\ d * p \in Nat /\ m * p \in Nat
  BY <1>1
<1> QED
  BY <1>1, <1>2

\* Division rounded up reaches every multiple below the number.
LEMMA DivideUp ==
  ASSUME NEW a \in Nat, NEW p \in Nat \ {0}
  PROVE  /\ (a + p - 1) \div p \in Nat
         /\ \A n \in Nat : n * p < a => n <= (a + p - 1) \div p
<1> DEFINE q == (a + p - 1) \div p
<1>1. q \in Int /\ q * p <= a + p - 1 /\ a + p - 1 < (q + 1) * p
  OBVIOUS
<1>2. q \in Nat
  OBVIOUS
<1> HIDE DEF q
<1>3. ASSUME NEW n \in Nat, n * p < a PROVE n <= q
  <2> SUFFICES ASSUME q + 1 <= n PROVE FALSE
    BY <1>2
  <2>1. (q + 1) * p <= n * p /\ (q + 1) * p \in Nat /\ n * p \in Nat
    BY <1>2, TimesMonotonic
  <2> QED
    BY <1>1, <1>3, <2>1
<1> QED
  BY <1>2, <1>3 DEF q

\* fill_raw_buffer decodes no more than is left, and all of it when it runs out.
LEMMA DecodedFacts ==
  ASSUME NEW s \in Ids, NEW limit \in Nat, audioBuf[s] \in Nat, packets[s] \in Nat
  PROVE  /\ Decoded(s, limit) \in 0 .. packets[s]
         /\ RunsOut(s, limit) => Decoded(s, limit) = packets[s]
         /\ Decoded(s, limit) * PacketSize \in Nat
         /\ (packets[s] - Decoded(s, limit)) * PacketSize =
              packets[s] * PacketSize - Decoded(s, limit) * PacketSize
<1>1. PacketSize \in Nat \ {0}
  BY PulseOutAssumption
<1> DEFINE d == Decoded(s, limit)
<1>2. d \in 0 .. packets[s] /\ (RunsOut(s, limit) => d = packets[s])
  <2>1. CASE audioBuf[s] >= limit
    <3>1. packets[s] * PacketSize \in Nat
      BY <1>1
    <3>2. ~RunsOut(s, limit)
      BY <2>1, <3>1 DEF RunsOut
    <3> QED
      BY <2>1, <3>2 DEF Decoded
  <2>2. CASE ~(audioBuf[s] >= limit)
    <3> DEFINE a == limit - audioBuf[s]
               q == (a + PacketSize - 1) \div PacketSize
    <3>1. a \in Nat
      BY <2>2
    <3>2. d = Smaller(packets[s], q)
      BY <2>2 DEF Decoded
    <3>3. q \in Nat /\ \A n \in Nat : n * PacketSize < a => n <= q
      BY <1>1, <3>1, DivideUp
    <3>4. RunsOut(s, limit) => packets[s] * PacketSize < a
      BY <1>1 DEF RunsOut
    <3> HIDE DEF a, q, d
    <3> QED
      BY <3>2, <3>3, <3>4 DEF Smaller
  <2> QED
    BY <2>1, <2>2
<1> HIDE DEF d
<1>3. d \in Nat /\ d <= packets[s]
  BY <1>2
<1>4. (packets[s] - d) * PacketSize = packets[s] * PacketSize - d * PacketSize /\ d * PacketSize \in Nat
  BY <1>1, <1>3, TimesMonotonic
<1> QED
  BY <1>2, <1>4 DEF d

\* on_write gives no more than is decoded and no more than was asked for, and
\* everything when the decoder runs out.
LEMMA GivenFacts ==
  ASSUME NEW s \in Ids, NEW len \in Nat, audioBuf[s] \in Nat, packets[s] \in Nat
  PROVE  LET there == audioBuf[s] + Decoded(s, len) * PacketSize IN
         /\ Given(s, len) \in Nat /\ Given(s, len) <= len /\ Given(s, len) <= there
         /\ there \in Nat
         /\ RunsOut(s, len) => Given(s, len) = there
<1> DEFINE d == Decoded(s, len) * PacketSize
           there == audioBuf[s] + d
<1>1. d \in Nat /\ (RunsOut(s, len) => d = packets[s] * PacketSize)
  BY DecodedFacts
<1>2. Given(s, len) = IF there <= len THEN there ELSE len
  BY DEF Given, Smaller
<1>3. RunsOut(s, len) => there < len
  BY <1>1 DEF RunsOut
<1> HIDE DEF d
<1> QED
  BY <1>1, <1>2, <1>3 DEF d

-----------------------------------------------------------------------------
(* Queues                                                                  *)

\* A message behind the others in the queue.
LEMMA QueuedHas ==
  ASSUME NEW m \in Messages, queue \in Seq(Messages), queue' = Append(queue, m)
  PROVE  /\ queue' \in Seq(Messages)
         /\ \A x : Has(queue', x) <=> (Has(queue, x) \/ x = m)
         /\ \A x : Twice(queue', x) <=> (Twice(queue, x) \/ (x = m /\ Has(queue, x)))
<1>1. /\ queue' \in Seq(Messages) /\ Len(queue') = Len(queue) + 1 /\ Len(queue) \in Nat
      /\ \A i \in 1 .. Len(queue) : queue'[i] = queue[i]
      /\ queue'[Len(queue) + 1] = m
  BY AppendProperties, LenProperties
<1>2. \A x : Has(queue', x) <=> (Has(queue, x) \/ x = m)
  BY <1>1 DEF Has
<1>3. ASSUME NEW x PROVE Twice(queue', x) <=> (Twice(queue, x) \/ (x = m /\ Has(queue, x)))
  <2>1. ASSUME Twice(queue', x) PROVE Twice(queue, x) \/ (x = m /\ Has(queue, x))
    <3>1. PICK i \in 1 .. Len(queue'), j \in 1 .. Len(queue') : i # j /\ queue'[i] = x /\ queue'[j] = x
      BY <2>1 DEF Twice
    <3> QED
      BY <1>1, <3>1 DEF Twice, Has
  <2>2. ASSUME Twice(queue, x) PROVE Twice(queue', x)
    BY <1>1, <2>2 DEF Twice
  <2>3. ASSUME x = m, Has(queue, x) PROVE Twice(queue', x)
    <3>1. PICK i \in 1 .. Len(queue) : queue[i] = x
      BY <2>3 DEF Has
    <3>2. i \in 1 .. Len(queue') /\ Len(queue) + 1 \in 1 .. Len(queue') /\ i # Len(queue) + 1
      BY <1>1
    <3> QED
      BY <1>1, <2>3, <3>1, <3>2 DEF Twice
  <2> QED
    BY <2>1, <2>2, <2>3
<1> QED
  BY <1>1, <1>2, <1>3

\* The first element is taken.
LEMMA TailHas ==
  ASSUME NEW S, NEW q \in Seq(S), q # << >>, NEW r, r = Tail(q)
  PROVE  /\ r \in Seq(S)
         /\ Has(q, Head(q))
         /\ \A x : Has(r, x) => Has(q, x)
         /\ \A x : Twice(r, x) => Twice(q, x)
         /\ \A x : x = Head(q) /\ Has(r, x) => Twice(q, x)
<1>1. /\ r \in Seq(S) /\ Len(r) = Len(q) - 1 /\ Len(q) \in Nat \ {0}
      /\ \A i \in 1 .. Len(r) : r[i] = q[i + 1]
      /\ Head(q) = q[1]
  BY HeadTailProperties, LenProperties, EmptySeq
<1>2. Has(q, Head(q)) /\ \A x : Has(r, x) => Has(q, x)
  BY <1>1 DEF Has
<1>3. ASSUME NEW x, Twice(r, x) PROVE Twice(q, x)
  <2>1. PICK i \in 1 .. Len(r), j \in 1 .. Len(r) : i # j /\ r[i] = x /\ r[j] = x
    BY <1>3 DEF Twice
  <2>2. i + 1 \in 1 .. Len(q) /\ j + 1 \in 1 .. Len(q) /\ i + 1 # j + 1 /\ q[i + 1] = x /\ q[j + 1] = x
    BY <1>1, <2>1
  <2> QED
    BY <2>2 DEF Twice
<1>4. ASSUME NEW x, x = Head(q), Has(r, x) PROVE Twice(q, x)
  <2>1. PICK i \in 1 .. Len(r) : r[i] = x
    BY <1>4 DEF Has
  <2>2. i + 1 \in 1 .. Len(q) /\ 1 \in 1 .. Len(q) /\ i + 1 # 1 /\ q[i + 1] = x /\ q[1] = x
    BY <1>1, <1>4, <2>1
  <2> QED
    BY <2>2 DEF Twice
<1> QED
  BY <1>1, <1>2, <1>3, <1>4

\* Empty and one-element sequences.
LEMMA ShortHas ==
  /\ \A S : << >> \in Seq(S)
  /\ \A x : ~Has(<< >>, x) /\ ~Twice(<< >>, x)
  /\ <<"request">> \in Seq({"request", "underflow"})
  /\ ~Has(<<"request">>, "underflow")
<1>1. \A x : ~Has(<< >>, x) /\ ~Twice(<< >>, x)
  BY DEF Has, Twice
<1>2. ~Has(<<"request">>, "underflow")
  BY DEF Has
<1> QED
  BY <1>1, <1>2

\* A number that some stream has is not NoStream.
LEMMA IdsFacts == NoStream \notin Ids /\ \A s \in Ids : s \in Nat
BY PulseOutAssumption DEF Ids, NoStream

-----------------------------------------------------------------------------
(* The invariant holds at first                                            *)

\* No stream has been started; all audio is still to be decoded.
LEMMA InitIInv == Init => IInv
<1> SUFFICES ASSUME Init PROVE IInv
  OBVIOUS
<1>1. \A s \in Ids : packets[s] \in Nat /\ packets[s] * PacketSize \in Nat
  BY PulseOutAssumption DEF Init
<1>2. TypeOK
  <2>1. total \in [Ids -> Nat]
    BY <1>1 DEF Init
  <2>2. level \in [Ids -> 0 .. PulseBuffer] /\ current \in 0 .. Streams
    BY PulseOutAssumption DEF Init
  <2>3. posted \in [Ids -> Seq({"request", "underflow"})] /\ queue \in Seq(Messages)
    BY ShortHas DEF Init
  <2> QED
    BY <2>1, <2>2, <2>3 DEF Init, TypeOK
<1>3. QueueInv
  BY ShortHas DEF Init, QueueInv
<1>4. AccountInv
  BY <1>1 DEF Init, AccountInv
<1>5. SlotsInv /\ StateInv /\ HeardInv /\ ToldInv /\ RightTrackEnds
  BY ShortHas DEF Init, SlotsInv, StateInv, HeardInv, ToldInv, RightTrackEnds, TookOut
<1> QED
  BY <1>2, <1>3, <1>4, <1>5 DEF IInv

-----------------------------------------------------------------------------
(* What most steps leave alone                                             *)

\* A stop is for good and nothing told is taken back.
LEMMA RightStable ==
  ASSUME IInv, UNCHANGED shifted,
         \A s \in Ids : link[s] = "closed" => link'[s] = "closed",
         \A s \in Ids : told'[s] >= told[s] /\ told'[s] \in Nat
  PROVE  RightTrackEnds'
<1>1. /\ shifted \subseteq Ids \X Ids /\ told \in [Ids -> Nat]
      /\ \A pair \in shifted : pair[1] \in Ids
  BY DEF IInv, TypeOK
<1>2. ASSUME NEW pair \in shifted
      PROVE  \/ pair[1] = pair[2] \/ link'[pair[1]] = "closed" \/ told'[pair[1]] > 1
             \/ \E by \in Ids \ {pair[1]} : <<by, pair[1]>> \in shifted
  <2>1. pair[1] \in Ids /\ told[pair[1]] \in Nat
    BY <1>1
  <2>2. told[pair[1]] > 1 => told'[pair[1]] > 1
    BY <2>1
  <2>3. link[pair[1]] = "closed" => link'[pair[1]] = "closed"
    BY <2>1
  <2> QED
    BY <2>2, <2>3 DEF IInv, RightTrackEnds
<1> QED
  BY <1>2 DEF RightTrackEnds

\* The account, the announcements and the queue are about variables that pause,
\* unpause, stop and the server do not touch.
LEMMA SameBuffers ==
  ASSUME IInv, UNCHANGED <<packets, audioBuf, wstate, written, total, started, ended, told>>
  PROVE  AccountInv' /\ StateInv'
BY DEF IInv, AccountInv, StateInv

\* Nor do they touch what the messages and the count of them are about.
LEMMA SameQueue ==
  ASSUME IInv, UNCHANGED <<queue, told, shifted>>
  PROVE  ToldInv'
BY DEF IInv, ToldInv, TookOut

-----------------------------------------------------------------------------
(* The main thread                                                         *)

\* A decoder is queued behind the rest.
LEMMA StartStreamStep ==
  ASSUME IInv, StartStream
  PROVE  IInv'
<1> DEFINE n == current + 1
           m == <<"Decoder", n>>
<1>1. current < Streams /\ current' = n /\ queue' = Append(queue, m)
  BY DEF StartStream
<1>2. UNCHANGED <<packets, ends, audioBuf, wstate, link, corked, level, dry, posted,
                  playing, next_up, written, total, started, ended, told, shifted>>
  BY DEF StartStream, buffers, pulse, slots, history
<1>3. n \in Ids /\ current \in Nat /\ n > current
  BY <1>1, PulseOutAssumption DEF IInv, TypeOK, Ids
<1>4. m \in Messages /\ queue \in Seq(Messages)
  BY <1>3 DEF IInv, TypeOK, Messages
<1>4a. \A s : <<"Drained", s>> # m /\ ((<<"Decoder", s>> = m) <=> (s = n))
  OBVIOUS
<1>5. /\ queue' \in Seq(Messages)
      /\ \A x : Has(queue', x) <=> (Has(queue, x) \/ x = m)
      /\ \A x : Twice(queue', x) <=> (Twice(queue, x) \/ (x = m /\ Has(queue, x)))
  <2>1. queue' = Append(queue, m)
    BY <1>1
  <2> HIDE DEF m
  <2> QED
    BY ONLY <1>4, <2>1, QueuedHas
<1> HIDE DEF m
<1>6. TypeOK'
  <2>1. current' \in 0 .. Streams
    BY <1>1, <1>3, PulseOutAssumption
  <2> QED
    BY <1>2, <1>5, <2>1 DEF IInv, TypeOK
<1>7. QueueInv'
  <2> SUFFICES ASSUME NEW s \in Ids
               PROVE  /\ ~Twice(queue', <<"Decoder", s>>)
                      /\ Has(queue', <<"Decoder", s>>) => link'[s] = "none" /\ s <= current'
                      /\ s > current' => link'[s] = "none"
                      /\ link'[s] = "none" => wstate'[s] = "Starting" /\ told'[s] = 0
    BY DEF QueueInv
  <2>1. (<<"Decoder", s>> = m) <=> (s = n)
    BY <1>4a
  <2>2. s \in Nat /\ n \in Nat
    BY <1>3, IdsFacts
  <2>3. /\ ~Twice(queue, <<"Decoder", s>>)
        /\ Has(queue, <<"Decoder", s>>) => link[s] = "none" /\ s <= current
        /\ s > current => link[s] = "none"
        /\ link[s] = "none" => wstate[s] = "Starting" /\ told[s] = 0
    BY DEF IInv, QueueInv
  <2>4. Has(queue, <<"Decoder", s>>) => s # n
    BY <1>3, <2>2, <2>3
  <2>5. ~Twice(queue', <<"Decoder", s>>)
    BY <1>5, <2>1, <2>3, <2>4
  <2>6. Has(queue', <<"Decoder", s>>) => link'[s] = "none" /\ s <= current'
    BY <1>1, <1>2, <1>3, <1>5, <2>1, <2>2, <2>3
  <2> QED
    BY <1>1, <1>2, <1>3, <2>2, <2>3, <2>5, <2>6
<1>8. \A s : <<"Drained", s>> # m
  BY <1>4a
<1>9. HeardInv'
  BY <1>2, <1>5, <1>8 DEF IInv, HeardInv, TakenOut
<1>10. ToldInv'
  BY <1>2, <1>5, <1>8 DEF IInv, ToldInv, TookOut
<1>11. AccountInv' /\ StateInv'
  BY <1>2, SameBuffers
<1>12. RightTrackEnds' /\ SlotsInv'
  BY <1>2 DEF IInv, RightTrackEnds, SlotsInv
<1> QED
  BY <1>6, <1>7, <1>9, <1>10, <1>11, <1>12 DEF IInv

\* Only the playing stream is corked or uncorked.
LEMMA SetCorkStep ==
  ASSUME IInv, NEW flag \in BOOLEAN, SetCork(flag)
  PROVE  IInv'
<1>1. playing # NoStream /\ corked' = [corked EXCEPT ![playing] = flag]
  BY DEF SetCork
<1>2. UNCHANGED <<packets, ends, audioBuf, wstate, link, level, dry, posted, playing, next_up,
                  current, queue, written, total, started, ended, told, shifted>>
  BY DEF SetCork, buffers, slots, history
<1>3. corked \in [Ids -> BOOLEAN] /\ playing \in Ids
  BY <1>1 DEF IInv, TypeOK
<1>4. corked' \in [Ids -> BOOLEAN] /\ \A s \in Ids : s # playing => corked'[s] = corked[s]
  BY <1>1, <1>3
<1>5. TypeOK'
  BY <1>2, <1>4 DEF IInv, TypeOK
<1>6. QueueInv' /\ SlotsInv' /\ RightTrackEnds'
  BY <1>2 DEF IInv, QueueInv, SlotsInv, RightTrackEnds
<1>7. HeardInv'
  BY <1>2, <1>4 DEF IInv, HeardInv, TakenOut
<1>8. AccountInv' /\ StateInv' /\ ToldInv'
  BY <1>2, SameBuffers, SameQueue
<1> QED
  BY <1>5, <1>6, <1>7, <1>8 DEF IInv

\* The playing stream is closed; the next one, never heard, is forgotten.
LEMMA StopStep ==
  ASSUME IInv, Stop
  PROVE  IInv'
<1>1. /\ playing # NoStream /\ link' = [link EXCEPT ![playing] = "closed"]
      /\ playing' = NoStream /\ next_up' = NoStream
  BY DEF Stop
<1>2. UNCHANGED <<packets, ends, audioBuf, wstate, corked, level, dry, posted,
                  current, queue, written, total, started, ended, told, shifted>>
  BY DEF Stop, buffers, history
<1>3. /\ link \in [Ids -> {"none", "connected", "closed"}] /\ playing \in Ids
      /\ told \in [Ids -> Nat]
  BY <1>1 DEF IInv, TypeOK
<1>4. /\ link' \in [Ids -> {"none", "connected", "closed"}]
      /\ \A s \in Ids : link'[s] = IF s = playing THEN "closed" ELSE link[s]
  BY <1>1, <1>3
<1>5. TypeOK'
  BY <1>1, <1>2, <1>4 DEF IInv, TypeOK
<1>6. link[playing] = "connected"
  BY <1>1 DEF IInv, SlotsInv
<1>7. QueueInv'
  BY <1>2, <1>4, <1>6 DEF IInv, QueueInv
<1>8. HeardInv'
  BY <1>1, <1>2, <1>4 DEF IInv, HeardInv, TakenOut
<1>9. RightTrackEnds'
  BY <1>2, <1>3, <1>4, RightStable
<1>10. AccountInv' /\ StateInv' /\ ToldInv'
  BY <1>2, SameBuffers, SameQueue
<1>11. SlotsInv'
  BY <1>1 DEF SlotsInv
<1> QED
  BY <1>5, <1>7, <1>8, <1>9, <1>10, <1>11 DEF IInv

\* A Drained message takes the playing stream out, whoever's it is.
LEMMA OnDrainedStep ==
  ASSUME IInv, NEW s \in Ids, OnDrained(s)
  PROVE  IInv'
<1> DEFINE m == <<"Drained", s>>
<1>1. /\ queue # << >> /\ Head(queue) = m /\ queue' = Tail(queue)
      /\ shifted' = IF playing = NoStream THEN shifted ELSE shifted \cup {<<s, playing>>}
      /\ playing' = next_up /\ next_up' = NoStream
      /\ corked' = IF next_up = NoStream THEN corked ELSE [corked EXCEPT ![next_up] = FALSE]
  BY DEF OnDrained
<1>2. UNCHANGED <<packets, ends, audioBuf, wstate, link, level, dry, posted,
                  current, written, total, started, ended, told>>
  BY DEF OnDrained, buffers
<1>3. /\ queue \in Seq(Messages) /\ corked \in [Ids -> BOOLEAN] /\ told \in [Ids -> Nat]
      /\ playing \in {NoStream} \cup Ids /\ next_up \in {NoStream} \cup Ids
      /\ shifted \subseteq Ids \X Ids
  BY DEF IInv, TypeOK
<1>4. /\ queue' \in Seq(Messages) /\ Has(queue, m)
      /\ \A x : Has(queue', x) => Has(queue, x)
      /\ \A x : Twice(queue', x) => Twice(queue, x)
      /\ Has(queue', m) => Twice(queue, m)
  BY <1>1, <1>3, TailHas
<1>5. /\ corked' \in [Ids -> BOOLEAN]
      /\ \A r \in Ids : r # next_up => corked'[r] = corked[r]
  BY <1>1, <1>3, IdsFacts
<1>6. /\ shifted' \subseteq Ids \X Ids /\ shifted \subseteq shifted'
      /\ playing \in Ids => <<s, playing>> \in shifted'
      /\ \A x \in shifted' : x \in shifted \/ (playing \in Ids /\ x = <<s, playing>>)
  BY <1>1, <1>3, IdsFacts
<1>7. TypeOK'
  BY <1>1, <1>2, <1>3, <1>4, <1>5, <1>6 DEF IInv, TypeOK
<1>8. QueueInv'
  BY <1>2, <1>4 DEF IInv, QueueInv
<1>9. SlotsInv'
  BY <1>1, <1>2 DEF IInv, SlotsInv
<1>10. /\ \A r \in Ids : TakenOut(r) => TakenOut(r)'
       /\ playing \in Ids => TakenOut(playing) \/ \E by \in Ids : <<by, playing>> \in shifted'
  BY <1>6 DEF TakenOut
<1>11. \A r \in Ids : TookOut(r)' => TookOut(r) \/ r = s
  BY <1>6 DEF TookOut
<1>12. HeardInv'
  <2>1. ASSUME NEW r \in Ids, playing = r \/ TakenOut(r) PROVE playing' = r \/ TakenOut(r)'
    BY <1>6, <1>10, <2>1 DEF TakenOut
  <2>2. ASSUME NEW r \in Ids, link[r] = "connected", ~corked'[r] \/ Has(posted[r], "underflow")
        PROVE  playing' = r \/ TakenOut(r)'
    <3>1. CASE r = next_up
      BY <1>1, <3>1
    <3>2. CASE r # next_up
      <4>1. playing = r \/ TakenOut(r)
        BY <1>5, <2>2, <3>2 DEF IInv, HeardInv
      <4> QED
        BY <2>1, <4>1
    <3> QED
      BY <3>1, <3>2
  <2>3. ASSUME NEW r \in Ids, Has(queue', <<"Drained", r>>)
        PROVE  playing' = r \/ link[r] = "closed" \/ TakenOut(r)'
    <3>1. playing = r \/ link[r] = "closed" \/ TakenOut(r)
      BY <1>4, <2>3 DEF IInv, HeardInv
    <3> QED
      BY <2>1, <3>1
  <2> QED
    BY <1>2, <2>2, <2>3 DEF HeardInv
<1>13. ToldInv'
  <2>1. told[s] >= 1
    BY <1>4 DEF IInv, ToldInv
  <2>2. Has(queue', m) => told[s] > 1
    BY <1>4 DEF IInv, ToldInv
  <2> SUFFICES ASSUME NEW r \in Ids
               PROVE  /\ Has(queue', <<"Drained", r>>) \/ TookOut(r)' => told'[r] >= 1
                      /\ Twice(queue', <<"Drained", r>>) => told'[r] > 1
                      /\ Has(queue', <<"Drained", r>>) /\ TookOut(r)' => told'[r] > 1
    BY DEF ToldInv
  <2>3. CASE r = s
    BY <1>2, <1>4, <2>1, <2>2, <2>3 DEF IInv, ToldInv
  <2>4. CASE r # s
    BY <1>2, <1>4, <1>11, <2>4 DEF IInv, ToldInv
  <2> QED
    BY <2>3, <2>4
<1>14. RightTrackEnds'
  <2> SUFFICES ASSUME NEW pair \in shifted'
               PROVE  \/ pair[1] = pair[2] \/ link[pair[1]] = "closed" \/ told[pair[1]] > 1
                      \/ \E by \in Ids \ {pair[1]} : <<by, pair[1]>> \in shifted'
    BY <1>2 DEF RightTrackEnds
  <2>1. CASE pair \in shifted
    <3>1. \/ pair[1] = pair[2] \/ link[pair[1]] = "closed" \/ told[pair[1]] > 1
          \/ \E by \in Ids \ {pair[1]} : <<by, pair[1]>> \in shifted
      BY <2>1 DEF IInv, RightTrackEnds
    <3> QED
      BY <1>6, <3>1
  <2>2. CASE playing \in Ids /\ pair = <<s, playing>>
    <3> SUFFICES ASSUME playing # s, link[s] # "closed"
                 PROVE  told[s] > 1 \/ \E by \in Ids \ {s} : <<by, s>> \in shifted'
      BY <2>2
    <3>1. PICK by \in Ids : <<by, s>> \in shifted
      BY <1>4 DEF IInv, HeardInv, TakenOut
    <3>2. CASE by = s
      <4>1. TookOut(s)
        BY <3>1, <3>2 DEF TookOut
      <4> QED
        BY <1>4, <4>1 DEF IInv, ToldInv
    <3>3. CASE by # s
      BY <1>6, <3>1, <3>3
    <3> QED
      BY <3>2, <3>3
  <2> QED
    BY <1>6, <2>1, <2>2
<1>15. AccountInv' /\ StateInv'
  BY <1>2, SameBuffers
<1> QED
  BY <1>7, <1>8, <1>9, <1>12, <1>13, <1>14, <1>15 DEF IInv

\* A new stream: prefilled, connected and corked, or started in the empty slot.
LEMMA OnDecoderStep ==
  ASSUME IInv, NEW s \in Ids, NEW autostart \in BOOLEAN, OnDecoder(s, autostart)
  PROVE  IInv'
<1> DEFINE m == <<"Decoder", s>>
           d == Decoded(s, Prefill)
<1>1. /\ queue # << >> /\ Head(queue) = m /\ queue' = Tail(queue)
      /\ audioBuf' = [audioBuf EXCEPT ![s] = audioBuf[s] + d * PacketSize]
      /\ packets' = [packets EXCEPT ![s] = packets[s] - d]
  BY DEF OnDecoder
<1>2. UNCHANGED <<ends, wstate, level, dry, current, written, total, started, ended, told, shifted>>
  BY DEF OnDecoder, history
<1>3. \/ UNCHANGED <<link, corked, posted, playing, next_up>>
      \/ /\ link' = [link EXCEPT ![s] = "connected"]
         /\ posted' = [posted EXCEPT ![s] = <<"request">>]
         /\ corked' = [corked EXCEPT ![s] = ~(playing = NoStream /\ autostart)]
         /\ playing' = IF playing = NoStream THEN s ELSE playing
         /\ next_up' = IF playing = NoStream THEN next_up ELSE s
  BY DEF OnDecoder, slots
<1>4. /\ queue \in Seq(Messages) /\ corked \in [Ids -> BOOLEAN] /\ told \in [Ids -> Nat]
      /\ audioBuf \in [Ids -> Nat] /\ packets \in [Ids -> 0 .. MaxPackets] /\ MaxPackets \in Nat
      /\ link \in [Ids -> {"none", "connected", "closed"}]
      /\ posted \in [Ids -> Seq({"request", "underflow"})]
      /\ playing \in {NoStream} \cup Ids /\ next_up \in {NoStream} \cup Ids
      /\ written \in [Ids -> Nat] /\ total \in [Ids -> Nat]
      /\ Prefill \in Nat /\ PacketSize \in Nat
  BY PulseOutAssumption DEF IInv, TypeOK
<1>5. /\ queue' \in Seq(Messages) /\ Has(queue, m)
      /\ \A x : Has(queue', x) => Has(queue, x)
      /\ \A x : Twice(queue', x) => Twice(queue, x)
      /\ Has(queue', m) => Twice(queue, m)
  BY <1>1, <1>4, TailHas
<1>6. audioBuf[s] \in Nat /\ packets[s] \in Nat
  BY <1>4
<1>7. /\ d \in 0 .. packets[s] /\ d * PacketSize \in Nat
      /\ (packets[s] - d) * PacketSize = packets[s] * PacketSize - d * PacketSize
  BY <1>4, <1>6, DecodedFacts
<1> HIDE DEF d
<1>8. /\ audioBuf' \in [Ids -> Nat] /\ packets' \in [Ids -> 0 .. MaxPackets]
      /\ \A r \in Ids : r # s => audioBuf'[r] = audioBuf[r] /\ packets'[r] = packets[r]
      /\ audioBuf'[s] = audioBuf[s] + d * PacketSize /\ packets'[s] = packets[s] - d
  <2>1. audioBuf[s] + d * PacketSize \in Nat
    BY <1>6, <1>7
  <2>2. packets[s] - d \in 0 .. MaxPackets
    BY <1>4, <1>7
  <2> QED
    BY <1>1, <1>4, <2>1, <2>2
<1>9. /\ link[s] = "none" /\ s <= current /\ wstate[s] = "Starting" /\ told[s] = 0
      /\ ~Has(queue', m) /\ ~Has(queue, <<"Drained", s>>)
  <2>1. link[s] = "none" /\ s <= current /\ wstate[s] = "Starting" /\ told[s] = 0 /\ ~Twice(queue, m)
    BY <1>5 DEF IInv, QueueInv
  <2>2. ~Has(queue, <<"Drained", s>>)
    BY <2>1 DEF IInv, ToldInv
  <2> QED
    BY <1>5, <2>1, <2>2
<1>10. AccountInv'
  <2>1. ASSUME NEW r \in Ids PROVE written'[r] + audioBuf'[r] + packets'[r] * PacketSize = total'[r]
    <3>1. written[r] + audioBuf[r] + packets[r] * PacketSize = total[r]
      BY DEF IInv, AccountInv
    <3>2. CASE r = s
      <4>1. packets[s] * PacketSize \in Nat /\ written[s] \in Nat /\ total[s] \in Nat
        BY <1>4, <1>6, SMTT(30)
      <4>2. packets'[s] * PacketSize = packets[s] * PacketSize - d * PacketSize
        BY <1>7, <1>8
      <4> QED
        BY <1>2, <1>6, <1>7, <1>8, <3>1, <3>2, <4>1, <4>2
    <3>3. CASE r # s
      BY <1>2, <1>8, <3>1, <3>3
    <3> QED
      BY <3>2, <3>3
  <2> QED
    BY <2>1 DEF AccountInv
<1>11. StateInv'
  BY <1>2, <1>8, <1>9 DEF IInv, StateInv
<1>12. /\ link' \in [Ids -> {"none", "connected", "closed"}]
       /\ posted' \in [Ids -> Seq({"request", "underflow"})] /\ corked' \in [Ids -> BOOLEAN]
       /\ playing' \in {NoStream} \cup Ids /\ next_up' \in {NoStream} \cup Ids
       /\ \A r \in Ids : r # s => link'[r] = link[r] /\ corked'[r] = corked[r] /\ posted'[r] = posted[r]
  BY <1>3, <1>4, ShortHas, ZenonT(40)
<1>13. TypeOK'
  BY <1>2, <1>5, <1>8, <1>12 DEF IInv, TypeOK
<1>14. QueueInv'
  <2>1. \A r \in Ids : (<<"Decoder", r>> = m) <=> (r = s)
    OBVIOUS
  <2>2. ~(s > current)
    BY <1>9, <1>4, IdsFacts, SMTT(30) DEF IInv, TypeOK
  <2>3. ASSUME NEW r \in Ids
        PROVE  /\ ~Twice(queue', <<"Decoder", r>>)
               /\ Has(queue', <<"Decoder", r>>) => link'[r] = "none" /\ r <= current'
               /\ r > current' => link'[r] = "none"
               /\ link'[r] = "none" => wstate'[r] = "Starting" /\ told'[r] = 0
    <3>1. /\ ~Twice(queue, <<"Decoder", r>>)
          /\ Has(queue, <<"Decoder", r>>) => link[r] = "none" /\ r <= current
          /\ r > current => link[r] = "none"
          /\ link[r] = "none" => wstate[r] = "Starting" /\ told[r] = 0
      BY DEF IInv, QueueInv
    <3>2. CASE r = s
      BY <1>2, <1>5, <1>9, <2>1, <2>2, <3>1, <3>2
    <3>3. CASE r # s
      BY <1>2, <1>5, <1>12, <3>1, <3>3
    <3> QED
      BY <3>2, <3>3
  <2> QED
    BY <2>3 DEF QueueInv
<1>15. ToldInv'
  BY <1>2, <1>5 DEF IInv, ToldInv, TookOut
<1>16. RightTrackEnds'
  BY <1>2, <1>4, <1>9, <1>12, RightStable
<1>17. CASE UNCHANGED <<link, corked, posted, playing, next_up>>
  <2>1. HeardInv' /\ SlotsInv'
    BY <1>2, <1>5, <1>17 DEF IInv, HeardInv, TakenOut, SlotsInv
  <2> QED
    BY <1>10, <1>11, <1>13, <1>14, <1>15, <1>16, <2>1 DEF IInv
<1>18. CASE /\ link' = [link EXCEPT ![s] = "connected"]
            /\ posted' = [posted EXCEPT ![s] = <<"request">>]
            /\ corked' = [corked EXCEPT ![s] = ~(playing = NoStream /\ autostart)]
            /\ playing' = IF playing = NoStream THEN s ELSE playing
            /\ next_up' = IF playing = NoStream THEN next_up ELSE s
  <2>1. link'[s] = "connected" /\ posted'[s] = <<"request">> /\ (~corked'[s] => playing' = s)
    BY <1>4, <1>18
  <2>2. SlotsInv'
    BY <1>4, <1>12, <1>18, <2>1 DEF IInv, SlotsInv
  <2>3. HeardInv'
    <3>1. \A r \in Ids : (playing = r => playing' = r) /\ (TakenOut(r) => TakenOut(r)')
      BY <1>2, <1>18, IdsFacts DEF TakenOut
    <3>2. ~Has(posted'[s], "underflow")
      BY <2>1, ShortHas
    <3>3. ASSUME NEW r \in Ids
          PROVE  /\ link'[r] = "connected" /\ (~corked'[r] \/ Has(posted'[r], "underflow")) =>
                      playing' = r \/ TakenOut(r)'
                 /\ Has(queue', <<"Drained", r>>) => playing' = r \/ link'[r] = "closed" \/ TakenOut(r)'
      <4>1. CASE r = s
        BY <1>5, <1>9, <2>1, <3>2, <4>1
      <4>2. CASE r # s
        BY <1>5, <1>12, <3>1, <4>2 DEF IInv, HeardInv
      <4> QED
        BY <4>1, <4>2
    <3> QED
      BY <3>3 DEF HeardInv
  <2> QED
    BY <1>10, <1>11, <1>13, <1>14, <1>15, <1>16, <2>2, <2>3 DEF IInv
<1> QED
  BY <1>3, <1>17, <1>18

-----------------------------------------------------------------------------
(* The callbacks                                                           *)

\* on_write.  Once the decoder runs out all that is left is written, so the
\* stream never rests in Draining.
LEMMA OnWriteStep ==
  ASSUME IInv, NEW s \in Ids, OnWrite(s)
  PROVE  IInv'
<1> DEFINE len  == PulseBuffer - level[s]
           live == wstate[s] # "Drained"
           n    == IF live THEN Given(s, len) ELSE 0
           more == IF live THEN Decoded(s, len) ELSE 0
           eod  == live /\ RunsOut(s, len)
<1>1. /\ audioBuf \in [Ids -> Nat] /\ packets \in [Ids -> 0 .. MaxPackets] /\ MaxPackets \in Nat
      /\ level \in [Ids -> 0 .. PulseBuffer] /\ dry \in [Ids -> BOOLEAN]
      /\ wstate \in [Ids -> {"Starting", "Running", "Draining", "Drained"}]
      /\ posted \in [Ids -> Seq({"request", "underflow"})]
      /\ written \in [Ids -> Nat] /\ total \in [Ids -> Nat]
      /\ started \in [Ids -> Nat] /\ ended \in [Ids -> Nat]
      /\ PulseBuffer \in Nat /\ PacketSize \in Nat
  BY PulseOutAssumption DEF IInv, TypeOK
<1>2. wstate[s] # "Draining"
  BY DEF IInv, StateInv
<1>3. /\ link[s] = "connected" /\ posted[s] # << >> /\ Head(posted[s]) = "request"
      /\ posted' = [posted EXCEPT ![s] = Tail(posted[s])]
      /\ audioBuf' = [audioBuf EXCEPT ![s] = audioBuf[s] + more * PacketSize - n]
      /\ packets' = [packets EXCEPT ![s] = packets[s] - more]
      /\ level' = [level EXCEPT ![s] = level[s] + n]
      /\ dry' = [dry EXCEPT ![s] = dry[s] /\ level[s] + n < Prebuf]
      /\ written' = [written EXCEPT ![s] = written[s] + n]
      /\ started' = [started EXCEPT ![s] = IF wstate[s] = "Starting" THEN started[s] + 1 ELSE started[s]]
      /\ ended' = [ended EXCEPT ![s] = IF eod THEN ended[s] + 1 ELSE ended[s]]
  BY <1>2 DEF OnWrite, Finished
<1>4. wstate' = [wstate EXCEPT ![s] = IF ~live THEN wstate[s] ELSE IF ~eod THEN "Running"
                                      ELSE IF audioBuf'[s] = 0 THEN "Drained" ELSE "Draining"]
  BY <1>2 DEF OnWrite, Finished
<1>5. UNCHANGED <<ends, link, corked, playing, next_up, current, queue, total, told, shifted>>
  BY DEF OnWrite, slots
<1>6. /\ audioBuf[s] \in Nat /\ packets[s] \in Nat /\ packets[s] <= MaxPackets
      /\ level[s] \in Nat /\ level[s] <= PulseBuffer /\ len \in Nat
      /\ packets[s] * PacketSize \in Nat /\ written[s] \in Nat /\ total[s] \in Nat
  <2>1. packets[s] \in 0 .. MaxPackets /\ level[s] \in 0 .. PulseBuffer
    BY <1>1
  <2> QED
    BY <1>1, <2>1, SMTT(30)
<1>7. /\ more \in 0 .. packets[s] /\ more * PacketSize \in Nat
      /\ (packets[s] - more) * PacketSize = packets[s] * PacketSize - more * PacketSize
      /\ eod => more = packets[s]
  <2>1. CASE live
    <3>1. /\ Decoded(s, len) \in 0 .. packets[s] /\ Decoded(s, len) * PacketSize \in Nat
          /\ (packets[s] - Decoded(s, len)) * PacketSize =
               packets[s] * PacketSize - Decoded(s, len) * PacketSize
          /\ RunsOut(s, len) => Decoded(s, len) = packets[s]
      BY <1>6, DecodedFacts
    <3> QED
      BY <2>1, <3>1
  <2>2. CASE ~live
    BY <1>1, <1>6, <2>2
  <2> QED
    BY <2>1, <2>2
<1>8. /\ n \in Nat /\ n <= len /\ n <= audioBuf[s] + more * PacketSize
      /\ eod => n = audioBuf[s] + more * PacketSize
  <2>1. CASE live
    <3>1. /\ Given(s, len) \in Nat /\ Given(s, len) <= len
          /\ Given(s, len) <= audioBuf[s] + Decoded(s, len) * PacketSize
          /\ RunsOut(s, len) => Given(s, len) = audioBuf[s] + Decoded(s, len) * PacketSize
      BY <1>6, GivenFacts
    <3> QED
      BY <2>1, <3>1
  <2>2. CASE ~live
    BY <1>1, <1>6, <2>2
  <2> QED
    BY <2>1, <2>2
<1>9. ~live => n = 0 /\ more = 0 /\ ~eod
  OBVIOUS
<1>10. eod \in BOOLEAN /\ live = (wstate[s] # "Drained")
  BY DEF RunsOut
<1> HIDE DEF n, more, eod, live
<1>11. /\ audioBuf[s] + more * PacketSize - n \in Nat
       /\ packets[s] - more \in 0 .. MaxPackets
       /\ level[s] + n \in 0 .. PulseBuffer
       /\ written[s] + n \in Nat
  <2>1. audioBuf[s] + more * PacketSize - n \in Nat
    BY <1>6, <1>7, <1>8
  <2>2. packets[s] - more \in 0 .. MaxPackets
    <3>1. packets[s] \in 0 .. MaxPackets
      BY <1>1
    <3>2. more \in 0 .. packets[s]
      BY <1>7
    <3> QED
      BY ONLY <3>1, <3>2, PulseOutAssumption
  <2>3. level[s] + n \in 0 .. PulseBuffer
    BY <1>1, <1>6, <1>8, SMTT(30)
  <2> QED
    BY <1>6, <1>8, <2>1, <2>2, <2>3
<1> HIDE DEF len
<1>12. /\ audioBuf' \in [Ids -> Nat] /\ packets' \in [Ids -> 0 .. MaxPackets]
       /\ level' \in [Ids -> 0 .. PulseBuffer] /\ written' \in [Ids -> Nat]
       /\ audioBuf'[s] = audioBuf[s] + more * PacketSize - n
       /\ packets'[s] = packets[s] - more /\ written'[s] = written[s] + n
       /\ \A r \in Ids : r # s => /\ audioBuf'[r] = audioBuf[r] /\ packets'[r] = packets[r]
                                  /\ written'[r] = written[r]
  BY <1>1, <1>3, <1>11
<1>13. /\ posted' \in [Ids -> Seq({"request", "underflow"})]
       /\ \A r \in Ids : Has(posted'[r], "underflow") => Has(posted[r], "underflow")
  <2>1. /\ Tail(posted[s]) \in Seq({"request", "underflow"})
        /\ Has(Tail(posted[s]), "underflow") => Has(posted[s], "underflow")
    BY <1>1, <1>3, TailHas
  <2> QED
    BY <1>1, <1>3, <2>1
<1>14. /\ dry' \in [Ids -> BOOLEAN] /\ started' \in [Ids -> Nat] /\ ended' \in [Ids -> Nat]
       /\ \A r \in Ids : r # s => started'[r] = started[r] /\ ended'[r] = ended[r]
       /\ started'[s] = IF wstate[s] = "Starting" THEN started[s] + 1 ELSE started[s]
       /\ ended'[s] = IF eod THEN ended[s] + 1 ELSE ended[s]
  <2>1. dry' \in [Ids -> BOOLEAN]
    BY <1>1, <1>3
  <2>2. /\ started' \in [Ids -> Nat] /\ \A r \in Ids : r # s => started'[r] = started[r]
        /\ started'[s] = IF wstate[s] = "Starting" THEN started[s] + 1 ELSE started[s]
    BY <1>1, <1>3, SMTT(30)
  <2>3. /\ ended' \in [Ids -> Nat] /\ \A r \in Ids : r # s => ended'[r] = ended[r]
        /\ ended'[s] = IF eod THEN ended[s] + 1 ELSE ended[s]
    BY <1>1, <1>3, SMTT(30)
  <2> QED
    BY <2>1, <2>2, <2>3
<1>15. eod => audioBuf'[s] = 0 /\ packets'[s] = 0
  BY <1>6, <1>7, <1>8, <1>12
<1>16. /\ wstate' \in [Ids -> {"Starting", "Running", "Draining", "Drained"}]
       /\ \A r \in Ids : r # s => wstate'[r] = wstate[r]
       /\ wstate'[s] = IF ~live THEN "Drained" ELSE IF ~eod THEN "Running" ELSE "Drained"
  BY <1>1, <1>4, <1>10, <1>15
<1>17. TypeOK'
  BY <1>5, <1>12, <1>13, <1>14, <1>16 DEF IInv, TypeOK
<1>18. AccountInv'
  <2>1. ASSUME NEW r \in Ids PROVE written'[r] + audioBuf'[r] + packets'[r] * PacketSize = total'[r]
    <3>1. written[r] + audioBuf[r] + packets[r] * PacketSize = total[r]
      BY DEF IInv, AccountInv
    <3>2. CASE r = s
      <4>1. packets'[s] * PacketSize = packets[s] * PacketSize - more * PacketSize
        BY <1>7, <1>12
      <4> QED
        BY <1>5, <1>6, <1>7, <1>8, <1>12, <3>1, <3>2, <4>1
    <3>3. CASE r # s
      BY <1>5, <1>12, <3>1, <3>3
    <3> QED
      BY <3>2, <3>3
  <2> QED
    BY <2>1 DEF AccountInv
<1>19. StateInv'
  <2>1. ASSUME NEW r \in Ids
        PROVE  \/ wstate'[r] = "Starting" /\ started'[r] = 0 /\ ended'[r] = 0 /\ told'[r] = 0
               \/ wstate'[r] = "Running" /\ started'[r] = 1 /\ ended'[r] = 0 /\ told'[r] = 0
               \/ /\ wstate'[r] = "Drained" /\ started'[r] = 1 /\ ended'[r] = 1
                  /\ audioBuf'[r] = 0 /\ packets'[r] = 0
    <3>1. \/ wstate[r] = "Starting" /\ started[r] = 0 /\ ended[r] = 0 /\ told[r] = 0
          \/ wstate[r] = "Running" /\ started[r] = 1 /\ ended[r] = 0 /\ told[r] = 0
          \/ wstate[r] = "Drained" /\ started[r] = 1 /\ ended[r] = 1 /\ audioBuf[r] = 0 /\ packets[r] = 0
      BY DEF IInv, StateInv
    <3>2. CASE r = s /\ ~live
      <4>1. audioBuf'[s] = audioBuf[s] /\ packets'[s] = packets[s]
        BY <1>1, <1>6, <1>9, <1>12, <3>2
      <4> QED
        BY <1>5, <1>9, <1>10, <1>14, <1>16, <3>1, <3>2, <4>1
    <3>3. CASE r = s /\ live
      <4>1. /\ wstate'[s] = (IF eod THEN "Drained" ELSE "Running") /\ told'[s] = told[s]
            /\ wstate[s] # "Drained"
        BY <1>5, <1>10, <1>16, <3>3
      <4>2. started'[s] = 1 /\ ended[s] = 0 /\ told[s] = 0
        BY <1>14, <3>1, <3>3, <4>1
      <4>3. ended'[s] = IF eod THEN 1 ELSE 0
        BY <1>14, <4>2
      <4> QED
        BY <1>10, <1>15, <3>3, <4>1, <4>2, <4>3
    <3>4. CASE r # s
      BY <1>5, <1>12, <1>14, <1>16, <3>1, <3>4
    <3> QED
      BY <3>2, <3>3, <3>4
  <2> QED
    BY <2>1 DEF StateInv
<1>20. QueueInv' /\ SlotsInv'
  BY <1>3, <1>5, <1>16 DEF IInv, QueueInv, SlotsInv
<1>21. HeardInv'
  BY <1>5, <1>13 DEF IInv, HeardInv, TakenOut
<1>22. ToldInv' /\ RightTrackEnds'
  BY <1>5 DEF IInv, ToldInv, TookOut, RightTrackEnds
<1> QED
  BY <1>17, <1>18, <1>19, <1>20, <1>21, <1>22 DEF IInv

\* The underflow callback posts Drained for a stream in Drained only.
LEMMA OnUnderflowStep ==
  ASSUME IInv, NEW s \in Ids, OnUnderflow(s)
  PROVE  IInv'
<1> DEFINE m == <<"Drained", s>>
<1>1. /\ link[s] = "connected" /\ posted[s] # << >> /\ Head(posted[s]) = "underflow"
      /\ posted' = [posted EXCEPT ![s] = Tail(posted[s])]
  BY DEF OnUnderflow
<1>2. \/ UNCHANGED <<queue, told>>
      \/ wstate[s] = "Drained" /\ queue' = Append(queue, m) /\ told' = [told EXCEPT ![s] = told[s] + 1]
  BY DEF OnUnderflow, EndOfTrack
<1>3. UNCHANGED <<packets, ends, audioBuf, wstate, link, corked, level, dry, playing, next_up,
                  current, written, total, started, ended, shifted>>
  BY DEF OnUnderflow, buffers, slots
<1>4. /\ posted \in [Ids -> Seq({"request", "underflow"})] /\ queue \in Seq(Messages)
      /\ told \in [Ids -> Nat]
  BY DEF IInv, TypeOK
<1>5. /\ posted' \in [Ids -> Seq({"request", "underflow"})] /\ Has(posted[s], "underflow")
      /\ \A r \in Ids : Has(posted'[r], "underflow") => Has(posted[r], "underflow")
  <2>1. /\ Tail(posted[s]) \in Seq({"request", "underflow"}) /\ Has(posted[s], "underflow")
        /\ Has(Tail(posted[s]), "underflow") => Has(posted[s], "underflow")
    BY <1>1, <1>4, TailHas
  <2> QED
    BY <1>1, <1>4, <2>1
<1>6. AccountInv'
  BY <1>3 DEF IInv, AccountInv
<1>7. SlotsInv'
  BY <1>3 DEF IInv, SlotsInv
<1>8. CASE UNCHANGED <<queue, told>>
  <2>1. TypeOK'
    BY <1>3, <1>5, <1>8 DEF IInv, TypeOK
  <2>2. QueueInv' /\ RightTrackEnds'
    BY <1>3, <1>8 DEF IInv, QueueInv, RightTrackEnds
  <2>3. HeardInv'
    BY <1>3, <1>5, <1>8 DEF IInv, HeardInv, TakenOut
  <2>4. StateInv' /\ ToldInv'
    BY <1>3, <1>8, SameBuffers, SameQueue
  <2> QED
    BY <1>6, <1>7, <2>1, <2>2, <2>3, <2>4 DEF IInv
<1>9. CASE /\ wstate[s] = "Drained" /\ queue' = Append(queue, m)
           /\ told' = [told EXCEPT ![s] = told[s] + 1]
  <2>1. m \in Messages /\ \A r \in Ids : <<"Decoder", r>> # m /\ ((<<"Drained", r>> = m) <=> (r = s))
    BY DEF Messages
  <2> HIDE DEF m
  <2>2. /\ queue' \in Seq(Messages)
        /\ \A x : Has(queue', x) <=> (Has(queue, x) \/ x = m)
        /\ \A x : Twice(queue', x) <=> (Twice(queue, x) \/ (x = m /\ Has(queue, x)))
    <3>1. m \in Messages /\ queue \in Seq(Messages) /\ queue' = Append(queue, m)
      BY <1>4, <1>9, <2>1
    <3> QED
      BY ONLY <3>1, QueuedHas
  <2>3. /\ told' \in [Ids -> Nat] /\ told[s] \in Nat
        /\ \A r \in Ids : told'[r] = IF r = s THEN told[s] + 1 ELSE told[r]
        /\ \A r \in Ids : told'[r] >= told[r]
    BY <1>4, <1>9
  <2>4. TypeOK'
    BY <1>3, <1>5, <2>2, <2>3 DEF IInv, TypeOK
  <2>5. QueueInv'
    BY <1>1, <1>3, <2>1, <2>2, <2>3 DEF IInv, QueueInv
  <2>6. StateInv'
    BY <1>3, <1>9, <2>3 DEF IInv, StateInv
  <2>7. playing = s \/ TakenOut(s)
    BY <1>1, <1>5 DEF IInv, HeardInv
  <2>8. HeardInv'
    <3>1. \A r \in Ids : TakenOut(r)' = TakenOut(r)
      BY <1>3 DEF TakenOut
    <3>2. \A r \in Ids : Has(queue', <<"Drained", r>>) => Has(queue, <<"Drained", r>>) \/ r = s
      BY <2>1, <2>2
    <3> QED
      BY <1>3, <1>5, <2>7, <3>1, <3>2 DEF IInv, HeardInv
  <2>9. ToldInv'
    <3> SUFFICES ASSUME NEW r \in Ids
                 PROVE  /\ Has(queue', <<"Drained", r>>) \/ TookOut(r)' => told'[r] >= 1
                        /\ Twice(queue', <<"Drained", r>>) => told'[r] > 1
                        /\ Has(queue', <<"Drained", r>>) /\ TookOut(r)' => told'[r] > 1
      BY DEF ToldInv
    <3>1. TookOut(r)' <=> TookOut(r)
      BY <1>3 DEF TookOut
    <3>2. /\ Has(queue, <<"Drained", r>>) \/ TookOut(r) => told[r] >= 1
          /\ Twice(queue, <<"Drained", r>>) => told[r] > 1
          /\ Has(queue, <<"Drained", r>>) /\ TookOut(r) => told[r] > 1
      BY DEF IInv, ToldInv
    <3>3. CASE r = s
      BY <2>1, <2>2, <2>3, <3>1, <3>2, <3>3
    <3>4. CASE r # s
      BY <2>1, <2>2, <2>3, <3>1, <3>2, <3>4
    <3> QED
      BY <3>3, <3>4
  <2>10. RightTrackEnds'
    <3>1. \A r \in Ids : told'[r] >= told[r] /\ told'[r] \in Nat
      BY <2>3
    <3> QED
      BY <1>3, <3>1, RightStable
  <2> QED
    BY <1>6, <1>7, <2>4, <2>5, <2>6, <2>8, <2>9, <2>10 DEF IInv
<1> QED
  BY <1>2, <1>8, <1>9

-----------------------------------------------------------------------------
(* The server, and the theorems                                            *)

\* The server plays a stream or reports that it has run dry: only streams that
\* are heard are reported.
LEMMA ServerStep ==
  ASSUME IInv, NEW s \in Ids, Server(s)
  PROVE  IInv'
<1>1. link[s] = "connected" /\ ~corked[s]
  BY DEF Server, ServerPlays, ServerRunsDry
<1>2. UNCHANGED <<packets, ends, audioBuf, wstate, link, corked, playing, next_up, current, queue,
                  written, total, started, ended, told, shifted>>
  BY DEF Server, ServerPlays, ServerRunsDry, buffers, slots, history
<1>3. /\ posted \in [Ids -> Seq({"request", "underflow"})] /\ level \in [Ids -> 0 .. PulseBuffer]
      /\ dry \in [Ids -> BOOLEAN] /\ PulseBuffer \in Nat
  BY PulseOutAssumption DEF IInv, TypeOK
<1>4. level' \in [Ids -> 0 .. PulseBuffer] /\ dry' \in [Ids -> BOOLEAN]
  <2>1. CASE ServerPlays(s)
    <3>1. level[s] - 1 \in 0 .. PulseBuffer
      BY <1>3, <2>1 DEF ServerPlays
    <3> QED
      BY <1>3, <2>1, <3>1 DEF ServerPlays
  <2>2. CASE ServerRunsDry(s)
    BY <1>3, <2>2 DEF ServerRunsDry
  <2> QED
    BY <2>1, <2>2 DEF Server
<1>5. /\ posted' \in [Ids -> Seq({"request", "underflow"})]
      /\ \A r \in Ids : r # s => posted'[r] = posted[r]
  <2>1. PICK x \in Seq({"request", "underflow"}) : posted' = [posted EXCEPT ![s] = x]
    <3>1. /\ posted[s] \in Seq({"request", "underflow"})
          /\ Append(posted[s], "request") \in Seq({"request", "underflow"})
          /\ Append(posted[s], "underflow") \in Seq({"request", "underflow"})
      BY <1>3, AppendProperties
    <3> QED
      BY <3>1 DEF Server, ServerPlays, ServerRunsDry
  <2> QED
    BY <1>3, <2>1
<1>6. TypeOK'
  BY <1>2, <1>4, <1>5 DEF IInv, TypeOK
<1>7. QueueInv' /\ SlotsInv' /\ RightTrackEnds'
  BY <1>2 DEF IInv, QueueInv, SlotsInv, RightTrackEnds
<1>8. HeardInv'
  BY <1>1, <1>2, <1>5 DEF IInv, HeardInv, TakenOut
<1>9. AccountInv' /\ StateInv' /\ ToldInv'
  BY <1>2, SameBuffers, SameQueue
<1> QED
  BY <1>6, <1>7, <1>8, <1>9 DEF IInv

\* Every step keeps the invariant.
LEMMA StepIInv == IInv /\ [Next]_vars => IInv'
<1> SUFFICES ASSUME IInv, [Next]_vars PROVE IInv'
  OBVIOUS
<1>1. CASE StartStream
  BY <1>1, StartStreamStep
<1>2. CASE Pause \/ Unpause
  BY <1>2, SetCorkStep DEF Pause, Unpause
<1>3. CASE Stop
  BY <1>3, StopStep
<1>4. CASE \E s \in Ids : OwnQueue(s)
  BY <1>4, OnDrainedStep, OnDecoderStep DEF OwnQueue
<1>5. CASE \E s \in Ids : PulseThread(s)
  BY <1>5, OnWriteStep, OnUnderflowStep DEF PulseThread
<1>6. CASE \E s \in Ids : Server(s)
  BY <1>6, ServerStep
<1>7. CASE UNCHANGED vars
  <2>1. UNCHANGED <<packets, ends, audioBuf, wstate, link, corked, level, dry, posted, playing,
                    next_up, current, queue, written, total, started, ended, told, shifted>>
    BY <1>7 DEF vars, buffers, pulse, slots, history
  <2>2. TypeOK'
    BY <2>1 DEF IInv, TypeOK
  <2>3. QueueInv' /\ SlotsInv' /\ RightTrackEnds' /\ HeardInv'
    BY <2>1 DEF IInv, QueueInv, SlotsInv, RightTrackEnds, HeardInv, TakenOut
  <2>4. AccountInv' /\ StateInv' /\ ToldInv'
    BY <2>1, SameBuffers, SameQueue
  <2> QED
    BY <2>2, <2>3, <2>4 DEF IInv
<1> QED
  BY <1>1, <1>2, <1>3, <1>4, <1>5, <1>6, <1>7 DEF Next

\* The invariant holds throughout.
LEMMA Invariant == Spec => []IInv
BY InitIInv, StepIInv, PTL DEF Spec

\* Types; on_write never gives the server more than it asked for.
THEOREM TypeCorrect == Spec => []TypeOK
<1>1. IInv => TypeOK
  BY DEF IInv
<1> QED
  BY Invariant, <1>1, PTL

\* on_write settles in Drained only when every unit the decoder delivers has
\* been given to PulseAudio, and never rests in Draining, whatever the sizes
\* of packets, requests and buffers.
THEOREM NothingLeftBehindHolds == Spec => []NothingLeftBehind
<1>1. IInv => NothingLeftBehind
  <2> SUFFICES ASSUME IInv, NEW s \in Ids
               PROVE  /\ wstate[s] # "Draining"
                      /\ wstate[s] = "Drained" => audioBuf[s] = 0 /\ written[s] = total[s]
    BY DEF NothingLeftBehind
  <2>1. wstate[s] # "Draining"
    BY DEF IInv, StateInv
  <2>2. wstate[s] = "Drained" => audioBuf[s] = 0 /\ packets[s] = 0
    BY DEF IInv, StateInv
  <2>3. /\ written[s] \in Nat /\ written[s] + audioBuf[s] + packets[s] * PacketSize = total[s]
        /\ 0 * PacketSize = 0
    BY PulseOutAssumption DEF IInv, TypeOK, AccountInv
  <2>4. wstate[s] = "Drained" => written[s] = total[s]
    BY <2>2, <2>3
  <2> QED
    BY <2>1, <2>2, <2>4
<1> QED
  BY Invariant, <1>1, PTL

\* One TrackStarted and one EndOfDecode per stream however often PulseAudio
\* asks, EndOfDecode exactly for the streams that finished, and Drained only
\* for those.
THEOREM AnnouncedOnceHolds == Spec => []AnnouncedOnce
<1>1. IInv => AnnouncedOnce
  <2> SUFFICES ASSUME IInv, NEW s \in Ids
               PROVE  /\ started[s] <= 1 /\ ended[s] <= started[s]
                      /\ ended[s] = 1 <=> wstate[s] = "Drained"
                      /\ told[s] > 0 => ended[s] = 1
    BY DEF AnnouncedOnce
  <2>1. \/ wstate[s] = "Starting" /\ started[s] = 0 /\ ended[s] = 0 /\ told[s] = 0
        \/ wstate[s] = "Running" /\ started[s] = 1 /\ ended[s] = 0 /\ told[s] = 0
        \/ wstate[s] = "Drained" /\ started[s] = 1 /\ ended[s] = 1
    BY DEF IInv, StateInv
  <2> QED
    BY <2>1
<1> QED
  BY Invariant, <1>1, PTL

\* A Drained message takes the track that ended out of the playing slot and no
\* other, with the three exceptions the property names.
THEOREM RightTrackEndsHolds == Spec => []RightTrackEnds
<1>1. IInv => RightTrackEnds
  BY DEF IInv
<1> QED
  BY Invariant, <1>1, PTL
=============================================================================
