----------------------------- MODULE PlayerProofs -----------------------------
(***************************************************************************)
(* Proofs about Player: the slots of the output stay in order and the      *)
(* server's pause or stop holds, for any number of streams and timers, any *)
(* capacity of the queue and any commands.                                 *)
(*                                                                         *)
(* Both rest on what is under way: a stream's decoder is in one place at a *)
(* time, from the thread that makes it through the queue to the slot it    *)
(* ends in, and after an unexcused word nothing that starts the output is  *)
(* queued, held by a callback or asleep in a timer.                        *)
(***************************************************************************)
EXTENDS Player, TLAPS, SequenceTheorems

\* The message m is in the queue q.
Has(q, m) == \E i \in 1 .. Len(q) : q[i] = m

\* No decoder is in the queue q twice.
Once(q) == \A i, j \in 1 .. Len(q) : q[i][1] = "Decoder" /\ q[i] = q[j] => i = j

\* Where the main thread is tells what it is doing.
JobInv ==
  /\ mainPc \in {"select", "exit"} => job = Idle
  /\ mainPc = "output" => job # Idle /\ job[1] \notin {"StreamEstablished", "NotSupported"}
  /\ mainPc = "tell" => job[1] \in {"StreamEstablished", "NotSupported"}
  /\ mainPc = "place" => job[1] = "StreamEstablished"
  /\ mainPc \in {"output", "tell", "place"} => output

\* Until its decoder is taken up by the output a stream is not connected
\* there; a decoder is in the queue at most once, and not when the main
\* thread has it.
FreshInv ==
  /\ Once(queue)
  /\ \A s \in Ids : Has(queue, <<"Decoder", s>>) => conn[s] = "done" /\ life[s] = "none" /\ job[2] # s
  /\ \A s \in Ids : conn[s] # "done" => life[s] = "none" /\ job[2] # s
  /\ job[1] = "Decoder" => life[job[2]] = "none"

\* A stream about to be placed is connected, and is in no slot yet.
PlaceInv ==
  job[1] = "StreamEstablished" =>
    life[job[2]] # "none" /\ playing # job[2] /\ next_up # job[2]

\* A stream that is not connected is corked.
CorkInv == \A s \in Ids : life[s] = "none" => corked[s]

\* After an unexcused word nothing that starts the output is under way.
QuietInv ==
  intent # "free" /\ ~excused =>
    /\ Sounding = {}
    /\ ~Has(queue, <<"Unpause", NoStream>>) /\ ~Has(queue, <<"Drained", NoStream>>)
    /\ callback[1] # "Drained" /\ job[1] \notin {"Unpause", "Drained"}
    /\ timers = 0

\* After a pause a stream keeps the slot of the playing one, so that a new one
\* waits behind it; after a stop there is none and none is to come.
PausedInv == intent = "paused" /\ ~excused /\ Running => playing # NoStream
StoppedInv ==
  intent = "stopped" /\ ~excused =>
    /\ playing = NoStream /\ next_up = NoStream
    /\ job[1] \notin {"Decoder", "StreamEstablished"}
    /\ \A s \in Ids : conn[s] \in {"idle", "done"} /\ ~Has(queue, <<"Decoder", s>>)

IInv ==
  /\ TypeOK
  /\ JobInv /\ FreshInv /\ PlaceInv /\ SlotsInOrder /\ CorkInv
  /\ QuietInv /\ PausedInv /\ StoppedInv

-----------------------------------------------------------------------------
(* The queue, the jobs and the stages                                      *)

\* A message behind the others: what Post does to the queue.
LEMMA AppendHas ==
  ASSUME NEW q \in Seq(PlayerMsgs), NEW m \in PlayerMsgs, NEW r, r = Append(q, m)
  PROVE  /\ r \in Seq(PlayerMsgs) /\ Len(r) = Len(q) + 1
         /\ \A x : Has(r, x) <=> (Has(q, x) \/ x = m)
         /\ Once(q) /\ (m[1] = "Decoder" => ~Has(q, m)) => Once(r)
<1>1. /\ r \in Seq(PlayerMsgs) /\ Len(r) = Len(q) + 1 /\ Len(q) \in Nat
      /\ \A i \in 1 .. Len(q) : r[i] = q[i]
      /\ r[Len(q) + 1] = m
  BY AppendProperties, LenProperties
<1>2. \A x : Has(r, x) <=> (Has(q, x) \/ x = m)
  BY <1>1 DEF Has
<1>3. ASSUME Once(q), m[1] = "Decoder" => ~Has(q, m)
      PROVE  Once(r)
  <2>1. \A i \in 1 .. Len(q) : m[1] = "Decoder" => q[i] # m
    BY <1>3 DEF Has
  <2> QED
    BY <1>1, <1>3, <2>1 DEF Once
<1> QED
  BY <1>1, <1>2, <1>3

\* The first message is taken: what TakeMessage does to the queue.
LEMMA TailHas ==
  ASSUME NEW q \in Seq(PlayerMsgs), q # << >>, NEW r, r = Tail(q)
  PROVE  /\ r \in Seq(PlayerMsgs) /\ Len(r) = Len(q) - 1
         /\ Head(q) \in PlayerMsgs /\ Has(q, Head(q))
         /\ \A x : Has(r, x) => Has(q, x)
         /\ Once(q) => Once(r) /\ (Head(q)[1] = "Decoder" => ~Has(r, Head(q)))
<1>1. /\ r \in Seq(PlayerMsgs) /\ Len(r) = Len(q) - 1 /\ Len(q) \in Nat \ {0}
      /\ \A i \in 1 .. Len(r) : r[i] = q[i + 1]
      /\ Head(q) \in PlayerMsgs /\ Head(q) = q[1]
  BY HeadTailProperties, LenProperties, EmptySeq
<1>2. Has(q, Head(q)) /\ \A x : Has(r, x) => Has(q, x)
  BY <1>1 DEF Has
<1>3. ASSUME Once(q) PROVE Once(r) /\ (Head(q)[1] = "Decoder" => ~Has(r, Head(q)))
  <2>1. Once(r)
    BY <1>1, <1>3 DEF Once
  <2>2. ASSUME Head(q)[1] = "Decoder", Has(r, Head(q)) PROVE FALSE
    <3>1. PICK i \in 1 .. Len(r) : r[i] = Head(q)
      BY <2>2 DEF Has
    <3>2. i + 1 \in 1 .. Len(q) /\ 1 \in 1 .. Len(q) /\ q[i + 1] = q[1] /\ q[1][1] = "Decoder"
      BY <1>1, <2>2, <3>1
    <3>3. i + 1 = 1
      BY <3>2, <1>3 DEF Once
    <3> QED
      BY <3>3
  <2> QED
    BY <2>1, <2>2
<1> QED
  BY <1>1, <1>2, <1>3

\* The empty queue.
LEMMA EmptyHas ==
  << >> \in Seq(PlayerMsgs) /\ Len(<< >>) = 0 /\ Once(<< >>) /\ \A x : ~Has(<< >>, x)
BY EmptySeq DEF Has, Once

\* The stages of a stream-connect thread.
LEMMA Stages ==
  /\ DOMAIN Stage = {"connected", "threshold", "decoder", "failed"}
  /\ Stage["connected"] = <<"Connected", "threshold">>
  /\ Stage["threshold"] = <<"BufferThreshold", "buffering">>
  /\ Stage["decoder"] = <<"Decoder", "done">>
  /\ Stage["failed"] = <<"NotSupported", "done">>
BY DEF Stage

\* A player message, a call and a job by their parts.
LEMMA MsgParts ==
  ASSUME NEW m \in PlayerMsgs
  PROVE  /\ m = <<m[1], m[2]>>
         /\ m[1] \in {"Report", "Drained", "Unpause", "Decoder"}
         /\ m[1] = "Decoder" => m[2] \in Ids
         /\ m[1] # "Decoder" => m[2] = NoStream
BY DEF PlayerMsgs

\* A callback's call: idle, or a message it is about to post.
LEMMA CallParts ==
  ASSUME NEW c \in Calls
  PROVE  /\ c = <<c[1], c[2]>>
         /\ c[1] \in {"none", "TrackStarted", "EndOfDecode", "Drained"}
         /\ (c = Idle) <=> (c[1] = "none")
BY DEF Calls, Idle

\* What the main thread has in hand names a stream exactly when it works on one.
LEMMA JobParts ==
  ASSUME NEW j \in Jobs
  PROVE  /\ j = <<j[1], j[2]>>
         /\ (j = Idle) <=> (j[1] = "none")
         /\ j[2] \in Ids \cup {NoStream}
         /\ (j[1] \in {"Decoder", "StreamEstablished", "NotSupported"}) <=> (j[2] \in Ids)
BY DEF Jobs, Idle, Ids, NoStream

\* What is posted is a player message; only a decoder's names its stream, and
\* the reports are told from what starts the output.
LEMMA Posted ==
  ASSUME NEW s \in Ids \cup {NoStream},
         NEW kind \in Reported \cup {"Drained", "Unpause", "Decoder"},
         kind = "Decoder" => s \in Ids
  PROVE  /\ PlayerMsg(kind, s) \in PlayerMsgs
         /\ PlayerMsg(kind, s) =
              IF kind \in Reported THEN <<"Report", NoStream>>
              ELSE <<kind, IF kind = "Decoder" THEN s ELSE NoStream>>
BY DEF PlayerMsg, PlayerMsgs, Reported

-----------------------------------------------------------------------------
(* The invariant holds at first                                            *)

\* The player starts without an output, with nothing queued.
LEMMA InitIInv == Init => IInv
<1> SUFFICES ASSUME Init PROVE IInv
  OBVIOUS
<1>1. TypeOK
  <2>1. queue \in Seq(PlayerMsgs) /\ Len(queue) <= QueueCap
    BY PlayerAssumption, EmptyHas DEF Init
  <2>2. timers \in 0 .. MaxTimers /\ spawned \in timers .. MaxTimers /\ again \in 0 .. MaxAgain
    BY PlayerAssumption DEF Init
  <2>3. callback \in Calls /\ job \in Jobs
    BY DEF Init, Calls, Jobs
  <2> QED
    BY <2>1, <2>2, <2>3 DEF Init, TypeOK
<1>2. FreshInv
  BY EmptyHas DEF Init, FreshInv, Idle, Ids, NoStream
<1>3. JobInv /\ PlaceInv /\ CorkInv /\ SlotsInOrder
  BY DEF Init, JobInv, PlaceInv, CorkInv, SlotsInOrder, Idle
<1>4. QuietInv /\ PausedInv /\ StoppedInv
  BY DEF Init, QuietInv, PausedInv, StoppedInv
<1> QED
  BY <1>1, <1>2, <1>3, <1>4 DEF IInv

-----------------------------------------------------------------------------
(* The steps of the threads and the callbacks                              *)

\* The stream-connect thread moves on without posting.
LEMMA ConnectStep ==
  ASSUME IInv, NEW s \in Ids, NEW ok \in Outcomes, Connect(s, ok) \/ MakeDecoder(s, ok)
  PROVE  IInv'
<1>1. PICK to \in {"connected", "decoder", "failed"} :
        /\ conn[s] \in {"connect", "buffering"} /\ conn' = [conn EXCEPT ![s] = to]
        /\ UNCHANGED <<queue, auto, clock, sinks, callback, loop, gone, history>>
  BY DEF Connect, MakeDecoder
<1>2. UNCHANGED <<queue, auto, timers, spawned, again, output, playing, next_up, life, corked,
                  callback, mainPc, job, gone, intent, excused>>
  BY <1>1 DEF clock, sinks, loop, history
<1>3. conn \in [Ids -> {"idle", "connect", "buffering", "done"} \cup DOMAIN Stage]
  BY DEF IInv, TypeOK
<1>4. conn' \in [Ids -> {"idle", "connect", "buffering", "done"} \cup DOMAIN Stage]
  BY <1>1, <1>3, Stages
<1>5. TypeOK'
  BY <1>2, <1>4 DEF IInv, TypeOK
<1>6. FreshInv'
  BY <1>1, <1>2, <1>3 DEF IInv, FreshInv
<1>7. StoppedInv'
  BY <1>1, <1>2, <1>3 DEF IInv, StoppedInv
<1>8. QuietInv' /\ PausedInv'
  BY <1>2 DEF IInv, QuietInv, PausedInv, Sounding, Running
<1>9. JobInv' /\ PlaceInv' /\ CorkInv' /\ SlotsInOrder'
  BY <1>2 DEF IInv, JobInv, PlaceInv, CorkInv, SlotsInOrder
<1> QED
  BY <1>5, <1>6, <1>7, <1>8, <1>9 DEF IInv

\* The stream-connect thread posts.  A decoder that it posts was nowhere else.
LEMMA PostStageStep ==
  ASSUME IInv, NEW s \in Ids, PostStage(s)
  PROVE  IInv'
<1> DEFINE kind == Stage[conn[s]][1]
           to   == Stage[conn[s]][2]
           m    == PlayerMsg(kind, s)
<1>1. /\ conn[s] \in DOMAIN Stage
      /\ Len(queue) < QueueCap /\ queue' = Append(queue, m)
      /\ conn' = [conn EXCEPT ![s] = to]
      /\ UNCHANGED <<auto, clock, sinks, callback, loop, gone, history>>
  BY DEF PostStage, Post
<1>2. UNCHANGED <<auto, timers, spawned, again, output, playing, next_up, life, corked,
                  callback, mainPc, job, gone, intent, excused>>
  BY <1>1 DEF clock, sinks, loop, history
<1>3. /\ conn \in [Ids -> {"idle", "connect", "buffering", "done"} \cup DOMAIN Stage]
      /\ queue \in Seq(PlayerMsgs) /\ Len(queue) \in Nat /\ QueueCap \in Nat
  BY PlayerAssumption, LenProperties DEF IInv, TypeOK
<1>4. /\ kind \in {"Connected", "BufferThreshold", "Decoder", "NotSupported"}
      /\ to \in {"threshold", "buffering", "done"}
      /\ (kind = "Decoder") <=> (conn[s] = "decoder")
      /\ conn[s] # "done"
      /\ kind = "Decoder" => to = "done"
  BY <1>1, Stages
<1> HIDE DEF kind, to
<1>5. /\ m \in PlayerMsgs
      /\ m = IF kind = "Decoder" THEN <<"Decoder", s>> ELSE <<"Report", NoStream>>
  BY <1>4, Posted DEF Reported
<1> HIDE DEF m
<1>6. ~Has(queue, <<"Decoder", s>>) /\ life[s] = "none" /\ job[2] # s
  BY <1>4 DEF IInv, FreshInv
<1>7. /\ queue' \in Seq(PlayerMsgs) /\ Len(queue') = Len(queue) + 1
      /\ \A x : Has(queue', x) <=> (Has(queue, x) \/ x = m)
      /\ Once(queue) => Once(queue')
  BY <1>1, <1>3, <1>5, <1>6, AppendHas, ZenonT(40)
<1>8. TypeOK'
  <2>1. conn' \in [Ids -> {"idle", "connect", "buffering", "done"} \cup DOMAIN Stage]
    BY <1>1, <1>3, <1>4, Stages
  <2>2. Len(queue') <= QueueCap
    BY <1>1, <1>3, <1>7
  <2> QED
    BY <1>2, <1>7, <2>1, <2>2 DEF IInv, TypeOK
<1>9. \A r \in Ids : conn'[r] = IF r = s THEN to ELSE conn[r]
  BY <1>1, <1>3
<1>10. FreshInv'
  <2>1. \A r \in Ids : Has(queue', <<"Decoder", r>>) =>
          Has(queue, <<"Decoder", r>>) \/ (r = s /\ kind = "Decoder")
    BY <1>5, <1>7
  <2>2. \A r \in Ids : Has(queue', <<"Decoder", r>>) =>
          conn'[r] = "done" /\ life'[r] = "none" /\ job'[2] # r
    BY <2>1, <1>2, <1>4, <1>6, <1>9 DEF IInv, FreshInv
  <2>3. \A r \in Ids : conn'[r] # "done" => life'[r] = "none" /\ job'[2] # r
    BY <1>2, <1>4, <1>6, <1>9 DEF IInv, FreshInv
  <2>4. job'[1] = "Decoder" => life'[job'[2]] = "none"
    BY <1>2 DEF IInv, FreshInv
  <2> QED
    BY <1>7, <2>2, <2>3, <2>4 DEF IInv, FreshInv
<1>11. StoppedInv'
  <2>1. ~(intent = "stopped" /\ ~excused)
    BY <1>1, Stages DEF IInv, StoppedInv
  <2> QED
    BY <2>1, <1>2 DEF StoppedInv
<1>12. QuietInv'
  <2>1. /\ Has(queue', <<"Unpause", NoStream>>) => Has(queue, <<"Unpause", NoStream>>)
        /\ Has(queue', <<"Drained", NoStream>>) => Has(queue, <<"Drained", NoStream>>)
    BY <1>5, <1>7
  <2>2. Sounding' = Sounding
    BY <1>2 DEF Sounding
  <2> QED
    BY <1>2, <2>1, <2>2 DEF IInv, QuietInv
<1>13. PausedInv' /\ JobInv' /\ PlaceInv' /\ CorkInv' /\ SlotsInOrder'
  BY <1>2 DEF IInv, PausedInv, Running, JobInv, PlaceInv, CorkInv, SlotsInOrder
<1> QED
  BY <1>8, <1>10, <1>11, <1>12, <1>13 DEF IInv

\* A post of something other than a decoder, by a timer, a callback or the main
\* thread, leaves what is known of decoders.
LEMMA PostOther ==
  ASSUME IInv, NEW kind \in Reported \cup {"Drained", "Unpause"}, NEW s \in Ids \cup {NoStream},
         Post(kind, s)
  PROVE  /\ queue' \in Seq(PlayerMsgs) /\ Len(queue') <= QueueCap
         /\ Once(queue')
         /\ \A r \in Ids : Has(queue', <<"Decoder", r>>) <=> Has(queue, <<"Decoder", r>>)
         /\ \A k \in {"Unpause", "Drained"} :
              Has(queue', <<k, NoStream>>) <=> (Has(queue, <<k, NoStream>>) \/ k = kind)
<1> DEFINE m == PlayerMsg(kind, s)
<1>1. Len(queue) < QueueCap /\ queue' = Append(queue, m)
  BY DEF Post
<1>2. queue \in Seq(PlayerMsgs) /\ Len(queue) \in Nat /\ QueueCap \in Nat
  BY PlayerAssumption, LenProperties DEF IInv, TypeOK
<1>3. kind # "Decoder"
  BY DEF Reported
<1>4. /\ m \in PlayerMsgs
      /\ m = IF kind \in Reported THEN <<"Report", NoStream>> ELSE <<kind, NoStream>>
  BY <1>3, Posted
<1> HIDE DEF m
<1>5. m[1] # "Decoder"
  BY <1>3, <1>4
<1>6. /\ queue' \in Seq(PlayerMsgs) /\ Len(queue') = Len(queue) + 1
      /\ \A x : Has(queue', x) <=> (Has(queue, x) \/ x = m)
      /\ Once(queue) => Once(queue')
  BY <1>1, <1>2, <1>4, <1>5, AppendHas, ZenonT(40)
<1>7. Once(queue')
  BY <1>6 DEF IInv, FreshInv
<1>8. \A r \in Ids : Has(queue', <<"Decoder", r>>) <=> Has(queue, <<"Decoder", r>>)
  BY <1>5, <1>6
<1>9. ASSUME NEW k \in {"Unpause", "Drained"}
      PROVE  Has(queue', <<k, NoStream>>) <=> (Has(queue, <<k, NoStream>>) \/ k = kind)
  <2>1. (<<k, NoStream>> = m) <=> (k = kind)
    BY <1>4 DEF Reported
  <2> QED
    BY <1>6, <2>1
<1> QED
  BY <1>1, <1>2, <1>6, <1>7, <1>8, <1>9

\* A timer fires.
LEMMA TimerStep ==
  ASSUME IInv, TimerFires
  PROVE  IInv'
<1>1. timers > 0 /\ timers' = timers - 1 /\ Post("Unpause", NoStream)
  BY DEF TimerFires
<1>2. UNCHANGED <<conn, auto, spawned, again, output, playing, next_up, life, corked,
                  callback, mainPc, job, gone, intent, excused>>
  BY DEF TimerFires, links, sinks, loop, history
<1>3. /\ queue' \in Seq(PlayerMsgs) /\ Len(queue') <= QueueCap
      /\ Once(queue')
      /\ \A r \in Ids : Has(queue', <<"Decoder", r>>) <=> Has(queue, <<"Decoder", r>>)
  BY <1>1, PostOther
<1>4. TypeOK'
  <2>1. timers' \in 0 .. MaxTimers /\ spawned' \in timers' .. MaxTimers
    BY <1>1, <1>2, PlayerAssumption DEF IInv, TypeOK
  <2> QED
    BY <1>2, <1>3, <2>1 DEF IInv, TypeOK
<1>5. FreshInv'
  BY <1>2, <1>3 DEF IInv, FreshInv
<1>6. ~(intent # "free" /\ ~excused)
  BY <1>1 DEF IInv, QuietInv
<1>7. QuietInv' /\ StoppedInv' /\ PausedInv'
  BY <1>2, <1>6 DEF IInv, TypeOK, QuietInv, StoppedInv, PausedInv
<1>8. JobInv' /\ PlaceInv' /\ CorkInv' /\ SlotsInOrder'
  BY <1>2 DEF IInv, JobInv, PlaceInv, CorkInv, SlotsInOrder
<1> QED
  BY <1>4, <1>5, <1>7, <1>8 DEF IInv

\* A callback starts to post: a stream goes on, if it was drained early too; a
\* paused one is not drained.
LEMMA AnnounceStep ==
  ASSUME IInv, NEW s \in Ids, TrackStarted(s) \/ EndOfDecode(s) \/ Drained(s)
  PROVE  IInv'
<1>1. PICK from \in {"open", "started", "ended"}, to \in {"started", "ended", "over"},
           kind \in {"TrackStarted", "EndOfDecode", "Drained"} :
        /\ Announce(s, from, to, kind)
        /\ kind = "Drained" => ~corked[s] /\ from = "ended"
  BY DEF TrackStarted, EndOfDecode, Drained
<1>2. life[s] = from /\ life' = [life EXCEPT ![s] = to] /\ callback' = <<kind, s>>
  BY <1>1 DEF Announce
<1>3. UNCHANGED <<queue, conn, auto, timers, spawned, output, playing, next_up, corked,
                  mainPc, job, gone, intent, excused>>
  BY <1>1 DEF Announce, links, loop, history
<1>11. again' \in 0 .. MaxAgain
  <2>1. again \in 0 .. MaxAgain /\ MaxAgain \in Nat
    BY PlayerAssumption DEF IInv, TypeOK
  <2> QED
    BY <2>1 DEF TrackStarted, EndOfDecode, Drained
<1>4. life \in [Ids -> {"none", "open", "started", "ended", "over"}]
  BY DEF IInv, TypeOK
<1>5. /\ life' \in [Ids -> {"none", "open", "started", "ended", "over"}]
      /\ \A r \in Ids : (life'[r] = "none") <=> (life[r] = "none")
      /\ \A r \in Ids : life'[r] \in {"open", "started", "ended"} =>
                          life[r] \in {"open", "started", "ended"}
  BY <1>2, <1>4
<1>6. callback' \in Calls
  BY <1>2 DEF Calls
<1>7. TypeOK'
  BY <1>3, <1>5, <1>6, <1>11 DEF IInv, TypeOK
<1>8. FreshInv' /\ PlaceInv' /\ CorkInv' /\ SlotsInOrder'
  <2>1. \A r \in {playing, next_up} \ {NoStream} : r \in Ids
    BY DEF IInv, TypeOK
  <2>2. SlotsInOrder'
    BY <1>3, <1>5, <2>1 DEF IInv, SlotsInOrder
  <2>3. job[1] \in {"Decoder", "StreamEstablished"} => job[2] \in Ids
    BY JobParts DEF IInv, TypeOK
  <2>4. FreshInv' /\ PlaceInv' /\ CorkInv'
    BY <1>3, <1>5, <2>3 DEF IInv, FreshInv, PlaceInv, CorkInv
  <2> QED
    BY <2>2, <2>4
<1>9. QuietInv'
  <2> SUFFICES ASSUME intent # "free", ~excused PROVE QuietInv'
    BY <1>3 DEF QuietInv
  <2>1. Sounding = {}
    BY DEF IInv, QuietInv
  <2>2. kind # "Drained"
    BY <1>1, <1>2, <2>1 DEF Sounding
  <2>3. Sounding' = {}
    BY <2>1, <1>3, <1>5 DEF Sounding
  <2>4. callback'[1] # "Drained"
    BY <1>2, <2>2
  <2> QED
    BY <1>3, <2>3, <2>4 DEF IInv, QuietInv
<1>10. StoppedInv' /\ PausedInv' /\ JobInv'
  BY <1>3 DEF IInv, StoppedInv, PausedInv, Running, JobInv
<1> QED
  BY <1>7, <1>8, <1>9, <1>10 DEF IInv

\* A callback posts and lets go of the lock.
LEMMA PostCallbackStep ==
  ASSUME IInv, PostCallback
  PROVE  IInv'
<1>1. callback # Idle /\ Post(callback[1], callback[2]) /\ callback' = Idle
  BY DEF PostCallback
<1>2. UNCHANGED <<conn, auto, timers, spawned, again, output, playing, next_up, life, corked,
                  mainPc, job, gone, intent, excused>>
  BY DEF PostCallback, links, clock, sinks, loop, history
<1>3. callback[1] \in Reported \cup {"Drained"} /\ callback[2] \in Ids \cup {NoStream}
  <2>1. callback \in {"TrackStarted", "EndOfDecode", "Drained"} \X Ids
    BY <1>1 DEF IInv, TypeOK, Calls
  <2> QED
    BY <2>1 DEF Reported
<1>4. /\ queue' \in Seq(PlayerMsgs) /\ Len(queue') <= QueueCap
      /\ Once(queue')
      /\ \A r \in Ids : Has(queue', <<"Decoder", r>>) <=> Has(queue, <<"Decoder", r>>)
      /\ \A k \in {"Unpause", "Drained"} :
           Has(queue', <<k, NoStream>>) <=> (Has(queue, <<k, NoStream>>) \/ k = callback[1])
  BY <1>1, <1>3, PostOther
<1>5. TypeOK'
  <2>1. callback' \in Calls
    BY <1>1 DEF Calls
  <2> QED
    BY <1>2, <1>4, <2>1 DEF IInv, TypeOK
<1>6. FreshInv'
  BY <1>2, <1>4 DEF IInv, FreshInv
<1>7. QuietInv'
  <2>1. callback[1] # "Unpause" /\ callback'[1] = "none"
    BY <1>1, <1>3 DEF Reported, Idle
  <2>2. Sounding' = Sounding
    BY <1>2 DEF Sounding
  <2> QED
    BY <1>2, <1>4, <2>1, <2>2 DEF IInv, QuietInv
<1>8. StoppedInv'
  BY <1>2, <1>4 DEF IInv, StoppedInv
<1>9. PausedInv' /\ JobInv' /\ PlaceInv' /\ CorkInv' /\ SlotsInOrder'
  BY <1>2 DEF IInv, PausedInv, Running, JobInv, PlaceInv, CorkInv, SlotsInOrder
<1> QED
  BY <1>5, <1>6, <1>7, <1>8, <1>9 DEF IInv

-----------------------------------------------------------------------------
(* The server's messages                                                   *)

\* The main thread takes up a job that is no decoder's, from its select.
\* Everything but the job stays, except that messages may have left the queue.
LEMMA TakeUp ==
  ASSUME IInv, mainPc = "select", NEW kind, NEW s,
         <<kind, s>> \in Jobs \ {Idle}, kind \notin {"Decoder", "StreamEstablished", "NotSupported"},
         (IF output THEN mainPc' = "output" /\ job' = <<kind, s>> ELSE UNCHANGED loop),
         queue' \in Seq(PlayerMsgs), Len(queue') <= QueueCap, Once(queue'),
         \A x : Has(queue', x) => Has(queue, x),
         kind \in {"Unpause", "Drained"} => ~(intent # "free" /\ ~excused),
         UNCHANGED <<conn, auto, timers, spawned, again, output, playing, next_up, life, corked,
                     callback, gone, intent, excused>>
  PROVE  IInv'
<1>1. job = Idle
  BY DEF IInv, JobInv
<1>2. /\ job' = IF output THEN <<kind, s>> ELSE Idle
      /\ mainPc' = IF output THEN "output" ELSE "select"
  BY <1>1 DEF loop
<1>3. job' \in Jobs /\ job'[2] = NoStream /\ job'[1] \in {kind, "none"}
  BY <1>2, JobParts DEF Idle, Jobs, NoStream
<1>4. TypeOK'
  BY <1>2, <1>3 DEF IInv, TypeOK
<1>5. FreshInv'
  <2>1. \A r \in Ids : job'[2] # r
    BY <1>3 DEF Ids, NoStream
  <2>2. job'[1] # "Decoder"
    BY <1>3
  <2> QED
    BY <2>1, <2>2 DEF IInv, FreshInv
<1>6. JobInv'
  <2>1. <<kind, s>> # Idle /\ <<kind, s>>[1] = kind
    OBVIOUS
  <2> QED
    BY <1>2, <2>1 DEF IInv, JobInv
<1>7. PlaceInv' /\ CorkInv' /\ SlotsInOrder'
  BY <1>3 DEF IInv, PlaceInv, CorkInv, SlotsInOrder
<1>8. QuietInv'
  <2>1. Sounding' = Sounding
    BY DEF Sounding
  <2> QED
    BY <1>3, <2>1 DEF IInv, QuietInv
<1>9. StoppedInv' /\ PausedInv'
  BY <1>2, <1>3 DEF IInv, StoppedInv, PausedInv, Running
<1> QED
  BY <1>4, <1>5, <1>6, <1>7, <1>8, <1>9 DEF IInv

\* A stop, a pause or an unpause of the server goes on to the output.
LEMMA CommandStep ==
  ASSUME IInv, ServerStop \/ ServerUnpause \/ \E b \in BOOLEAN : ServerPause(b)
  PROVE  IInv'
<1>1. PICK kind \in {"Stop", "Pause", "PauseFor", "Resume"} :
        /\ mainPc = "select" /\ ToOutput(kind, NoStream)
        /\ UNCHANGED <<queue, links, clock, sinks, callback, gone, history>>
  BY DEF ServerStop, ServerUnpause, ServerPause, Select
<1>2. UNCHANGED <<queue, conn, auto, timers, spawned, again, output, playing, next_up, life, corked,
                  callback, gone, intent, excused>>
  BY <1>1 DEF links, clock, sinks, history
<1>3. <<kind, NoStream>> \in Jobs \ {Idle}
  BY DEF Jobs, Idle
<1>4. queue' \in Seq(PlayerMsgs) /\ Len(queue') <= QueueCap /\ Once(queue')
  BY <1>2 DEF IInv, TypeOK, FreshInv
<1>5. IF output THEN mainPc' = "output" /\ job' = <<kind, NoStream>> ELSE UNCHANGED loop
  BY <1>1 DEF ToOutput
<1>6. kind \notin {"Decoder", "StreamEstablished", "NotSupported", "Unpause", "Drained"}
  OBVIOUS
<1> QED
  BY <1>1, <1>2, <1>3, <1>4, <1>5, <1>6, TakeUp

\* A new stream.
LEMMA ServerStreamStep ==
  ASSUME IInv, NEW s \in Ids, NEW b \in Autostart[s], ServerStream(s, b)
  PROVE  IInv'
<1>1. /\ conn[s] = "idle" /\ conn' = [conn EXCEPT ![s] = "connect"]
      /\ auto' = [auto EXCEPT ![s] = b] /\ intent' = "free" /\ excused' = FALSE
  BY DEF ServerStream
<1>2. UNCHANGED <<queue, timers, spawned, again, output, playing, next_up, life, corked,
                  callback, mainPc, job, gone>>
  BY DEF ServerStream, clock, sinks, loop
<1>3. /\ conn \in [Ids -> {"idle", "connect", "buffering", "done"} \cup DOMAIN Stage]
      /\ auto \in [Ids -> BOOLEAN] /\ b \in BOOLEAN
  BY PlayerAssumption DEF IInv, TypeOK
<1>4. TypeOK'
  <2>1. conn' \in [Ids -> {"idle", "connect", "buffering", "done"} \cup DOMAIN Stage]
    BY <1>1, <1>3
  <2>2. auto' \in [Ids -> BOOLEAN]
    BY <1>1, <1>3
  <2> QED
    BY <1>1, <1>2, <2>1, <2>2 DEF IInv, TypeOK
<1>5. FreshInv'
  BY <1>1, <1>2, <1>3 DEF IInv, FreshInv
<1>6. QuietInv' /\ StoppedInv' /\ PausedInv'
  BY <1>1 DEF QuietInv, StoppedInv, PausedInv
<1>7. JobInv' /\ PlaceInv' /\ CorkInv' /\ SlotsInOrder'
  BY <1>2 DEF IInv, JobInv, PlaceInv, CorkInv, SlotsInOrder
<1> QED
  BY <1>4, <1>5, <1>6, <1>7 DEF IInv

\* A resume at a time.
LEMMA UnpauseAtStep ==
  ASSUME IInv, ServerUnpauseAt
  PROVE  IInv'
<1>1. /\ spawned < MaxTimers /\ timers' = timers + 1 /\ spawned' = spawned + 1
      /\ intent' = "free" /\ excused' = FALSE
  BY DEF ServerUnpauseAt, SpawnTimer
<1>2. UNCHANGED <<queue, conn, auto, again, output, playing, next_up, life, corked,
                  callback, mainPc, job, gone>>
  BY DEF ServerUnpauseAt, SpawnTimer, links, sinks, loop
<1>3. timers' \in 0 .. MaxTimers /\ spawned' \in timers' .. MaxTimers
  BY <1>1, PlayerAssumption DEF IInv, TypeOK
<1>4. TypeOK'
  BY <1>1, <1>2, <1>3 DEF IInv, TypeOK
<1>5. FreshInv'
  BY <1>2 DEF IInv, FreshInv
<1>6. QuietInv' /\ StoppedInv' /\ PausedInv'
  BY <1>1 DEF QuietInv, StoppedInv, PausedInv
<1>7. JobInv' /\ PlaceInv' /\ CorkInv' /\ SlotsInOrder'
  BY <1>2 DEF IInv, JobInv, PlaceInv, CorkInv, SlotsInOrder
<1> QED
  BY <1>4, <1>5, <1>6, <1>7 DEF IInv

\* The output is replaced or dropped, with its streams.
LEMMA EnableStep ==
  ASSUME IInv, NEW on \in BOOLEAN, ServerEnable(on)
  PROVE  IInv'
<1>1. /\ mainPc = "select" /\ output' = on /\ playing' = NoStream /\ next_up' = NoStream
      /\ life' = [s \in Ids |-> IF life[s] = "none" THEN "none" ELSE "over"]
      /\ intent' = "free" /\ excused' = FALSE
  BY DEF ServerEnable, Select
<1>2. UNCHANGED <<queue, conn, auto, timers, spawned, again, corked, callback, mainPc, job, gone>>
  BY DEF ServerEnable, links, clock, loop
<1>3. job = Idle
  BY <1>1 DEF IInv, JobInv
<1>4. life' \in [Ids -> {"none", "open", "started", "ended", "over"}]
  BY <1>1
<1>5. TypeOK'
  BY <1>1, <1>2, <1>4 DEF IInv, TypeOK
<1>6. \A s \in Ids : (life'[s] = "none") <=> (life[s] = "none")
  BY <1>1
<1>7. job'[1] = "none"
  BY <1>2, <1>3 DEF Idle
<1>8. FreshInv'
  BY <1>2, <1>6, <1>7 DEF IInv, FreshInv
<1>9. CorkInv' /\ PlaceInv'
  BY <1>2, <1>6, <1>7 DEF IInv, CorkInv, PlaceInv
<1>10. SlotsInOrder'
  BY <1>1 DEF SlotsInOrder
<1>11. JobInv'
  BY <1>1, <1>2 DEF IInv, JobInv
<1>12. QuietInv' /\ StoppedInv' /\ PausedInv'
  BY <1>1 DEF QuietInv, StoppedInv, PausedInv
<1> QED
  BY <1>5, <1>8, <1>9, <1>10, <1>11, <1>12 DEF IInv

\* The connection is lost; only the flag changes.
LEMMA LoseServerStep ==
  ASSUME IInv, LoseServer
  PROVE  IInv'
<1>1. UNCHANGED <<queue, conn, auto, timers, spawned, again, output, playing, next_up, life, corked,
                  callback, mainPc, job, intent, excused>>
  BY DEF LoseServer, links, clock, sinks, loop, history
<1>2. gone' \in BOOLEAN
  BY DEF LoseServer
<1>3. TypeOK'
  BY <1>1, <1>2 DEF IInv, TypeOK
<1>4. FreshInv' /\ JobInv' /\ PlaceInv' /\ CorkInv' /\ SlotsInOrder'
  BY <1>1 DEF IInv, FreshInv, JobInv, PlaceInv, CorkInv, SlotsInOrder
<1>5. QuietInv' /\ StoppedInv' /\ PausedInv'
  BY <1>1 DEF IInv, QuietInv, StoppedInv, PausedInv, Sounding, Running
<1> QED
  BY <1>3, <1>4, <1>5 DEF IInv

-----------------------------------------------------------------------------
(* The main thread                                                         *)

\* The next player message: a report, a decoder, or a job for the output.
LEMMA TakeMessageStep ==
  ASSUME IInv, TakeMessage
  PROVE  IInv'
<1> DEFINE m == Head(queue)
<1>1. mainPc = "select" /\ queue # << >> /\ queue' = Tail(queue)
  BY DEF TakeMessage
<1>2. UNCHANGED <<conn, auto, timers, spawned, again, output, playing, next_up, life, corked,
                  callback, gone, intent, excused>>
  BY DEF TakeMessage, links, clock, sinks, history
<1>3. IF m[1] = "Report" THEN UNCHANGED loop ELSE ToOutput(m[1], m[2])
  BY DEF TakeMessage
<1>4. queue \in Seq(PlayerMsgs) /\ Len(queue) \in Nat /\ Len(queue) <= QueueCap
      /\ QueueCap \in Nat /\ Once(queue) /\ job = Idle
  BY <1>1, PlayerAssumption, LenProperties DEF IInv, TypeOK, FreshInv, JobInv
<1>5. /\ queue' \in Seq(PlayerMsgs) /\ Len(queue') = Len(queue) - 1
      /\ m \in PlayerMsgs /\ Has(queue, m)
      /\ \A x : Has(queue', x) => Has(queue, x)
      /\ Once(queue') /\ (m[1] = "Decoder" => ~Has(queue', m))
  BY <1>1, <1>4, TailHas
<1> HIDE DEF m
<1>6. Len(queue') <= QueueCap
  BY <1>4, <1>5
<1>7. /\ m = <<m[1], m[2]>>
      /\ m[1] \in {"Report", "Drained", "Unpause", "Decoder"}
      /\ m[1] = "Decoder" => m[2] \in Ids
      /\ m[1] # "Decoder" => m[2] = NoStream
  BY <1>5, MsgParts
<1>8. CASE m[1] \in {"Unpause", "Drained"}
  <2>1. <<m[1], m[2]>> \in Jobs \ {Idle}
    BY <1>7, <1>8 DEF Jobs, Idle
  <2>2. IF output THEN mainPc' = "output" /\ job' = <<m[1], m[2]>> ELSE UNCHANGED loop
    BY <1>3, <1>8 DEF ToOutput
  <2>3. ~(intent # "free" /\ ~excused)
    BY <1>5, <1>7, <1>8 DEF IInv, QuietInv
  <2>4. m[1] \notin {"Decoder", "StreamEstablished", "NotSupported"}
    BY <1>8
  <2> QED
    BY <1>1, <1>2, <1>5, <1>6, <2>1, <2>2, <2>3, <2>4, TakeUp
<1>9. CASE m[1] = "Report" \/ (m[1] = "Decoder" /\ ~output)
  <2>1. UNCHANGED <<mainPc, job>>
    BY <1>3, <1>9 DEF ToOutput, loop
  <2>2. TypeOK'
    BY <1>2, <1>5, <1>6, <2>1 DEF IInv, TypeOK
  <2>3. FreshInv'
    BY <1>2, <1>5, <2>1 DEF IInv, FreshInv
  <2>4. JobInv' /\ PlaceInv' /\ CorkInv' /\ SlotsInOrder'
    BY <1>2, <2>1 DEF IInv, JobInv, PlaceInv, CorkInv, SlotsInOrder
  <2>5. Sounding' = Sounding
    BY <1>2 DEF Sounding
  <2>6. QuietInv'
    BY <1>2, <1>5, <2>1, <2>5 DEF IInv, QuietInv
  <2>7. StoppedInv' /\ PausedInv'
    BY <1>2, <1>5, <2>1 DEF IInv, StoppedInv, PausedInv, Running
  <2> QED
    BY <2>2, <2>3, <2>4, <2>6, <2>7 DEF IInv
<1>10. CASE m[1] = "Decoder" /\ output
  <2>1. mainPc' = "output" /\ job' = m /\ job'[1] = "Decoder" /\ job'[2] = m[2] /\ m[2] \in Ids
    BY <1>3, <1>7, <1>10 DEF ToOutput
  <2>2. job' \in Jobs /\ job' # Idle
    BY <1>7, <1>10, <2>1 DEF Jobs, Idle
  <2>3. TypeOK'
    BY <1>2, <1>5, <1>6, <2>1, <2>2 DEF IInv, TypeOK
  <2>4. conn[m[2]] = "done" /\ life[m[2]] = "none"
    BY <1>5, <1>7, <1>10 DEF IInv, FreshInv
  <2>5. FreshInv'
    <3>1. \A s \in Ids : Has(queue', <<"Decoder", s>>) => s # m[2]
      BY <1>5, <1>7, <1>10
    <3> QED
      BY <1>2, <1>5, <2>1, <2>4, <3>1 DEF IInv, FreshInv
  <2>6. JobInv'
    BY <1>2, <1>10, <2>1, <2>2 DEF IInv, JobInv
  <2>7. PlaceInv' /\ CorkInv' /\ SlotsInOrder'
    BY <1>2, <2>1 DEF IInv, PlaceInv, CorkInv, SlotsInOrder
  <2>8. QuietInv'
    <3>1. Sounding' = Sounding
      BY <1>2 DEF Sounding
    <3> QED
      BY <1>2, <1>5, <2>1, <3>1 DEF IInv, QuietInv
  <2>9. StoppedInv'
    <3>1. ~(intent = "stopped" /\ ~excused)
      BY <1>5, <1>7, <1>10 DEF IInv, StoppedInv
    <3> QED
      BY <1>2, <3>1 DEF StoppedInv
  <2>10. PausedInv'
    BY <1>1, <1>2 DEF IInv, PausedInv, Running
  <2> QED
    BY <2>3, <2>5, <2>6, <2>7, <2>8, <2>9, <2>10 DEF IInv
<1> QED
  BY <1>7, <1>8, <1>9, <1>10

\* The main thread is done with a job: nothing that names the job is left.
LEMMA ReturnJob ==
  ASSUME Return, IInv, UNCHANGED output
  PROVE  /\ job' = Idle /\ job'[1] = "none" /\ job'[2] = NoStream /\ job' \in Jobs
         /\ mainPc' = "select" /\ JobInv' /\ PlaceInv'
         /\ \A s \in Ids : job'[2] # s
<1>1. job' = Idle /\ mainPc' = "select"
  BY DEF Return
<1>2. job'[1] = "none" /\ job'[2] = NoStream
  BY <1>1 DEF Idle
<1>3. job' \in Jobs
  BY <1>1 DEF Jobs
<1>4. JobInv' /\ PlaceInv'
  BY <1>1, <1>2 DEF JobInv, PlaceInv
<1> QED
  BY <1>1, <1>2, <1>3, <1>4 DEF Ids, NoStream

\* Corking or uncorking the playing stream: only connected streams are touched.
LEMMA CorkPlaying ==
  ASSUME IInv, NEW flag \in BOOLEAN, SetCork(flag), UNCHANGED life
  PROVE  /\ corked' \in [Ids -> BOOLEAN]
         /\ CorkInv'
         /\ \A s \in Ids : s # playing => corked'[s] = corked[s]
         /\ playing \in Ids => corked'[playing] = flag
<1>1. /\ corked' = IF playing = NoStream THEN corked ELSE [corked EXCEPT ![playing] = flag]
      /\ corked \in [Ids -> BOOLEAN] /\ playing \in {NoStream} \cup Ids
      /\ playing # NoStream => life[playing] # "none"
  BY DEF SetCork, IInv, TypeOK, SlotsInOrder
<1>2. NoStream \notin Ids
  BY DEF Ids, NoStream
<1> QED
  BY <1>1, <1>2 DEF IInv, CorkInv

\* After a job that connects nothing, what is known of decoders still holds.
LEMMA FreshAfter ==
  ASSUME IInv, UNCHANGED <<queue, conn>>, \A s \in Ids : job'[2] # s, job'[1] = "none",
         \A s \in Ids : (life'[s] = "none") <=> (life[s] = "none")
  PROVE  FreshInv'
BY DEF IInv, FreshInv

\* Nothing that a set of kinds names is under way.
LEMMA NothingComing ==
  ASSUME IInv, NEW kinds, {"Unpause", "Drained"} \subseteq kinds, ~UnderWay(kinds)
  PROVE  /\ ~Has(queue, <<"Unpause", NoStream>>) /\ ~Has(queue, <<"Drained", NoStream>>)
         /\ callback[1] # "Drained" /\ timers = 0
         /\ Sounding \subseteq {playing}
         /\ "Decoder" \in kinds =>
              \A s \in Ids : conn[s] \in {"idle", "done"} /\ ~Has(queue, <<"Decoder", s>>)
<1>1. ~Coming(kinds) /\ Sounding \subseteq {playing}
  BY DEF UnderWay
<1>2. \A i \in 1 .. Len(queue) : queue[i][1] \notin kinds
  BY <1>1 DEF Coming
<1>3. \A s : \A k \in kinds : ~Has(queue, <<k, s>>)
  <2> SUFFICES ASSUME NEW k \in kinds, NEW s, Has(queue, <<k, s>>) PROVE FALSE
    OBVIOUS
  <2>1. PICK i \in 1 .. Len(queue) : queue[i] = <<k, s>>
    BY DEF Has
  <2>2. queue[i][1] = k
    BY <2>1
  <2> QED
    BY <1>2, <2>2
<1>4. ~(timers > 0) /\ timers \in Nat
  BY <1>1, PlayerAssumption DEF Coming, IInv, TypeOK
<1>5. timers = 0 /\ callback[1] # "Drained"
  BY <1>1, <1>4 DEF Coming
<1>6. "Decoder" \in kinds => \A s \in Ids : conn[s] \in {"idle", "done"}
  BY <1>1 DEF Coming
<1> QED
  BY <1>1, <1>3, <1>5, <1>6

\* The server pauses the output.
LEMMA DoPauseStep ==
  ASSUME IInv, DoPause
  PROVE  IInv'
<1>1. SetCork(TRUE) /\ Return /\ mainPc = "output"
  BY DEF DoPause, Hold
<1>2. UNCHANGED <<queue, conn, auto, timers, spawned, again, output, playing, next_up, life,
                  callback, gone>>
  BY DEF DoPause, links, clock
<1>3. IF playing = NoStream THEN UNCHANGED <<intent, excused>>
      ELSE intent' = "paused" /\ excused' = UnderWay({"Unpause", "Drained"})
  BY DEF DoPause, history
<1>4. /\ job' \in Jobs /\ job'[1] = "none" /\ mainPc' = "select" /\ JobInv' /\ PlaceInv'
      /\ \A s \in Ids : job'[2] # s
  BY <1>1, <1>2, ReturnJob
<1>5. /\ corked' \in [Ids -> BOOLEAN] /\ CorkInv'
      /\ \A s \in Ids : s # playing => corked'[s] = corked[s]
      /\ playing \in Ids => corked'[playing] = TRUE
  BY <1>1, <1>2, CorkPlaying
<1>6. TypeOK'
  <2>1. intent' \in {"free", "paused", "stopped"} /\ excused' \in BOOLEAN
    BY <1>3 DEF IInv, TypeOK, UnderWay, Coming
  <2> QED
    BY <1>2, <1>4, <1>5, <2>1 DEF IInv, TypeOK
<1>7. FreshInv'
  BY <1>2, <1>4, FreshAfter
<1>8. SlotsInOrder'
  BY <1>2 DEF IInv, SlotsInOrder
<1>9. CASE playing = NoStream
  <2>1. \A s \in Ids : corked'[s] = corked[s]
    BY <1>5, <1>9 DEF Ids, NoStream
  <2>2. Sounding' = Sounding
    BY <1>2, <2>1 DEF Sounding
  <2>3. QuietInv'
    BY <1>2, <1>3, <1>4, <1>9, <2>2 DEF IInv, QuietInv
  <2>4. StoppedInv' /\ PausedInv'
    BY <1>1, <1>2, <1>3, <1>4, <1>9 DEF IInv, StoppedInv, PausedInv, Running
  <2> QED
    BY <1>4, <1>5, <1>6, <1>7, <1>8, <2>3, <2>4 DEF IInv
<1>10. CASE playing # NoStream
  <2>1. StoppedInv' /\ PausedInv'
    BY <1>2, <1>3, <1>10 DEF StoppedInv, PausedInv
  <2>2. QuietInv'
    <3> SUFFICES ASSUME ~excused' PROVE QuietInv'
      BY DEF QuietInv
    <3>1. ~UnderWay({"Unpause", "Drained"})
      BY <1>3, <1>10
    <3>2. /\ ~Has(queue, <<"Unpause", NoStream>>) /\ ~Has(queue, <<"Drained", NoStream>>)
          /\ callback[1] # "Drained" /\ timers = 0 /\ Sounding \subseteq {playing}
      BY <3>1, NothingComing
    <3>3. Sounding' = {}
      BY <1>2, <1>5, <3>2 DEF Sounding
    <3> QED
      BY <1>2, <1>4, <3>2, <3>3 DEF QuietInv
  <2> QED
    BY <1>4, <1>5, <1>6, <1>7, <1>8, <2>1, <2>2 DEF IInv
<1> QED
  BY <1>9, <1>10

\* A timed pause, or a resume: the server's word is then that the output plays.
LEMMA DoFreeStep ==
  ASSUME IInv, DoPauseFor \/ DoResume
  PROVE  IInv'
<1>1. PICK flag \in BOOLEAN : SetCork(flag) /\ Return /\ intent' = "free" /\ excused' = FALSE
  BY DEF DoPauseFor, DoResume
<1>2. UNCHANGED <<queue, conn, auto, again, output, playing, next_up, life, callback, gone>>
  BY DEF DoPauseFor, DoResume, SpawnTimer, links, clock
<1>3. \/ UNCHANGED <<timers, spawned>>
      \/ spawned < MaxTimers /\ timers' = timers + 1 /\ spawned' = spawned + 1
  BY DEF DoPauseFor, DoResume, clock, SpawnTimer
<1>4. /\ job' \in Jobs /\ job'[1] = "none" /\ mainPc' = "select" /\ JobInv' /\ PlaceInv'
      /\ \A s \in Ids : job'[2] # s
  BY <1>1, <1>2, ReturnJob
<1>5. corked' \in [Ids -> BOOLEAN] /\ CorkInv'
  BY <1>1, <1>2, CorkPlaying
<1>6. TypeOK'
  <2>1. timers' \in 0 .. MaxTimers /\ spawned' \in timers' .. MaxTimers
    BY <1>3, PlayerAssumption DEF IInv, TypeOK
  <2> QED
    BY <1>1, <1>2, <1>4, <1>5, <2>1 DEF IInv, TypeOK
<1>7. FreshInv'
  BY <1>2, <1>4, FreshAfter
<1>8. SlotsInOrder'
  BY <1>2 DEF IInv, SlotsInOrder
<1>9. QuietInv' /\ StoppedInv' /\ PausedInv'
  BY <1>1 DEF QuietInv, StoppedInv, PausedInv
<1> QED
  BY <1>4, <1>5, <1>6, <1>7, <1>8, <1>9 DEF IInv

\* The output forgets its slots and disconnects the playing stream.
LEMMA StopSlots ==
  ASSUME IInv, StopOutput, UNCHANGED corked
  PROVE  /\ life' \in [Ids -> {"none", "open", "started", "ended", "over"}]
         /\ \A s \in Ids : (life'[s] = "none") <=> (life[s] = "none")
         /\ Sounding' = Sounding \ {playing}
         /\ playing' = NoStream /\ next_up' = NoStream
         /\ SlotsInOrder' /\ CorkInv'
<1>1. /\ life' = [s \in Ids |-> IF s = playing THEN "over" ELSE life[s]]
      /\ playing' = NoStream /\ next_up' = NoStream
      /\ life \in [Ids -> {"none", "open", "started", "ended", "over"}]
      /\ playing # NoStream => life[playing] # "none"
  BY DEF StopOutput, IInv, TypeOK, SlotsInOrder
<1>2. NoStream \notin Ids
  BY DEF Ids, NoStream
<1>3. \A s \in Ids : (life'[s] = "none") <=> (life[s] = "none")
  BY <1>1, <1>2
<1>4. Sounding' = Sounding \ {playing}
  BY <1>1 DEF Sounding
<1>5. SlotsInOrder'
  BY <1>1 DEF SlotsInOrder
<1>6. CorkInv'
  BY <1>3 DEF IInv, CorkInv
<1>7. life' \in [Ids -> {"none", "open", "started", "ended", "over"}]
  BY <1>1
<1> QED
  BY <1>1, <1>3, <1>4, <1>5, <1>6, <1>7

\* The server stops the output.
LEMMA DoStopStep ==
  ASSUME IInv, DoStop
  PROVE  IInv'
<1> DEFINE kinds == {"Unpause", "Drained", "Decoder"}
<1>1. StopOutput /\ Return /\ intent' = "stopped" /\ excused' = UnderWay(kinds)
  BY DEF DoStop
<1>2. UNCHANGED <<queue, conn, auto, timers, spawned, again, output, corked, callback, gone>>
  BY DEF DoStop, links, clock
<1>3. /\ job' \in Jobs /\ job'[1] = "none" /\ mainPc' = "select" /\ JobInv' /\ PlaceInv'
      /\ \A s \in Ids : job'[2] # s
  BY <1>1, <1>2, ReturnJob
<1>4. /\ life' \in [Ids -> {"none", "open", "started", "ended", "over"}]
      /\ \A s \in Ids : (life'[s] = "none") <=> (life[s] = "none")
      /\ Sounding' = Sounding \ {playing}
      /\ playing' = NoStream /\ next_up' = NoStream
      /\ SlotsInOrder' /\ CorkInv'
  BY <1>1, <1>2, StopSlots
<1>5. TypeOK'
  <2>1. excused' \in BOOLEAN
    BY <1>1 DEF UnderWay, Coming
  <2> QED
    BY <1>1, <1>2, <1>3, <1>4, <2>1 DEF IInv, TypeOK
<1>6. FreshInv'
  BY <1>2, <1>3, <1>4, FreshAfter
<1>7. QuietInv' /\ StoppedInv'
  <2> SUFFICES ASSUME ~excused' PROVE QuietInv' /\ StoppedInv'
    BY DEF QuietInv, StoppedInv
  <2>1. ~UnderWay(kinds)
    BY <1>1
  <2>2. /\ ~Has(queue, <<"Unpause", NoStream>>) /\ ~Has(queue, <<"Drained", NoStream>>)
        /\ callback[1] # "Drained" /\ timers = 0
        /\ Sounding \subseteq {playing}
        /\ \A s \in Ids : conn[s] \in {"idle", "done"} /\ ~Has(queue, <<"Decoder", s>>)
    BY <2>1, NothingComing
  <2>3. Sounding' = {}
    BY <1>4, <2>2
  <2>4. QuietInv'
    BY <1>2, <1>3, <2>2, <2>3 DEF QuietInv
  <2>5. StoppedInv'
    BY <1>2, <1>3, <1>4, <2>2 DEF StoppedInv
  <2> QED
    BY <2>4, <2>5
<1>8. PausedInv'
  BY <1>1 DEF PausedInv
<1> QED
  BY <1>3, <1>4, <1>5, <1>6, <1>7, <1>8 DEF IInv

\* A timer's unpause: none is taken up after an unexcused word.
LEMMA DoUnpauseStep ==
  ASSUME IInv, DoUnpause
  PROVE  IInv'
<1>1. SetCork(FALSE) /\ Return /\ job[1] = "Unpause"
  BY DEF DoUnpause, Hold
<1>2. UNCHANGED <<queue, conn, auto, timers, spawned, again, output, playing, next_up, life,
                  callback, gone, intent, excused>>
  BY DEF DoUnpause, links, clock, history
<1>3. /\ job' \in Jobs /\ job'[1] = "none" /\ mainPc' = "select" /\ JobInv' /\ PlaceInv'
      /\ \A s \in Ids : job'[2] # s
  BY <1>1, <1>2, ReturnJob
<1>4. corked' \in [Ids -> BOOLEAN] /\ CorkInv'
  BY <1>1, <1>2, CorkPlaying
<1>5. TypeOK'
  BY <1>2, <1>3, <1>4 DEF IInv, TypeOK
<1>6. FreshInv'
  BY <1>2, <1>3, FreshAfter
<1>7. SlotsInOrder'
  BY <1>2 DEF IInv, SlotsInOrder
<1>8. ~(intent # "free" /\ ~excused)
  BY <1>1 DEF IInv, QuietInv
<1>9. QuietInv' /\ StoppedInv' /\ PausedInv'
  BY <1>2, <1>8 DEF QuietInv, StoppedInv, PausedInv
<1> QED
  BY <1>3, <1>4, <1>5, <1>6, <1>7, <1>9 DEF IInv

\* The playing stream has drained and the next one takes its place.
LEMMA DoShiftStep ==
  ASSUME IInv, DoShift
  PROVE  IInv'
<1>1. /\ Return /\ job[1] = "Drained" /\ playing' = next_up /\ next_up' = NoStream
      /\ corked' = IF next_up = NoStream THEN corked ELSE [corked EXCEPT ![next_up] = FALSE]
  BY DEF DoShift, Hold
<1>2. UNCHANGED <<queue, conn, auto, timers, spawned, again, output, life, callback, gone,
                  intent, excused>>
  BY DEF DoShift, links, clock, history
<1>3. /\ job' \in Jobs /\ job'[1] = "none" /\ mainPc' = "select" /\ JobInv' /\ PlaceInv'
      /\ \A s \in Ids : job'[2] # s
  BY <1>1, <1>2, ReturnJob
<1>4. /\ corked \in [Ids -> BOOLEAN] /\ next_up \in {NoStream} \cup Ids
      /\ next_up # NoStream => life[next_up] # "none"
  BY DEF IInv, TypeOK, SlotsInOrder
<1>5. corked' \in [Ids -> BOOLEAN] /\ CorkInv'
  BY <1>1, <1>2, <1>4 DEF IInv, CorkInv
<1>6. TypeOK'
  BY <1>1, <1>2, <1>3, <1>5 DEF IInv, TypeOK
<1>7. FreshInv'
  BY <1>2, <1>3, FreshAfter
<1>8. SlotsInOrder'
  BY <1>1, <1>2, <1>4 DEF IInv, SlotsInOrder
<1>9. ~(intent # "free" /\ ~excused)
  BY <1>1 DEF IInv, QuietInv
<1>10. QuietInv' /\ StoppedInv' /\ PausedInv'
  BY <1>2, <1>9 DEF QuietInv, StoppedInv, PausedInv
<1> QED
  BY <1>3, <1>5, <1>6, <1>7, <1>8, <1>10 DEF IInv

\* The output connects a new stream, corked, or refuses it.
LEMMA DoConnectStep ==
  ASSUME IInv, NEW ok \in Outcomes, DoConnect(ok)
  PROVE  IInv'
<1> DEFINE s == job[2]
<1>1. mainPc = "output" /\ job[1] = "Decoder"
  BY DEF DoConnect, Hold
<1>2. UNCHANGED <<queue, conn, auto, timers, spawned, again, output, playing, next_up, corked,
                  callback, gone, intent, excused>>
  BY DEF DoConnect, links, clock, history
<1>3. /\ s \in Ids /\ life[s] = "none" /\ conn[s] = "done" /\ output
      /\ ~Has(queue, <<"Decoder", s>>)
  BY <1>1, JobParts DEF IInv, TypeOK, FreshInv, JobInv
<1>4. /\ life \in [Ids -> {"none", "open", "started", "ended", "over"}]
      /\ ok \in BOOLEAN
  BY PlayerAssumption DEF IInv, TypeOK
<1>5. CASE Return /\ UNCHANGED life
  <2>1. /\ job' \in Jobs /\ job'[1] = "none" /\ mainPc' = "select" /\ JobInv' /\ PlaceInv'
        /\ \A r \in Ids : job'[2] # r
    BY <1>2, <1>5, ReturnJob
  <2>2. TypeOK'
    BY <1>2, <1>5, <2>1 DEF IInv, TypeOK
  <2>3. FreshInv'
    BY <1>2, <1>5, <2>1, FreshAfter
  <2>4. SlotsInOrder' /\ CorkInv'
    BY <1>2, <1>5 DEF IInv, SlotsInOrder, CorkInv
  <2>5. Sounding' = Sounding
    BY <1>2, <1>5 DEF Sounding
  <2>6. QuietInv'
    BY <1>2, <2>1, <2>5 DEF IInv, QuietInv
  <2>7. StoppedInv' /\ PausedInv'
    BY <1>1, <1>2, <2>1 DEF IInv, StoppedInv, PausedInv, Running
  <2> QED
    BY <2>1, <2>2, <2>3, <2>4, <2>6, <2>7 DEF IInv
<1>6. CASE /\ life' = IF ok THEN [life EXCEPT ![s] = "open"] ELSE life
           /\ mainPc' = "tell"
           /\ job' = <<IF ok THEN "StreamEstablished" ELSE "NotSupported", s>>
  <2>1. /\ job'[2] = s /\ job'[1] = (IF ok THEN "StreamEstablished" ELSE "NotSupported")
        /\ job' \in Jobs
    BY <1>3, <1>6 DEF Jobs
  <2>2. /\ life' \in [Ids -> {"none", "open", "started", "ended", "over"}]
        /\ \A r \in Ids : r # s => life'[r] = life[r]
        /\ ok => life'[s] = "open"
    BY <1>3, <1>4, <1>6
  <2> HIDE DEF s
  <2>3. TypeOK'
    BY <1>2, <1>6, <2>1, <2>2 DEF IInv, TypeOK
  <2>4. FreshInv'
    <3>1. \A r \in Ids : Has(queue', <<"Decoder", r>>) \/ conn'[r] # "done" => r # s
      BY <1>2, <1>3
    <3> QED
      BY <1>2, <2>1, <2>2, <3>1 DEF IInv, FreshInv
  <2>5. JobInv'
    BY <1>2, <1>3, <1>6, <2>1 DEF JobInv
  <2>6. playing # s /\ next_up # s
    BY <1>3 DEF IInv, SlotsInOrder, Ids, NoStream
  <2>7. PlaceInv'
    BY <1>2, <2>1, <2>2, <2>6 DEF PlaceInv
  <2>8. SlotsInOrder'
    <3>1. \A r \in {playing, next_up} \ {NoStream} : r \in Ids /\ r # s
      BY <2>6 DEF IInv, TypeOK
    <3> QED
      BY <1>2, <2>2, <3>1 DEF IInv, SlotsInOrder
  <2>9. corked[s]
    BY <1>3 DEF IInv, CorkInv
  <2>10. CorkInv'
    BY <1>2, <2>2, <2>9 DEF IInv, CorkInv
  <2>11. Sounding' = Sounding
    BY <1>2, <1>3, <2>2, <2>9 DEF Sounding
  <2>12. QuietInv'
    BY <1>2, <2>1, <2>11 DEF IInv, QuietInv
  <2>13. StoppedInv'
    BY <1>1, <1>2 DEF IInv, StoppedInv
  <2>14. PausedInv'
    BY <1>1, <1>2 DEF IInv, PausedInv, Running
  <2> QED
    BY <2>3, <2>4, <2>5, <2>7, <2>8, <2>10, <2>12, <2>13, <2>14 DEF IInv
<1> QED
  BY <1>5, <1>6 DEF DoConnect

\* The main thread posts what became of the stream.
LEMMA TellStep ==
  ASSUME IInv, Tell
  PROVE  IInv'
<1>1. mainPc = "tell" /\ Post(job[1], job[2])
  BY DEF Tell
<1>2. UNCHANGED <<conn, auto, timers, spawned, again, output, playing, next_up, life, corked,
                  callback, gone, intent, excused>>
  BY DEF Tell, links, clock, sinks, history
<1>3. job[1] \in {"StreamEstablished", "NotSupported"} /\ job[2] \in Ids \cup {NoStream}
  BY <1>1, JobParts DEF IInv, JobInv, TypeOK
<1>4. /\ queue' \in Seq(PlayerMsgs) /\ Len(queue') <= QueueCap
      /\ Once(queue')
      /\ \A r \in Ids : Has(queue', <<"Decoder", r>>) <=> Has(queue, <<"Decoder", r>>)
      /\ \A k \in {"Unpause", "Drained"} :
           Has(queue', <<k, NoStream>>) <=> (Has(queue, <<k, NoStream>>) \/ k = job[1])
  BY <1>1, <1>3, PostOther DEF Reported
<1>5. Sounding' = Sounding
  BY <1>2 DEF Sounding
<1>6. SlotsInOrder' /\ CorkInv'
  BY <1>2 DEF IInv, SlotsInOrder, CorkInv
<1>7. CASE Return
  <2>1. /\ job' \in Jobs /\ job'[1] = "none" /\ mainPc' = "select" /\ JobInv' /\ PlaceInv'
        /\ \A r \in Ids : job'[2] # r
    BY <1>2, <1>7, ReturnJob
  <2>2. TypeOK'
    BY <1>2, <1>4, <2>1 DEF IInv, TypeOK
  <2>3. FreshInv'
    BY <1>2, <1>4, <2>1 DEF IInv, FreshInv
  <2>4. QuietInv'
    BY <1>2, <1>3, <1>4, <1>5, <2>1 DEF IInv, QuietInv
  <2>5. StoppedInv' /\ PausedInv'
    BY <1>1, <1>2, <1>4, <2>1 DEF IInv, StoppedInv, PausedInv, Running
  <2> QED
    BY <1>6, <2>1, <2>2, <2>3, <2>4, <2>5 DEF IInv
<1>8. CASE job[1] = "StreamEstablished" /\ mainPc' = "place" /\ UNCHANGED job
  <2>1. TypeOK'
    BY <1>2, <1>4, <1>8 DEF IInv, TypeOK
  <2>2. FreshInv'
    BY <1>2, <1>4, <1>8 DEF IInv, FreshInv
  <2>3. JobInv' /\ PlaceInv'
    BY <1>1, <1>2, <1>8 DEF IInv, JobInv, PlaceInv
  <2>4. QuietInv'
    BY <1>2, <1>3, <1>4, <1>5, <1>8 DEF IInv, QuietInv
  <2>5. StoppedInv' /\ PausedInv'
    BY <1>1, <1>2, <1>4, <1>8 DEF IInv, StoppedInv, PausedInv, Running
  <2> QED
    BY <1>6, <2>1, <2>2, <2>3, <2>4, <2>5 DEF IInv
<1> QED
  BY <1>7, <1>8 DEF Tell

\* The stream takes a slot.  After an unexcused pause the slot of the playing
\* stream is taken, so the new one is not started.
LEMMA PlaceStep ==
  ASSUME IInv, Place
  PROVE  IInv'
<1> DEFINE s == job[2]
<1>1. /\ mainPc = "place" /\ Return
      /\ playing' = IF playing = NoStream THEN s ELSE playing
      /\ next_up' = IF playing = NoStream THEN next_up ELSE s
      /\ corked' = IF StartsAtOnce(s) THEN [corked EXCEPT ![s] = FALSE] ELSE corked
  BY DEF Place
<1>2. UNCHANGED <<queue, conn, auto, timers, spawned, again, output, life, callback, gone,
                  intent, excused>>
  BY DEF Place, links, clock, history
<1>3. job[1] = "StreamEstablished" /\ output
  BY <1>1 DEF IInv, JobInv
<1>4. s \in Ids /\ life[s] # "none" /\ playing # s /\ next_up # s
  BY <1>3, JobParts DEF IInv, TypeOK, PlaceInv
<1> HIDE DEF s
<1>5. /\ job' \in Jobs /\ job'[1] = "none" /\ mainPc' = "select" /\ JobInv' /\ PlaceInv'
      /\ \A r \in Ids : job'[2] # r
  BY <1>1, <1>2, ReturnJob
<1>6. corked \in [Ids -> BOOLEAN]
  BY DEF IInv, TypeOK
<1>7. corked' \in [Ids -> BOOLEAN] /\ CorkInv'
  BY <1>1, <1>2, <1>4, <1>6 DEF IInv, CorkInv
<1>8. TypeOK'
  <2>1. playing' \in {NoStream} \cup Ids /\ next_up' \in {NoStream} \cup Ids
    BY <1>1, <1>4 DEF IInv, TypeOK
  <2> QED
    BY <1>2, <1>5, <1>7, <2>1 DEF IInv, TypeOK
<1>9. FreshInv'
  BY <1>2, <1>5, FreshAfter
<1>10. SlotsInOrder'
  BY <1>1, <1>2, <1>3, <1>4 DEF IInv, SlotsInOrder
<1>11. StoppedInv'
  BY <1>2, <1>3 DEF IInv, StoppedInv
<1>12. PausedInv'
  BY <1>1, <1>2 DEF IInv, PausedInv, Running
<1>13. QuietInv'
  <2> SUFFICES ASSUME intent # "free", ~excused PROVE QuietInv'
    BY <1>2 DEF QuietInv
  <2>1. intent = "paused"
    BY <1>3 DEF IInv, TypeOK, StoppedInv
  <2>2. playing # NoStream
    BY <1>1, <2>1 DEF IInv, PausedInv, Running
  <2>3. UNCHANGED corked
    BY <1>1, <2>2 DEF StartsAtOnce
  <2>4. Sounding' = Sounding
    BY <1>2, <2>3 DEF Sounding
  <2> QED
    BY <1>2, <1>5, <2>4 DEF IInv, QuietInv
<1> QED
  BY <1>5, <1>7, <1>8, <1>9, <1>10, <1>11, <1>12, <1>13 DEF IInv

\* The main thread hears of the loss: it leaves, or stops the output first.
LEMMA HearLossStep ==
  ASSUME IInv, HearLoss
  PROVE  IInv'
<1>1. mainPc = "select"
  BY DEF HearLoss
<1>2. UNCHANGED <<conn, auto, timers, spawned, again, output, playing, next_up, life, corked,
                  callback, gone, intent, excused>>
  BY DEF HearLoss, links, clock, sinks, history
<1>3. job = Idle
  BY <1>1 DEF IInv, JobInv
<1>4. CASE output
  <2>1. mainPc' = "output" /\ job' = <<"Leave", NoStream>> /\ UNCHANGED queue
    BY <1>4 DEF HearLoss
  <2>2. <<"Leave", NoStream>> \in Jobs \ {Idle}
    BY DEF Jobs, Idle
  <2>3. queue' \in Seq(PlayerMsgs) /\ Len(queue') <= QueueCap /\ Once(queue')
    BY <2>1 DEF IInv, TypeOK, FreshInv
  <2> QED
    BY <1>1, <1>2, <1>4, <2>1, <2>2, <2>3, TakeUp
<1>5. CASE ~output
  <2>1. mainPc' = "exit" /\ queue' = << >> /\ UNCHANGED job
    BY <1>5 DEF HearLoss
  <2>2. TypeOK'
    <3>1. queue' \in Seq(PlayerMsgs) /\ Len(queue') <= QueueCap
      BY <2>1, EmptyHas, PlayerAssumption
    <3> QED
      BY <1>2, <2>1, <3>1 DEF IInv, TypeOK
  <2>3. FreshInv'
    BY <1>2, <2>1, EmptyHas DEF IInv, FreshInv
  <2>4. JobInv' /\ PlaceInv' /\ SlotsInOrder' /\ CorkInv'
    BY <1>2, <1>3, <2>1 DEF IInv, JobInv, PlaceInv, SlotsInOrder, CorkInv
  <2>5. Sounding' = Sounding
    BY <1>2 DEF Sounding
  <2>6. QuietInv' /\ StoppedInv'
    BY <1>2, <2>1, <2>5, EmptyHas DEF IInv, QuietInv, StoppedInv
  <2>7. PausedInv'
    BY <2>1 DEF PausedInv, Running
  <2> QED
    BY <2>2, <2>3, <2>4, <2>6, <2>7 DEF IInv
<1> QED
  BY <1>4, <1>5

\* The output is stopped and the loop left.
LEMMA DoLeaveStep ==
  ASSUME IInv, DoLeave
  PROVE  IInv'
<1>1. StopOutput /\ mainPc' = "exit" /\ queue' = << >> /\ job' = Idle
  BY DEF DoLeave
<1>2. UNCHANGED <<conn, auto, timers, spawned, again, output, corked, callback, gone, intent, excused>>
  BY DEF DoLeave, links, clock, history
<1>3. /\ life' \in [Ids -> {"none", "open", "started", "ended", "over"}]
      /\ \A s \in Ids : (life'[s] = "none") <=> (life[s] = "none")
      /\ Sounding' = Sounding \ {playing}
      /\ playing' = NoStream /\ next_up' = NoStream
      /\ SlotsInOrder' /\ CorkInv'
  BY <1>1, <1>2, StopSlots
<1>4. job'[1] = "none" /\ job' \in Jobs /\ \A s \in Ids : job'[2] # s
  BY <1>1 DEF Idle, Jobs, Ids, NoStream
<1>5. TypeOK'
  <2>1. queue' \in Seq(PlayerMsgs) /\ Len(queue') <= QueueCap
    BY <1>1, EmptyHas, PlayerAssumption
  <2> QED
    BY <1>1, <1>2, <1>3, <1>4, <2>1 DEF IInv, TypeOK
<1>6. FreshInv'
  BY <1>1, <1>2, <1>3, <1>4, EmptyHas DEF IInv, FreshInv
<1>7. JobInv' /\ PlaceInv'
  BY <1>1, <1>4 DEF JobInv, PlaceInv
<1>8. QuietInv' /\ StoppedInv'
  BY <1>1, <1>2, <1>3, <1>4, EmptyHas DEF IInv, QuietInv, StoppedInv
<1>9. PausedInv'
  BY <1>1 DEF PausedInv, Running
<1> QED
  BY <1>3, <1>5, <1>6, <1>7, <1>8, <1>9 DEF IInv

-----------------------------------------------------------------------------
(* The theorems                                                            *)

\* Every step keeps the invariant.
LEMMA StepIInv == IInv /\ [Next]_vars => IInv'
<1> SUFFICES ASSUME IInv, [Next]_vars PROVE IInv'
  OBVIOUS
<1>1. CASE FromServer
  <2>1. CASE ServerStop \/ ServerUnpause \/ \E b \in BOOLEAN : ServerPause(b)
    BY <2>1, CommandStep
  <2>2. CASE ServerUnpauseAt
    BY <2>2, UnpauseAtStep
  <2>3. CASE LoseServer
    BY <2>3, LoseServerStep
  <2>4. CASE \E b \in BOOLEAN : ServerEnable(b)
    BY <2>4, EnableStep
  <2>5. CASE \E s \in Ids : \E b \in Autostart[s] : ServerStream(s, b)
    BY <2>5, ServerStreamStep
  <2> QED
    BY <1>1, <2>1, <2>2, <2>3, <2>4, <2>5 DEF FromServer
<1>2. CASE Main
  <2>1. CASE DoPauseFor \/ DoResume
    BY <2>1, DoFreeStep
  <2>2. CASE \E ok \in Outcomes : DoConnect(ok)
    BY <2>2, DoConnectStep
  <2> QED
    BY <1>2, <2>1, <2>2, TakeMessageStep, DoPauseStep, DoStopStep, DoUnpauseStep,
       DoShiftStep, TellStep, PlaceStep, HearLossStep, DoLeaveStep DEF Main
<1>3. CASE TimerFires
  BY <1>3, TimerStep
<1>4. CASE Calling
  BY <1>4, PostCallbackStep, AnnounceStep DEF Calling
<1>5. CASE \E s \in Ids : Opening(s)
  BY <1>5, PostStageStep, ConnectStep DEF Opening
<1>6. CASE Rest \/ UNCHANGED vars
  <2>1. UNCHANGED <<queue, conn, auto, timers, spawned, again, output, playing, next_up, life, corked,
                    callback, mainPc, job, gone, intent, excused>>
    BY <1>6 DEF Rest, vars, links, clock, sinks, loop, history
  <2>2. TypeOK'
    BY <2>1 DEF IInv, TypeOK
  <2>3. FreshInv' /\ JobInv' /\ PlaceInv' /\ CorkInv' /\ SlotsInOrder'
    BY <2>1 DEF IInv, FreshInv, JobInv, PlaceInv, CorkInv, SlotsInOrder
  <2>4. QuietInv' /\ StoppedInv' /\ PausedInv'
    BY <2>1 DEF IInv, QuietInv, StoppedInv, PausedInv, Sounding, Running
  <2> QED
    BY <2>2, <2>3, <2>4 DEF IInv
<1> QED
  BY <1>1, <1>2, <1>3, <1>4, <1>5, <1>6 DEF Next

\* The invariant holds throughout.
LEMMA Invariant == Spec => []IInv
BY InitIInv, StepIInv, PTL DEF Spec

\* Types; the queue of player messages never exceeds its capacity, although
\* timers, stream threads, callbacks and the loop itself post to it.
THEOREM TypeCorrect == Spec => []TypeOK
<1>1. IInv => TypeOK
  BY DEF IInv
<1> QED
  BY Invariant, <1>1, PTL

\* The slots of the output stay in order: next_up waits only behind a playing
\* stream, the two differ and are connected, and both go with the output,
\* however decoders, ends of track, stops and new outputs follow one another.
THEOREM SlotsInOrderHolds == Spec => []SlotsInOrder
<1>1. IInv => SlotsInOrder
  BY DEF IInv
<1> QED
  BY Invariant, <1>1, PTL

\* A pause or a stop of the server holds until its next word, unless something
\* that undoes it was under way when it was given: a timer, an unfinished stream
\* start, an announced end, or a stream that sounds on after its Drained has
\* taken it out of its slot (pulse_out.rs:353 and :393), which may announce its
\* end once more.
THEOREM WordHoldsHolds == Spec => []WordHolds
<1>1. IInv => WordHolds
  BY DEF IInv, QuietInv, WordHolds
<1> QED
  BY Invariant, <1>1, PTL
=============================================================================
