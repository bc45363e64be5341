-------------------------- MODULE PipewireOutProofs --------------------------
(***************************************************************************)
(* PipewireOut keeps its promises for any number of streams, tracks of any *)
(* length, and PipeWire buffers, queues and skips of any size: one         *)
(* inductive invariant carries the safety properties, the action property  *)
(* about the elapsed time, and the implementation of AudioOutput.          *)
(***************************************************************************)
EXTENDS PipewireOut, SequenceTheorems, TLAPS

-----------------------------------------------------------------------------
(* The inductive invariant                                                 *)

Held == {"connecting", "ready", "error"}

\* Streams go through the slots in the order in which they were handed over; a
\* stream is in a slot exactly from its connection to its end.
SlotInv ==
  /\ playing = NoStream => next_up = NoStream
  /\ next_up # NoStream => playing < next_up
  /\ opening # NoStream => playing < opening /\ next_up < opening
  /\ \A r, s \in Ids : r < s /\ stream[s].conn # "none" => stream[r].conn # "none"
  /\ \A s \in Ids : s \in {playing, next_up, opening} <=> stream[s].conn \in Held

\* A callback under way is one of the playing stream.
ProcInv ==
  /\ proc.pc = "idle" => proc.s = NoStream
  /\ proc.pc # "idle" => proc.s = playing /\ playing # NoStream /\ stream[playing].conn = "ready"

\* A stream that drains has nothing left to decode or to hand over, and none
\* of this begins before it is connected.
AudioOK(st) ==
  /\ st.conn # "ready" => st.state = "Running" /\ st.drain = "no" /\ ~st.running
  /\ st.state = "Draining" => st.left = 0
  /\ st.drain # "no" => st.left = 0 /\ st.audioBuf = 0 /\ st.state = "Draining"
  /\ st.drain = "done" => st.level = 0

AudioInv == \A s \in Ids : AudioOK(stream[s])

\* When on_process is through with its decode loop an empty buffer means that
\* the decoder has ended.
FinishInv ==
  proc.pc = "finish" =>
    LET st == stream[proc.s] IN
    /\ proc.eod => st.left = 0
    /\ st.audioBuf = 0 => proc.eod

\* What has been told of a stream, and what has not been yet.
ToldOK(st, t) ==
  /\ t.gone <=> st.conn = "gone"
  /\ st.conn = "none" => t = Abstract!Silent
  /\ st.conn = "connecting" => t.start = 0
  /\ st.conn = "ready" => t.start = 1
  /\ st.conn \in {"connecting", "ready"} /\ st.state = "Running" => t.eod = 0 /\ ~t.drained
  /\ st.state = "Draining" => t.eod = 1 \/ t.bad

ToldInv == \A s \in Ids : ToldOK(stream[s], told[s])

\* The anchor and the offset of the elapsed time: it never falls behind what
\* was reported, and never runs ahead of what is due.
TimeInv ==
  /\ duration <= skip_offset + (IF start_ticks = NoTicks THEN 0 ELSE clock - start_ticks)
  /\ start_ticks <= clock
  /\ playing = NoStream => duration = 0 /\ skip_offset = 0 /\ start_ticks = NoTicks /\ ~late

DueInv ==
  playing # NoStream /\ ~late =>
    /\ start_ticks # NoTicks => stream[playing].active
    /\ skip_offset + (IF start_ticks = NoTicks THEN 0 ELSE clock - start_ticks) <= due[playing]
    /\ proc.pc # "idle" => stream[playing].active

IInv ==
  /\ OutputOK /\ SlotInv /\ ProcInv /\ OneAtATime
  /\ AudioInv /\ FinishInv /\ ToldInv /\ TimeInv /\ DueInv

\* What main is doing says whether a stream is on its way into a slot, and
\* whether there is one to pause or to resume.  This, and what the queue holds,
\* is an invariant by itself.
JobInv ==
  /\ opening # NoStream <=> job \in {"auto", "manual"}
  /\ job \in {"pause", "unpause"} => playing # NoStream

MInv == MainOK /\ JobInv

-----------------------------------------------------------------------------
(* The queue and the jobs                                                  *)

\* Messages may be posted for which there is room.
LEMMA Posted ==
  ASSUME MInv, NEW m \in Seq({"drained", "other"}), Room(m)
  PROVE  queue \o m \in Seq({"drained", "other"}) /\ Len(queue \o m) <= QueueCap
BY ConcatProperties DEF MInv, MainOK, Room

\* The same of one message.
LEMMA PostedOne ==
  ASSUME MInv, NEW m \in {"drained", "other"}, Room(<<m>>)
  PROVE  Append(queue, m) \in Seq({"drained", "other"}) /\ Len(Append(queue, m)) <= QueueCap
<1>1. Len(queue) + 1 <= QueueCap
  BY DEF Room
<1> QED
  BY <1>1, AppendProperties DEF MInv, MainOK

\* What main posts when streams leave.
LEMMA LeftFacts ==
  \A r, s : Left(r) \in Seq({"drained", "other"}) /\ Left(r) \o Left(s) \in Seq({"drained", "other"})
<1>1. \A s : Left(s) \in Seq({"drained", "other"})
  BY DEF Left
<1> QED
  BY <1>1, ConcatProperties

\* Every step of the main thread keeps it.
LEMMA MainStep ==
  ASSUME MInv, Main
  PROVE  MInv'
<1> USE DEF Jobs, Commands
<1>1. job \in Jobs /\ sending \in {"none", "drained", "other"} /\ queue \in Seq({"drained", "other"})
  BY DEF MInv, MainOK
<1>2. ASSUME NEW kind \in Commands \cup {"open"}, Ask(kind)
      PROVE  MInv'
  BY <1>2 DEF Ask, MInv, MainOK, JobInv, MainFree, slots, queues
<1>3. CASE TakeMessage
  <2>1. queue' \in Seq({"drained", "other"}) /\ Len(queue') <= QueueCap
    BY <1>1, <1>3, PipewireOutAssumption, HeadTailProperties DEF TakeMessage, MInv, MainOK
  <2> QED
    BY <1>3, <2>1 DEF TakeMessage, MInv, MainOK, JobInv, MainFree, slots
<1>4. ASSUME NEW s \in Ids, NEW track \in Tracks[s], OpenStream(s, track[1], track[2])
      PROVE  MInv'
  <2>1. s # NoStream
    BY DEF Ids, NoStream
  <2> QED
    BY <1>4, <2>1 DEF OpenStream, MInv, MainOK, JobInv, queues
<1>5. CASE Refuse
  BY <1>5, PostedOne DEF Refuse, MInv, MainOK, JobInv, slots
<1>6. CASE Establish
  BY <1>6, PostedOne DEF Establish, MInv, MainOK, JobInv, slots
<1>7. CASE Enqueue
  <2>1. queue' \in Seq({"drained", "other"}) /\ Len(queue') <= QueueCap
    BY <1>7, Posted, LeftFacts DEF Enqueue
  <2> QED
    BY <1>7, <2>1 DEF Enqueue, MInv, MainOK, JobInv
<1>8. CASE Pause \/ Unpause
  BY <1>8 DEF Pause, Unpause, MInv, MainOK, JobInv, slots, queues
<1>9. CASE Stop
  <2>1. queue' \in Seq({"drained", "other"}) /\ Len(queue') <= QueueCap
    BY <1>9, Posted, LeftFacts DEF Stop
  <2> QED
    BY <1>9, <2>1 DEF Stop, MInv, MainOK, JobInv
<1>10. CASE Shift
  <2>1. queue' \in Seq({"drained", "other"}) /\ Len(queue') <= QueueCap
    BY <1>10, Posted, LeftFacts DEF Shift
  <2> QED
    BY <1>10, <2>1 DEF Shift, MInv, MainOK, JobInv
<1>11. CASE OnSkip
  BY <1>11 DEF OnSkip, MInv, MainOK, JobInv, slots, queues
<1> QED
  BY <1>2, <1>3, <1>4, <1>5, <1>6, <1>7, <1>8, <1>9, <1>10, <1>11 DEF Main, Working

\* And so does every other step.
LEMMA MainInvStep ==
  ASSUME MInv, [Next]_vars
  PROVE  MInv'
<1>1. CASE Main
  BY <1>1, MainStep
<1>2. CASE PostCallback
  BY <1>2, PostedOne DEF PostCallback, MInv, MainOK, JobInv, slots
<1>3. CASE OtherMessage
  BY <1>3, PostedOne DEF OtherMessage, MInv, MainOK, JobInv, slots
<1>4. ASSUME NEW s \in Ids,
             Process(s) \/ OnConnected(s) \/ OnError(s) \/ StreamDrained(s) \/ Follow(s) \/ Play(s)
      PROVE  MInv'
  <2>1. UNCHANGED <<slots, job, queue>>
    BY <1>4 DEF Process, BeginProcess, TurnAgain, Turn, FinishProcess, OnConnected, OnError, StreamDrained,
                Follow, Play, queues
  <2>2. sending' \in {sending, "none", "drained", "other"}
    BY <1>4 DEF Process, BeginProcess, TurnAgain, Turn, FinishProcess, OnConnected, OnError, StreamDrained,
                Follow, Play, queues
  <2> QED
    BY <2>1, <2>2 DEF MInv, MainOK, JobInv, slots
<1>5. CASE Idle \/ UNCHANGED vars
  BY <1>5 DEF Idle, MInv, MainOK, JobInv, vars, slots, queues
<1> QED
  BY <1>1, <1>2, <1>3, <1>4, <1>5 DEF Next

-----------------------------------------------------------------------------
(* Facts about single streams                                              *)

\* A stream that has left the output.
LEMMA GoneFacts ==
  /\ Gone \in Stream /\ AudioOK(Gone) /\ Gone.conn = "gone"
  /\ Gone.state = "Running" /\ ~Gone.active /\ ~Gone.running
<1>1. 0 \in 0 .. Limit /\ 0 \in 0 .. Queued
  BY PipewireOutAssumption
<1>2. /\ NoneYet \in Stream /\ NoneYet.state = "Running" /\ NoneYet.drain = "no"
      /\ ~NoneYet.active /\ ~NoneYet.running
  BY <1>1 DEF NoneYet, NewStream, Stream
<1> QED
  BY <1>2 DEF Gone, Stream, AudioOK

\* Filling the buffer moves units from the decoder to the buffer, up to the
\* limit, and touches nothing else; an end that is not noticed leaves a full
\* buffer.
LEMMA FilledFacts ==
  ASSUME NEW st \in Stream
  PROVE  /\ Filled(st) \in Stream
         /\ Filled(st).conn = st.conn /\ Filled(st).state = st.state /\ Filled(st).drain = st.drain
         /\ Filled(st).active = st.active /\ Filled(st).running = st.running
         /\ Filled(st).level = st.level
         /\ RunsOut(st) => Filled(st).left = 0
         /\ ~RunsOut(st) => Filled(st).audioBuf = Limit
         /\ st.left = 0 => Filled(st).left = 0 /\ Filled(st).audioBuf = st.audioBuf
<1>1. st.audioBuf \in 0 .. Limit /\ st.left \in Nat
  BY DEF Stream
<1>2. Decoded(st) \in 0 .. st.left /\ st.audioBuf + Decoded(st) \in 0 .. Limit
  BY <1>1, PipewireOutAssumption DEF Decoded, Smaller
<1>3. RunsOut(st) => Decoded(st) = st.left
  BY <1>1, PipewireOutAssumption DEF Decoded, Smaller, RunsOut
<1>4. ~RunsOut(st) => st.audioBuf + Decoded(st) = Limit
  BY <1>1, PipewireOutAssumption DEF Decoded, Smaller, RunsOut
<1>5. Filled(st) = [st EXCEPT !.audioBuf = st.audioBuf + Decoded(st), !.left = st.left - Decoded(st)]
  BY DEF Filled
<1>6. /\ st.audioBuf + Decoded(st) \in 0 .. Limit /\ st.left - Decoded(st) \in Nat
      /\ RunsOut(st) => st.left - Decoded(st) = 0
      /\ st.left = 0 => Decoded(st) = 0
  BY <1>1, <1>2, <1>3
<1>7. /\ Filled(st) \in Stream
      /\ Filled(st).audioBuf = st.audioBuf + Decoded(st) /\ Filled(st).left = st.left - Decoded(st)
  BY <1>5, <1>6 DEF Stream
<1>8. /\ Filled(st).conn = st.conn /\ Filled(st).state = st.state /\ Filled(st).drain = st.drain
      /\ Filled(st).active = st.active /\ Filled(st).running = st.running
      /\ Filled(st).level = st.level
  BY <1>5 DEF Stream
<1> QED
  BY <1>1, <1>4, <1>6, <1>7, <1>8

\* One stream is replaced by another value of the same type.
LEMMA OneStream ==
  ASSUME OutputOK, NEW s \in Ids, NEW x \in Stream, stream' = [stream EXCEPT ![s] = x]
  PROVE  /\ stream' \in [Ids -> Stream] /\ stream'[s] = x
         /\ \A r \in Ids : r # s => stream'[r] = stream[r]
BY DEF OutputOK

\* What is told of one stream is replaced.
LEMMA OneTold ==
  ASSUME OutputOK, NEW s \in Ids, NEW t \in Abstract!Told, told' = [told EXCEPT ![s] = t]
  PROVE  /\ told' \in [Ids -> Abstract!Told] /\ told'[s] = t
         /\ \A r \in Ids : r # s => told'[r] = told[r]
BY DEF OutputOK

\* The slots stay in order when no stream is connected, fails or leaves.
LEMMA SameSlots ==
  ASSUME SlotInv, UNCHANGED slots, \A s \in Ids : stream'[s].conn = stream[s].conn
  PROVE  SlotInv'
BY DEF SlotInv, slots

\* Streams that leave take nothing with them that the invariant needs.
LEMMA LeaveFacts ==
  ASSUME IInv, NEW g, g \subseteq Ids
  PROVE  /\ Without(g) \in [Ids -> Stream] /\ ToldWithout(g) \in [Ids -> Abstract!Told]
         /\ DueWithout(g) \in [Ids -> Nat]
         /\ \A s \in Ids : Without(g)[s] = IF s \in g THEN Gone ELSE stream[s]
         /\ \A s \in Ids : DueWithout(g)[s] = IF s \in g THEN 0 ELSE due[s]
         /\ \A s \in Ids : AudioOK(Without(g)[s]) /\ ToldOK(Without(g)[s], ToldWithout(g)[s])
<1>1. \A s \in Ids : told[s] \in Abstract!Told /\ due[s] \in Nat /\ stream[s] \in Stream
  BY DEF IInv, OutputOK
<1>2. Abstract!Finished \in Abstract!Told /\ Abstract!Finished.gone
  BY DEF Abstract!Finished, Abstract!Silent, Abstract!Told
<1>3. ToldOK(Gone, Abstract!Finished)
  BY <1>2, GoneFacts DEF ToldOK
<1>4. \A s \in Ids : AudioOK(stream[s]) /\ ToldOK(stream[s], told[s])
  BY DEF IInv, AudioInv, ToldInv
<1>5. \A s \in Ids : /\ Without(g)[s] = IF s \in g THEN Gone ELSE stream[s]
                     /\ DueWithout(g)[s] = IF s \in g THEN 0 ELSE due[s]
                     /\ ToldWithout(g)[s] = IF s \in g THEN Abstract!Finished ELSE told[s]
  BY DEF Without, DueWithout, ToldWithout
<1>6. Without(g) \in [Ids -> Stream]
  BY <1>1, GoneFacts DEF Without
<1>7. ToldWithout(g) \in [Ids -> Abstract!Told]
  BY <1>1, <1>2 DEF ToldWithout
<1>8. DueWithout(g) \in [Ids -> Nat]
  BY <1>1 DEF DueWithout
<1> QED
  BY <1>3, <1>4, <1>5, <1>6, <1>7, <1>8, GoneFacts

\* set_active changes what is asked for and may end a drain.
LEMMA SetActiveFacts ==
  ASSUME NEW st \in Stream, NEW on \in BOOLEAN
  PROVE  LET x == SetActive(st, on) IN
         /\ x \in Stream /\ x.conn = st.conn /\ x.state = st.state /\ x.active = on
         /\ x.running = st.running /\ x.left = st.left /\ x.audioBuf = st.audioBuf /\ x.level = st.level
         /\ x.drain \in {st.drain, "no"}
         /\ AudioOK(st) => AudioOK(x)
         /\ \A t : ToldOK(st, t) => ToldOK(x, t)
<1> DEFINE x == SetActive(st, on)
<1>1. /\ x \in Stream /\ x.conn = st.conn /\ x.state = st.state /\ x.active = on
      /\ x.running = st.running /\ x.left = st.left /\ x.audioBuf = st.audioBuf /\ x.level = st.level
      /\ x.drain \in {st.drain, "no"}
  BY DEF SetActive, Stream
<1> HIDE DEF x
<1>2. AudioOK(st) => AudioOK(x)
  BY <1>1 DEF AudioOK
<1>3. \A t : ToldOK(st, t) => ToldOK(x, t)
  BY <1>1 DEF ToldOK
<1> QED
  BY <1>1, <1>2, <1>3 DEF x

-----------------------------------------------------------------------------
(* The main thread keeps the invariant                                     *)

\* OpenStream: the new stream is the last one handed over, and nothing was
\* told of it.
LEMMA OpenStreamStep ==
  ASSUME IInv, JobInv, NEW s \in Ids, NEW track \in Tracks[s], OpenStream(s, track[1], track[2])
  PROVE  IInv'
<1> DEFINE fresh == NewStream(track[1], track[2])
           x     == [Filled(fresh) EXCEPT !.conn = "connecting"]
<1>1. track[1] \in Nat /\ track[2] \in {"eof", "error"}
  <2>1. Tracks[s] \in SUBSET (Nat \X {"eof", "error"})
    BY PipewireOutAssumption DEF Ids
  <2> QED
    BY <2>1
<1>2. fresh \in Stream /\ fresh.state = "Running" /\ fresh.drain = "no" /\ ~fresh.active /\ ~fresh.running
  <2>1. 0 \in 0 .. Limit /\ 0 \in 0 .. Queued
    BY PipewireOutAssumption
  <2> QED
    BY <1>1, <2>1 DEF NewStream, Stream
<1> HIDE DEF fresh
<1>3. /\ x \in Stream /\ x.conn = "connecting" /\ x.state = "Running" /\ x.drain = "no"
      /\ ~x.active /\ ~x.running
  <2>1. /\ Filled(fresh) \in Stream /\ Filled(fresh).state = "Running" /\ Filled(fresh).drain = "no"
        /\ ~Filled(fresh).active /\ ~Filled(fresh).running
    BY <1>2, FilledFacts
  <2> QED
    BY <2>1 DEF Stream
<1>4. AudioOK(x)
  BY <1>3 DEF AudioOK
<1>5. /\ job = "open" /\ LoopFree
      /\ stream[s].conn = "none" /\ \A r \in 1 .. s - 1 : stream[r].conn # "none"
      /\ UNCHANGED <<playing, next_up, proc, skip, timing, due>>
  BY DEF OpenStream
<1>6. \/ stream' = [stream EXCEPT ![s] = x] /\ opening' = s /\ UNCHANGED told
      \/ /\ stream' = [stream EXCEPT ![s] = Gone]
         /\ told' = [told EXCEPT ![s] = Abstract!Finished]
         /\ UNCHANGED opening
  BY DEF OpenStream, fresh
<1> HIDE DEF x
<1>7. /\ s # playing /\ s # next_up /\ opening = NoStream
      /\ playing < s /\ next_up < s /\ \A r \in Ids : r < s => stream[r].conn # "none"
      /\ told[s] = Abstract!Silent /\ told[s] \in Abstract!Told
  BY <1>5, SMTT(30) DEF IInv, JobInv, OutputOK, SlotInv, ToldInv, ToldOK, Held, Ids, NoStream
<1>8. PICK y \in {x, Gone}, t \in Abstract!Told :
        /\ stream' = [stream EXCEPT ![s] = y] /\ told' = [told EXCEPT ![s] = t]
        /\ y = x => opening' = s /\ t = told[s]
        /\ y = Gone => UNCHANGED opening /\ t = Abstract!Finished
  <2>1. CASE stream' = [stream EXCEPT ![s] = x] /\ opening' = s /\ UNCHANGED told
    <3>1. x # Gone
      BY <1>3, GoneFacts
    <3>2. told' = [told EXCEPT ![s] = told[s]]
      BY <2>1 DEF IInv, OutputOK
    <3> QED
      BY <2>1, <3>1, <3>2, <1>7
  <2>2. CASE /\ stream' = [stream EXCEPT ![s] = Gone]
             /\ told' = [told EXCEPT ![s] = Abstract!Finished]
             /\ UNCHANGED opening
    <3>1. x # Gone
      BY <1>3, GoneFacts
    <3>2. Abstract!Finished \in Abstract!Told
      BY DEF Abstract!Finished, Abstract!Silent, Abstract!Told
    <3> QED
      BY <2>2, <3>1, <3>2
  <2> QED
    BY <1>6, <2>1, <2>2
<1>9. /\ y \in Stream /\ y.conn \in {"connecting", "gone"} /\ (y.conn = "connecting" <=> y = x)
      /\ y.state = "Running" /\ ~y.active /\ ~y.running /\ AudioOK(y)
  BY <1>3, <1>4, GoneFacts
<1>10. /\ stream' \in [Ids -> Stream] /\ stream'[s] = y
       /\ \A r \in Ids : r # s => stream'[r] = stream[r]
  <2>1. y \in Stream /\ stream' = [stream EXCEPT ![s] = y]
    BY <1>8, <1>9
  <2> QED
    BY <2>1, OneStream DEF IInv
<1>11. /\ told' \in [Ids -> Abstract!Told] /\ told'[s] = t
       /\ \A r \in Ids : r # s => told'[r] = told[r]
  BY <1>8, OneTold DEF IInv
<1>12. OutputOK'
  BY <1>5, <1>6, <1>10, <1>11, SMTT(30) DEF IInv, OutputOK, timing
<1>13. SlotInv'
  <2>1. /\ stream'[s].conn \in {"connecting", "gone"} /\ (stream'[s].conn = "connecting" <=> opening' = s)
        /\ opening' \in {opening, s} /\ UNCHANGED <<playing, next_up>>
    BY <1>5, <1>7, <1>8, <1>9, <1>10 DEF Ids, NoStream
  <2> QED
    BY <2>1, <1>7, <1>5, <1>10, SMTT(30) DEF IInv, OutputOK, SlotInv, Held, Ids, NoStream
<1>14. ProcInv' /\ FinishInv'
  BY <1>5 DEF IInv, ProcInv, FinishInv, LoopFree, NoStream
<1>15. OneAtATime' /\ AudioInv'
  BY <1>5, <1>9, <1>10 DEF IInv, OneAtATime, AudioInv
<1>16. ToldInv'
  <2>1. ToldOK(y, t)
    <3>1. CASE y = x
      BY <3>1, <1>7, <1>8, <1>9 DEF ToldOK, Abstract!Silent
    <3>2. CASE y = Gone
      BY <3>2, <1>7, <1>8, <1>9, GoneFacts DEF ToldOK, Abstract!Silent, Abstract!Finished
    <3> QED
      BY <3>1, <3>2
  <2> QED
    BY <2>1, <1>10, <1>11 DEF IInv, ToldInv
<1>17. TimeInv' /\ DueInv'
  BY <1>5, <1>7, <1>10 DEF IInv, OutputOK, TimeInv, DueInv, LoopFree, timing, Ids, NoStream
<1> QED
  BY <1>12, <1>13, <1>14, <1>15, <1>16, <1>17 DEF IInv

\* Establish: only what is told of the new stream changes.
LEMMA EstablishStep ==
  ASSUME IInv, Establish
  PROVE  IInv'
<1> DEFINE t == [told[opening] EXCEPT !.est = told[opening].est + 1]
<1>1. opening \in Ids /\ UNCHANGED <<stream, slots, proc, skip, timing, due>>
  BY DEF IInv, OutputOK, Establish, NoStream
<1>2. told[opening] \in Abstract!Told
  BY <1>1 DEF IInv, OutputOK
<1>3. /\ t \in Abstract!Told /\ t.gone = told[opening].gone /\ t.start = told[opening].start
      /\ t.eod = told[opening].eod /\ t.bad = told[opening].bad /\ t.drained = told[opening].drained
  BY <1>2 DEF Abstract!Told
<1>4. told' = [told EXCEPT ![opening] = t]
  BY <1>1, <1>2 DEF Establish, IInv, OutputOK, Abstract!Told
<1> HIDE DEF t
<1>5. /\ told' \in [Ids -> Abstract!Told] /\ told'[opening] = t
      /\ \A r \in Ids : r # opening => told'[r] = told[r]
  BY <1>1, <1>3, <1>4, OneTold DEF IInv
<1>6. OutputOK'
  BY <1>1, <1>5 DEF IInv, OutputOK, slots, timing
<1>7. SlotInv' /\ ProcInv' /\ OneAtATime' /\ AudioInv' /\ FinishInv'
  BY <1>1 DEF IInv, SlotInv, ProcInv, OneAtATime, AudioInv, FinishInv, slots
<1>8. ToldInv'
  <2>1. stream[opening].conn # "none"
    BY <1>1 DEF IInv, SlotInv, Held
  <2>2. ToldOK(stream[opening], t)
    BY <1>1, <1>3, <2>1 DEF IInv, ToldInv, ToldOK
  <2> QED
    BY <1>1, <1>5, <2>2 DEF IInv, ToldInv
<1>9. TimeInv' /\ DueInv'
  BY <1>1 DEF IInv, TimeInv, DueInv, slots, timing
<1> QED
  BY <1>6, <1>7, <1>8, <1>9 DEF IInv

\* Enqueue: the new stream takes the playing slot of an empty output, or the
\* place of the waiting one, inactive.
LEMMA EnqueueStep ==
  ASSUME IInv, Enqueue
  PROVE  IInv'
<1> DEFINE g == {Replaced} \ {NoStream}
           x == [stream[opening] EXCEPT !.active = Activates]
<1>1. /\ opening \in Ids /\ opening # playing /\ opening # next_up /\ opening \notin g
      /\ stream[opening].conn \in Held /\ stream[opening] \in Stream
  BY DEF IInv, OutputOK, SlotInv, Enqueue, Replaced, NoStream, Ids
<1>2. g \subseteq Ids
  BY DEF IInv, OutputOK, Replaced
<1>3. /\ Activates => LoopFree
      /\ opening' = NoStream
      /\ playing = NoStream => playing' = opening /\ UNCHANGED next_up
      /\ playing # NoStream => next_up' = opening /\ UNCHANGED playing
      /\ told' = ToldWithout(g) /\ due' = DueWithout(g)
      /\ UNCHANGED <<proc, skip, timing>>
  BY DEF Enqueue
<1>4. Activates \in BOOLEAN /\ (Activates => playing = NoStream)
  BY DEF Activates
<1>5. /\ x \in Stream /\ x.conn = stream[opening].conn /\ x.state = stream[opening].state
      /\ x.active = Activates /\ x.running = stream[opening].running /\ x.left = stream[opening].left
      /\ x.audioBuf = stream[opening].audioBuf /\ x.level = stream[opening].level
      /\ x.drain = stream[opening].drain
  BY <1>1, <1>4 DEF Stream
<1>6. stream' = [Without(g) EXCEPT ![opening] = x]
  <2>1. stream' = [Without(g) EXCEPT ![opening].active = Activates]
    BY DEF Enqueue
  <2>2. Without(g)[opening] = stream[opening]
    BY <1>1, <1>2, LeaveFacts
  <2> QED
    BY <2>1, <2>2
<1> HIDE DEF g, x
<1>7. AudioOK(x) /\ \A t : ToldOK(stream[opening], t) => ToldOK(x, t)
  <2>1. AudioOK(stream[opening])
    BY <1>1 DEF IInv, AudioInv
  <2> QED
    BY <1>5, <2>1 DEF AudioOK, ToldOK
<1>8. /\ stream' \in [Ids -> Stream] /\ stream'[opening] = x
      /\ \A r \in Ids : r # opening => stream'[r] = Without(g)[r]
  BY <1>1, <1>2, <1>5, <1>6, LeaveFacts
<1>9. \A r \in Ids : r # opening => stream'[r] = IF r \in g THEN Gone ELSE stream[r]
  BY <1>2, <1>8, LeaveFacts
<1>10. told' \in [Ids -> Abstract!Told] /\ due' \in [Ids -> Nat]
  BY <1>2, <1>3, LeaveFacts
<1>11. {playing', next_up', opening'} \subseteq Ids \cup {NoStream}
  BY <1>1, <1>3 DEF IInv, OutputOK
<1>12. OutputOK'
  BY <1>3, <1>8, <1>10, <1>11 DEF IInv, OutputOK, timing
<1>13. SlotInv'
  <2>1. \A r \in Ids : stream'[r].conn = IF r \in g THEN "gone" ELSE stream[r].conn
    BY <1>1, <1>5, <1>8, <1>9, GoneFacts
  <2>2. CASE playing = NoStream
    <3>1. playing' = opening /\ next_up' = NoStream /\ opening' = NoStream
      BY <2>2, <1>3 DEF IInv, SlotInv
    <3>2. \A s \in Ids : stream'[s].conn = stream[s].conn
      BY <2>1, <2>2 DEF g, Replaced
    <3>3. \A s \in Ids : s \in {playing', next_up', opening'} <=> stream'[s].conn \in Held
      BY <2>2, <3>1, <3>2 DEF IInv, SlotInv, NoStream, Ids
    <3>4. \A r, s \in Ids : r < s /\ stream'[s].conn # "none" => stream'[r].conn # "none"
      BY <3>2 DEF IInv, SlotInv
    <3> QED
      BY <3>1, <3>3, <3>4, <1>1 DEF SlotInv, NoStream, Ids
  <2>3. CASE playing # NoStream
    <3>1. next_up' = opening /\ playing' = playing /\ opening' = NoStream /\ playing < opening
      BY <2>3, <1>1, <1>3 DEF IInv, SlotInv, NoStream, Ids
    <3>2. \A s \in Ids : s \in {playing', next_up', opening'} <=> stream'[s].conn \in Held
      <4>1. g = {next_up} \ {NoStream} /\ playing \notin g
        BY <2>3 DEF g, Replaced, IInv, SlotInv, OutputOK, NoStream, Ids
      <4>2. \A s \in Ids : s \in {playing, next_up, opening} <=> stream[s].conn \in Held
        BY DEF IInv, SlotInv
      <4> QED
        BY <2>1, <3>1, <4>1, <4>2, <1>1 DEF Held, NoStream, Ids
    <3>3. \A r, s \in Ids : r < s /\ stream'[s].conn # "none" => stream'[r].conn # "none"
      <4>1. \A s \in g : stream[s].conn # "none"
        BY DEF g, Replaced, IInv, SlotInv, OutputOK, Held
      <4> QED
        BY <2>1, <4>1 DEF IInv, SlotInv, Ids
    <3> QED
      BY <2>3, <3>1, <3>2, <3>3, <1>1 DEF SlotInv, NoStream, Ids
  <2> QED
    BY <2>2, <2>3
<1>14. ProcInv'
  <2>1. proc.pc # "idle" => proc.s = playing /\ playing # NoStream /\ playing' = playing /\ playing \in Ids
    BY <1>3 DEF IInv, OutputOK, ProcInv
  <2>2. proc.pc # "idle" => stream'[playing] = stream[playing]
    BY <2>1, <1>1, <1>9 DEF g, Replaced, IInv, SlotInv, NoStream, Ids
  <2> QED
    BY <2>1, <2>2, <1>3 DEF IInv, ProcInv
<1>15. OneAtATime'
  <2>1. \A r \in Ids \ g : stream[r].active \/ stream[r].running => r = playing
    BY DEF IInv, OneAtATime
  <2>2. ~x.running /\ (x.active => playing' = opening)
    BY <1>1, <1>3, <1>4, <1>5, <2>1
  <2>3. \A r \in Ids : r # opening /\ r = playing => playing' = playing
    BY <1>3 DEF Ids, NoStream
  <2> QED
    BY <1>8, <1>9, <2>1, <2>2, <2>3, GoneFacts DEF OneAtATime
<1>16. AudioInv' /\ ToldInv'
  <2>1. \A r \in Ids : r # opening => AudioOK(stream'[r]) /\ ToldOK(stream'[r], told'[r])
    BY <1>2, <1>3, <1>8, LeaveFacts
  <2>2. ToldOK(Without(g)[opening], ToldWithout(g)[opening]) /\ Without(g)[opening] = stream[opening]
    BY <1>1, <1>2, LeaveFacts
  <2>3. AudioOK(stream'[opening]) /\ ToldOK(stream'[opening], told'[opening])
    BY <1>3, <1>7, <1>8, <2>2
  <2> QED
    BY <2>1, <2>3 DEF AudioInv, ToldInv
<1>17. FinishInv'
  <2>1. proc.pc = "finish" => proc.s \in Ids /\ stream'[proc.s] = stream[proc.s]
    BY <1>1, <1>9 DEF g, Replaced, IInv, OutputOK, ProcInv, SlotInv, NoStream, Ids
  <2> QED
    BY <1>3, <2>1 DEF IInv, FinishInv
<1>18. TimeInv' /\ DueInv'
  <2>1. CASE playing = NoStream
    <3>1. /\ playing' = opening /\ opening # NoStream /\ due'[opening] \in Nat
          /\ proc.pc = "idle"
      BY <2>1, <1>1, <1>3, <1>10 DEF Ids, NoStream, IInv, ProcInv
    <3>2. start_ticks = NoTicks /\ skip_offset = 0 /\ duration = 0
      BY <2>1 DEF IInv, TimeInv
    <3> QED
      BY <3>1, <3>2, <1>3 DEF IInv, OutputOK, TimeInv, DueInv, timing
  <2>2. CASE playing # NoStream
    <3>1. playing' = playing /\ playing \in Ids /\ playing \notin g
      BY <2>2, <1>3 DEF g, Replaced, IInv, OutputOK, SlotInv, Ids, NoStream
    <3>2. stream'[playing] = stream[playing] /\ due'[playing] = due[playing]
      BY <3>1, <1>1, <1>2, <1>3, <1>9, LeaveFacts
    <3> QED
      BY <3>1, <3>2, <1>3, <2>2 DEF IInv, TimeInv, DueInv, timing
  <2> QED
    BY <2>1, <2>2
<1> QED
  BY <1>12, <1>13, <1>14, <1>15, <1>16, <1>17, <1>18 DEF IInv

\* Pause and Unpause change only what is asked of the playing stream, and the
\* anchor of the elapsed time.
LEMMA SetActiveStep ==
  ASSUME IInv, NEW on \in BOOLEAN,
         playing # NoStream, LoopFree,
         stream' = [stream EXCEPT ![playing] = SetActive(@, on)],
         UNCHANGED <<slots, proc>>
  PROVE  /\ playing \in Ids /\ stream' \in [Ids -> Stream]
         /\ stream'[playing] = SetActive(stream[playing], on)
         /\ \A r \in Ids : r # playing => stream'[r] = stream[r]
         /\ SlotInv' /\ ProcInv' /\ OneAtATime' /\ AudioInv' /\ FinishInv'
         /\ \A t : \A s \in Ids : ToldOK(stream[s], t) => ToldOK(stream'[s], t)
<1> DEFINE x == SetActive(stream[playing], on)
<1>1. playing \in Ids /\ stream[playing] \in Stream
  BY DEF IInv, OutputOK
<1>2. /\ x \in Stream /\ x.conn = stream[playing].conn
      /\ AudioOK(x) /\ \A t : ToldOK(stream[playing], t) => ToldOK(x, t)
  BY <1>1, SetActiveFacts DEF IInv, AudioInv
<1>3. stream' = [stream EXCEPT ![playing] = x]
  OBVIOUS
<1> HIDE DEF x
<1>4. /\ stream' \in [Ids -> Stream] /\ stream'[playing] = x
      /\ \A r \in Ids : r # playing => stream'[r] = stream[r]
  BY <1>1, <1>2, <1>3, OneStream DEF IInv
<1>5. SlotInv'
  BY <1>2, <1>4, SameSlots DEF IInv
<1>6. ProcInv' /\ FinishInv'
  BY DEF IInv, ProcInv, FinishInv, LoopFree
<1>7. OneAtATime' /\ AudioInv'
  BY <1>2, <1>4 DEF IInv, OneAtATime, AudioInv, slots
<1>8. \A t : \A s \in Ids : ToldOK(stream[s], t) => ToldOK(stream'[s], t)
  BY <1>2, <1>4
<1> QED
  BY <1>1, <1>4, <1>5, <1>6, <1>7, <1>8 DEF x

\* Pause folds the reported time into the offset, and drops the anchor.
LEMMA PauseStep ==
  ASSUME IInv, JobInv, Pause
  PROVE  IInv'
<1>1. /\ playing # NoStream /\ LoopFree
      /\ skip_offset' = duration /\ start_ticks' = NoTicks
      /\ UNCHANGED <<slots, proc, skip, clock, duration, late, told, due>>
      /\ stream' = [stream EXCEPT ![playing] = SetActive(@, FALSE)]
  BY DEF Pause, Folded, ClearedTicks, JobInv
<1>2. /\ playing \in Ids /\ stream' \in [Ids -> Stream]
      /\ SlotInv' /\ ProcInv' /\ OneAtATime' /\ AudioInv' /\ FinishInv'
      /\ \A t : \A s \in Ids : ToldOK(stream[s], t) => ToldOK(stream'[s], t)
  BY <1>1, SetActiveStep
<1>3. OutputOK'
  BY <1>1, <1>2 DEF IInv, OutputOK, slots
<1>4. ToldInv'
  BY <1>1, <1>2 DEF IInv, ToldInv
<1>5. TimeInv'
  BY <1>1 DEF IInv, OutputOK, TimeInv, NoTicks, slots
<1>6. DueInv'
  <2>1. duration + 0 = duration /\ (~late => duration <= due[playing])
    BY <1>1, <1>2 DEF IInv, OutputOK, TimeInv, DueInv, NoTicks
  <2>2. playing' = playing /\ proc' = proc /\ proc.pc = "idle"
    BY <1>1 DEF LoopFree, slots
  <2> QED
    BY <1>1, <2>1, <2>2 DEF DueInv
<1> QED
  BY <1>2, <1>3, <1>4, <1>5, <1>6 DEF IInv

\* A drained track that is resumed is told about again.
LEMMA UnpauseStep ==
  ASSUME IInv, JobInv, Unpause
  PROVE  IInv'
<1> DEFINE t == [told[playing] EXCEPT !.drained = FALSE]
<1>1. /\ playing # NoStream /\ LoopFree
      /\ UNCHANGED <<slots, proc, skip, timing, due>>
      /\ stream' = [stream EXCEPT ![playing] = SetActive(@, TRUE)]
      /\ told' = [told EXCEPT ![playing].drained = FALSE]
  BY DEF Unpause, JobInv
<1>2. /\ playing \in Ids /\ stream' \in [Ids -> Stream]
      /\ stream'[playing] = SetActive(stream[playing], TRUE)
      /\ SlotInv' /\ ProcInv' /\ OneAtATime' /\ AudioInv' /\ FinishInv'
      /\ \A u : \A s \in Ids : ToldOK(stream[s], u) => ToldOK(stream'[s], u)
  BY <1>1, SetActiveStep
<1>3. told[playing] \in Abstract!Told /\ stream[playing] \in Stream
  BY <1>2 DEF IInv, OutputOK
<1>4. t \in Abstract!Told /\ \A st \in Stream : st.conn # "none" /\ ToldOK(st, told[playing]) => ToldOK(st, t)
  BY <1>3, ZenonT(40) DEF Abstract!Told, ToldOK
<1>5. told' = [told EXCEPT ![playing] = t]
  BY <1>1, <1>2 DEF IInv, OutputOK
<1> HIDE DEF t
<1>6. /\ told' \in [Ids -> Abstract!Told] /\ told'[playing] = t
      /\ \A r \in Ids : r # playing => told'[r] = told[r]
  BY <1>2, <1>4, <1>5, OneTold DEF IInv
<1>7. OutputOK'
  BY <1>1, <1>2, <1>6 DEF IInv, OutputOK, slots, timing
<1>8. ToldInv'
  <2>1. stream[playing].conn # "none"
    BY <1>2 DEF IInv, SlotInv, Held
  <2>2. \A s \in Ids : ToldOK(stream[s], told'[s])
    BY <2>1, <1>2, <1>3, <1>4, <1>6 DEF IInv, ToldInv
  <2> QED
    BY <1>2, <2>2 DEF ToldInv
<1>9. TimeInv'
  BY <1>1 DEF IInv, TimeInv, slots, timing
<1>10. DueInv'
  <2>1. stream'[playing].active
    BY <1>2, <1>3, SetActiveFacts
  <2> QED
    BY <1>1, <2>1 DEF IInv, DueInv, slots, timing
<1> QED
  BY <1>2, <1>7, <1>8, <1>9, <1>10 DEF IInv

\* Stop empties the output.
LEMMA StopStep ==
  ASSUME IInv, JobInv, Stop
  PROVE  IInv'
<1> DEFINE g == {playing, next_up} \ {NoStream}
<1>1. /\ opening = NoStream /\ proc.pc = "idle"
      /\ stream' = Without(g) /\ told' = ToldWithout(g) /\ due' = DueWithout(g)
      /\ playing' = NoStream /\ next_up' = NoStream
      /\ duration' = 0 /\ skip_offset' = 0 /\ start_ticks' = NoTicks /\ late' = FALSE
      /\ UNCHANGED <<clock, opening, proc, skip>>
  BY DEF Stop, JobInv, ResetTiming, LoopFree
<1>2. g \subseteq Ids
  BY DEF IInv, OutputOK
<1> HIDE DEF g
<1>3. /\ stream' \in [Ids -> Stream] /\ told' \in [Ids -> Abstract!Told] /\ due' \in [Ids -> Nat]
      /\ \A s \in Ids : stream'[s] = IF s \in g THEN Gone ELSE stream[s]
      /\ \A s \in Ids : AudioOK(stream'[s]) /\ ToldOK(stream'[s], told'[s])
  BY <1>1, <1>2, LeaveFacts
<1>4. OutputOK'
  BY <1>1, <1>3 DEF IInv, OutputOK
<1>5. SlotInv'
  <2>1. \A s \in Ids : stream'[s].conn = IF s \in g THEN "gone" ELSE stream[s].conn
    BY <1>3, GoneFacts
  <2> QED
    BY <1>1, <2>1 DEF IInv, SlotInv, Held, NoStream, Ids, g
<1>6. ProcInv' /\ FinishInv'
  BY <1>1 DEF IInv, ProcInv, FinishInv
<1>7. OneAtATime'
  BY <1>1, <1>3, GoneFacts DEF IInv, OneAtATime, g, NoStream, Ids
<1>8. AudioInv' /\ ToldInv'
  BY <1>3 DEF AudioInv, ToldInv
<1>9. TimeInv' /\ DueInv'
  BY <1>1 DEF IInv, OutputOK, TimeInv, DueInv, NoTicks
<1> QED
  BY <1>4, <1>5, <1>6, <1>7, <1>8, <1>9 DEF IInv

\* Shift: the playing stream leaves and the waiting one takes its place.
LEMMA ShiftStep ==
  ASSUME IInv, JobInv, Shift
  PROVE  IInv'
<1> DEFINE g == {playing} \ {NoStream}
<1>1. /\ opening = NoStream /\ proc.pc = "idle"
      /\ stream' = Without(g) /\ told' = ToldWithout(g) /\ due' = DueWithout(g)
      /\ playing' = next_up /\ next_up' = NoStream
      /\ duration' = 0 /\ skip_offset' = 0 /\ start_ticks' = NoTicks /\ late' = FALSE
      /\ UNCHANGED <<clock, opening, proc, skip>>
  BY DEF Shift, JobInv, ResetTiming, LoopFree
<1>2. g \subseteq Ids /\ next_up \notin g
  BY DEF IInv, OutputOK, SlotInv, Ids, NoStream
<1>3. /\ stream' \in [Ids -> Stream] /\ told' \in [Ids -> Abstract!Told] /\ due' \in [Ids -> Nat]
      /\ \A s \in Ids : stream'[s] = IF s \in g THEN Gone ELSE stream[s]
      /\ \A s \in Ids : AudioOK(stream'[s]) /\ ToldOK(stream'[s], told'[s])
  BY <1>1, <1>2, LeaveFacts
<1>4. \A s \in Ids : stream'[s].conn = IF s \in g THEN "gone" ELSE stream[s].conn
  BY <1>3, GoneFacts
<1> HIDE DEF g
<1>5. OutputOK'
  <2>1. {playing', next_up', opening'} \subseteq Ids \cup {NoStream}
    BY <1>1 DEF IInv, OutputOK
  <2>2. start_ticks' \in {NoTicks} \cup 0 .. MaxClock /\ skip_offset' \in Nat /\ duration' \in Nat /\ late' \in BOOLEAN
    BY <1>1
  <2> QED
    BY <1>1, <1>3, <2>1, <2>2 DEF IInv, OutputOK
<1>6. SlotInv'
  <2>1. \A s \in Ids : s \in {playing', next_up', opening'} <=> stream'[s].conn \in Held
    BY <1>1, <1>2, <1>4, ZenonT(40) DEF IInv, SlotInv, Held, NoStream, Ids, g
  <2>2. \A s \in g : stream[s].conn # "none"
    BY <1>2 DEF g, IInv, SlotInv, Held
  <2>3. ASSUME NEW r \in Ids, NEW s \in Ids, r < s, stream'[s].conn # "none"
        PROVE  stream'[r].conn # "none"
    <3>1. stream[s].conn # "none"
      BY <1>4, <2>2, <2>3
    <3>2. stream[r].conn # "none"
      BY <2>3, <3>1 DEF IInv, SlotInv
    <3> QED
      BY <1>4, <3>2
  <2> QED
    BY <1>1, <2>1, <2>3 DEF SlotInv
<1>7. ProcInv' /\ FinishInv'
  BY <1>1 DEF IInv, ProcInv, FinishInv
<1>8. OneAtATime'
  <2>1. \A s \in Ids : s \in g => ~stream'[s].active /\ ~stream'[s].running
    BY <1>3, GoneFacts
  <2>2. \A s \in Ids : s \notin g => ~stream[s].active /\ ~stream[s].running
    BY DEF IInv, OneAtATime, g, NoStream, Ids
  <2> QED
    BY <1>3, <2>1, <2>2 DEF OneAtATime
<1>9. AudioInv' /\ ToldInv'
  BY <1>3 DEF AudioInv, ToldInv
<1>10. TimeInv' /\ DueInv'
  <2>1. playing' # NoStream => due'[playing'] \in Nat
    BY <1>1, <1>3 DEF IInv, OutputOK
  <2>2. clock \in Nat
    BY PipewireOutAssumption DEF IInv, OutputOK
  <2>3. (IF start_ticks' = NoTicks THEN 0 ELSE clock' - start_ticks') = 0 /\ start_ticks' <= clock'
    BY <1>1, <2>2 DEF NoTicks
  <2>4. skip_offset' + 0 = 0 /\ duration' = 0 /\ (playing' # NoStream => 0 <= due'[playing'])
    BY <1>1, <2>1
  <2>5. proc'.pc = "idle" /\ skip_offset' = 0 /\ start_ticks' = NoTicks /\ ~late'
    BY <1>1
  <2> QED
    BY <2>3, <2>4, <2>5 DEF TimeInv, DueInv
<1> QED
  BY <1>5, <1>6, <1>7, <1>8, <1>9, <1>10 DEF IInv

\* OnSkip only leaves an interval behind.
LEMMA OnSkipStep ==
  ASSUME IInv, OnSkip
  PROVE  IInv'
<1>1. skip' \in 0 .. MaxSkip /\ UNCHANGED <<stream, slots, proc, timing, told, due>>
  BY PipewireOutAssumption DEF OnSkip
<1>2. OutputOK'
  BY <1>1 DEF IInv, OutputOK, slots, timing
<1>3. SlotInv' /\ ProcInv' /\ OneAtATime' /\ AudioInv' /\ FinishInv' /\ ToldInv'
  BY <1>1 DEF IInv, SlotInv, ProcInv, OneAtATime, AudioInv, FinishInv, ToldInv, slots
<1>4. TimeInv' /\ DueInv'
  BY <1>1 DEF IInv, TimeInv, DueInv, slots, timing
<1> QED
  BY <1>2, <1>3, <1>4 DEF IInv

-----------------------------------------------------------------------------
(* The callbacks keep the invariant                                        *)

\* One turn of the decode loop, of the playing stream.
LEMMA TurnStep ==
  ASSUME IInv, NEW s \in Ids, NEW skip_time \in 0 .. MaxSkip,
         stream[s].conn = "ready", s = playing,
         proc.pc = "idle" \/ proc.s = s,
         Turn(s, skip_time),
         skip' \in 0 .. MaxSkip, late' \in BOOLEAN, late => late', ~late' => stream[s].active
  PROVE  IInv'
<1> DEFINE st == stream[s]
           f  == Filled(st)
           cut == Smaller(skip_time, f.audioBuf)
           x == [f EXCEPT !.audioBuf = f.audioBuf - cut, !.state = IF Fails(st) THEN "Draining" ELSE f.state]
           t == [told[s] EXCEPT !.bad = told[s].bad \/ Fails(st)]
           again == skip_time > 0 /\ f.audioBuf = cut
<1>1. st \in Stream /\ told[s] \in Abstract!Told /\ due[s] \in Nat
  BY DEF IInv, OutputOK
<1>2. /\ stream' = [stream EXCEPT ![s] = x]
      /\ told' = [told EXCEPT ![s].bad = @ \/ Fails(st)]
      /\ skip_offset' = skip_offset + cut
      /\ due' = [due EXCEPT ![s] = @ + cut]
      /\ proc' = [s |-> s, pc |-> IF again THEN "decode" ELSE "finish",
                  skip_time |-> IF again THEN skip_time - cut ELSE 0, eod |-> RunsOut(st)]
      /\ UNCHANGED <<slots, clock, duration, start_ticks>>
  BY DEF Turn
<1>3. told' = [told EXCEPT ![s] = t]
  BY <1>1, <1>2 DEF IInv, OutputOK
<1>4. /\ f \in Stream /\ f.conn = "ready" /\ f.state = st.state /\ f.drain = st.drain
      /\ f.active = st.active /\ f.running = st.running /\ f.level = st.level
      /\ RunsOut(st) => f.left = 0
      /\ ~RunsOut(st) => f.audioBuf = Limit
      /\ st.left = 0 => f.left = 0 /\ f.audioBuf = st.audioBuf
  BY <1>1, FilledFacts
<1> HIDE DEF f
<1>5. f.audioBuf \in 0 .. Limit
  BY <1>4 DEF Stream
<1>6. cut \in Nat /\ cut \in 0 .. skip_time /\ f.audioBuf - cut \in 0 .. Limit
  BY <1>5, PipewireOutAssumption DEF Smaller
<1>7. Fails(st) \in BOOLEAN /\ RunsOut(st) \in BOOLEAN /\ (Fails(st) => RunsOut(st)) /\ again \in BOOLEAN
  BY DEF Fails, RunsOut
<1>8. f.audioBuf - cut = 0 => again \/ f.audioBuf = 0
  BY <1>5 DEF Smaller
<1> HIDE DEF cut, again
<1>9. /\ x \in Stream /\ x.conn = "ready" /\ x.drain = st.drain /\ x.active = st.active /\ x.running = st.running
      /\ x.left = f.left /\ x.audioBuf = f.audioBuf - cut /\ x.level = st.level
      /\ x.state = IF Fails(st) THEN "Draining" ELSE st.state
  BY <1>4, <1>6 DEF Stream
<1>10. /\ t \in Abstract!Told /\ t.start = told[s].start /\ t.eod = told[s].eod /\ t.gone = told[s].gone
       /\ t.drained = told[s].drained /\ (told[s].bad \/ Fails(st) => t.bad)
  BY <1>1, <1>7 DEF Abstract!Told
<1> HIDE DEF x, t
<1>11. /\ stream' \in [Ids -> Stream] /\ stream'[s] = x
       /\ \A r \in Ids : r # s => stream'[r] = stream[r]
  BY <1>2, <1>9, OneStream DEF IInv
<1>12. /\ told' \in [Ids -> Abstract!Told] /\ told'[s] = t
       /\ \A r \in Ids : r # s => told'[r] = told[r]
  BY <1>3, <1>10, OneTold DEF IInv
<1>13. /\ due' \in [Ids -> Nat] /\ due'[s] = due[s] + cut
  <2>1. due \in [Ids -> Nat]
    BY DEF IInv, OutputOK
  <2>2. due[s] + cut \in Nat
    BY <1>1, <1>6
  <2>3. due' = [due EXCEPT ![s] = due[s] + cut]
    BY <1>2
  <2> QED
    BY <2>1, <2>2, <2>3
<1>14. OutputOK'
  <2>1. proc' \in [s : Ids \cup {NoStream}, pc : {"idle", "decode", "finish"},
                   skip_time : 0 .. MaxSkip, eod : BOOLEAN]
    <3>1. skip_time - cut \in 0 .. MaxSkip /\ 0 \in 0 .. MaxSkip
      BY <1>6, PipewireOutAssumption
    <3> QED
      BY <1>2, <1>7, <3>1
  <2>2. skip_offset' \in Nat
    BY <1>2, <1>6, SMTT(30) DEF IInv, OutputOK
  <2> QED
    BY <1>2, <1>11, <1>12, <1>13, <2>1, <2>2 DEF IInv, OutputOK, slots
<1>15. SlotInv'
  BY <1>2, <1>9, <1>11, SameSlots DEF IInv
<1>16. ProcInv'
  BY <1>1, <1>2, <1>9, <1>11 DEF ProcInv, slots, Ids, NoStream
<1>17. OneAtATime'
  BY <1>1, <1>2, <1>11 DEF IInv, OneAtATime, slots
<1>18. AudioInv'
  <2>1. AudioOK(st)
    BY DEF IInv, AudioInv
  <2>2. st.audioBuf = 0 /\ f.audioBuf = 0 => f.audioBuf - cut = 0
    BY <1>5, <1>6
  <2>3. AudioOK(x)
    BY <1>4, <1>7, <1>9, <2>1, <2>2 DEF AudioOK
  <2> QED
    BY <1>11, <2>3 DEF IInv, AudioInv
<1>19. FinishInv'
  <2>1. proc'.pc = "finish" => proc'.s = s /\ proc'.eod = RunsOut(st) /\ ~again
    BY <1>2
  <2>2. Limit # 0
    BY PipewireOutAssumption
  <2> QED
    BY <1>4, <1>8, <1>9, <1>11, <2>1, <2>2 DEF FinishInv
<1>20. ToldInv'
  <2>1. ToldOK(x, t)
    BY <1>9, <1>10 DEF IInv, ToldInv, ToldOK
  <2> QED
    BY <1>11, <1>12, <2>1 DEF IInv, ToldInv
<1>21. TimeInv'
  <2>1. /\ duration \in Nat /\ skip_offset \in Nat /\ clock \in Int /\ start_ticks \in Int
    BY DEF IInv, OutputOK, NoTicks
  <2> QED
    BY <1>1, <1>2, <1>6, <2>1 DEF IInv, TimeInv, slots, Ids, NoStream
<1>22. DueInv'
  <2>1. /\ duration \in Nat /\ skip_offset \in Nat /\ clock \in Int /\ start_ticks \in Int
    BY DEF IInv, OutputOK, NoTicks
  <2>2. playing' = s /\ playing # NoStream /\ stream'[s].active = st.active
    BY <1>1, <1>2, <1>9, <1>11 DEF slots, Ids, NoStream
  <2> QED
    BY <1>1, <1>2, <1>6, <1>13, <2>1, <2>2 DEF IInv, DueInv
<1> QED
  BY <1>14, <1>15, <1>16, <1>17, <1>18, <1>19, <1>20, <1>21, <1>22 DEF IInv

\* on_process begins, for the playing stream.
LEMMA BeginProcessStep ==
  ASSUME IInv, NEW s \in Ids, BeginProcess(s)
  PROVE  IInv'
<1>1. /\ proc.pc = "idle" /\ stream[s].conn = "ready" /\ stream[s].running /\ s = playing
      /\ skip' = 0 /\ late' = (late \/ ~stream[s].active)
  BY DEF IInv, OneAtATime, BeginProcess, LoopFree
<1>2. stream[s].active \in BOOLEAN /\ late \in BOOLEAN /\ skip \in 0 .. MaxSkip /\ 0 \in 0 .. MaxSkip
  BY PipewireOutAssumption DEF IInv, OutputOK, Stream
<1>3. late' \in BOOLEAN /\ skip' \in 0 .. MaxSkip
  BY <1>1, <1>2
<1>4. CASE Turn(s, skip)
  BY <1>1, <1>2, <1>3, <1>4, TurnStep
<1>5. CASE /\ stream[s].state = "Draining"
           /\ proc' = [NoProc EXCEPT !.s = s, !.pc = "finish", !.eod = TRUE]
           /\ UNCHANGED <<stream, slots, job, clock, duration, start_ticks, skip_offset, queues, told, due>>
  <2>1. proc' = [s |-> s, pc |-> "finish", skip_time |-> 0, eod |-> TRUE]
    BY <1>5 DEF NoProc
  <2>2. OutputOK'
    <3>1. proc' \in [s : Ids \cup {NoStream}, pc : {"idle", "decode", "finish"},
                     skip_time : 0 .. MaxSkip, eod : BOOLEAN]
      BY <1>2, <2>1
    <3> QED
      BY <1>3, <1>5, <3>1 DEF IInv, OutputOK, slots
  <2>3. SlotInv' /\ OneAtATime' /\ AudioInv' /\ ToldInv'
    BY <1>5 DEF IInv, SlotInv, OneAtATime, AudioInv, ToldInv, slots
  <2>4. ProcInv'
    BY <1>1, <1>5, <2>1 DEF ProcInv, slots, Ids, NoStream
  <2>5. FinishInv'
    <3>1. stream[s].left = 0
      BY <1>5 DEF IInv, AudioInv, AudioOK
    <3> QED
      BY <1>5, <2>1, <3>1 DEF FinishInv
  <2>6. TimeInv' /\ DueInv'
    <3>1. playing # NoStream
      BY <1>1 DEF Ids, NoStream
    <3> QED
      BY <1>1, <1>2, <1>5, <3>1 DEF IInv, TimeInv, DueInv, slots
  <2> QED
    BY <2>2, <2>3, <2>4, <2>5, <2>6 DEF IInv
<1> QED
  BY <1>4, <1>5 DEF BeginProcess

\* Another turn of the decode loop.
LEMMA TurnAgainStep ==
  ASSUME IInv, TurnAgain
  PROVE  IInv'
<1>1. /\ proc.s \in Ids /\ proc.s = playing /\ stream[proc.s].conn = "ready"
      /\ proc.skip_time \in 0 .. MaxSkip /\ Turn(proc.s, proc.skip_time)
      /\ UNCHANGED <<skip, late>>
  BY DEF IInv, OutputOK, ProcInv, TurnAgain
<1>2. skip' \in 0 .. MaxSkip /\ late' \in BOOLEAN
  BY <1>1 DEF IInv, OutputOK
<1>3. ~late => stream[proc.s].active
  BY <1>1 DEF IInv, DueInv, TurnAgain, NoStream, Ids
<1> QED
  BY <1>1, <1>2, <1>3, TurnStep

\* The rest of on_process.
LEMMA FinishProcessStep ==
  ASSUME IInv, FinishProcess
  PROVE  IInv'
<1> DEFINE s  == proc.s
           st == stream[s]
           n  == IF Dequeued(st) THEN Smaller(1, st.audioBuf) ELSE 0
           x  == [st EXCEPT !.audioBuf = st.audioBuf - n, !.level = st.level + n,
                            !.drain = IF AsksDrain(st) THEN "asked" ELSE st.drain,
                            !.state = IF EndsDecoding(st) THEN "Draining" ELSE st.state]
           t  == [told[s] EXCEPT !.eod = IF EndsDecoding(st) THEN told[s].eod + 1 ELSE told[s].eod]
<1>1. /\ proc.pc = "finish" /\ s = playing /\ s \in Ids /\ playing # NoStream
      /\ st.conn = "ready" /\ st \in Stream /\ told[s] \in Abstract!Told /\ proc.eod \in BOOLEAN
  BY DEF IInv, OutputOK, ProcInv, FinishProcess
<1>2. /\ proc' = NoProc
      /\ stream' = [stream EXCEPT ![s] = x]
      /\ told' = [told EXCEPT ![s].eod = IF EndsDecoding(st) THEN @ + 1 ELSE @]
      /\ UNCHANGED <<slots, skip, clock, skip_offset, late, due>>
  BY DEF FinishProcess
<1>3. told' = [told EXCEPT ![s] = t]
  BY <1>1, <1>2 DEF IInv, OutputOK
<1>4. /\ st.audioBuf \in 0 .. Limit /\ st.level \in 0 .. Queued
      /\ n \in 0 .. 1 /\ st.audioBuf - n \in 0 .. Limit /\ st.level + n \in 0 .. Queued
      /\ st.audioBuf = 0 => n = 0
  <2>1. st.audioBuf \in 0 .. Limit /\ st.level \in 0 .. Queued
    BY <1>1 DEF Stream
  <2> QED
    BY <2>1, PipewireOutAssumption DEF Dequeued, Smaller
<1>5. /\ EndsDecoding(st) = (proc.eod /\ st.state = "Running")
      /\ AsksDrain(st) = (st.audioBuf = 0)
  BY DEF EndsDecoding, AsksDrain
<1>6. (proc.eod => st.left = 0) /\ (st.audioBuf = 0 => proc.eod) /\ AudioOK(st) /\ ToldOK(st, told[s])
  BY <1>1 DEF IInv, FinishInv, AudioInv, ToldInv
<1> HIDE DEF n
<1>7. /\ x \in Stream /\ x.conn = "ready" /\ x.left = st.left /\ x.active = st.active /\ x.running = st.running
      /\ x.audioBuf = st.audioBuf - n /\ x.level = st.level + n
      /\ x.drain = IF st.audioBuf = 0 THEN "asked" ELSE st.drain
      /\ x.state = IF proc.eod THEN "Draining" ELSE st.state
  <2>1. st.state \in {"Running", "Draining"} /\ st.drain \in {"no", "asked", "done"}
    BY <1>1 DEF Stream
  <2> QED
    BY <1>1, <1>4, <1>5, <2>1 DEF Stream
<1>8. /\ t \in Abstract!Told /\ t.start = told[s].start /\ t.gone = told[s].gone
      /\ t.drained = told[s].drained /\ t.bad = told[s].bad
      /\ t.eod = IF proc.eod /\ st.state = "Running" THEN told[s].eod + 1 ELSE told[s].eod
  <2>1. told[s].eod \in Nat /\ told[s].eod + 1 \in Nat
    BY <1>1 DEF Abstract!Told
  <2> HIDE DEF s, st
  <2> QED
    BY <1>1, <1>5, <2>1 DEF Abstract!Told
<1> HIDE DEF x, t
<1>9. /\ stream' \in [Ids -> Stream] /\ stream'[s] = x
      /\ \A r \in Ids : r # s => stream'[r] = stream[r]
  BY <1>1, <1>2, <1>7, OneStream DEF IInv
<1>10. /\ told' \in [Ids -> Abstract!Told] /\ told'[s] = t
       /\ \A r \in Ids : r # s => told'[r] = told[r]
  BY <1>1, <1>3, <1>8, OneTold DEF IInv
<1>11. /\ clock \in 0 .. MaxClock /\ clock \in Nat /\ start_ticks \in {NoTicks} \cup 0 .. MaxClock
       /\ start_ticks \in Int /\ duration \in Nat /\ skip_offset \in Nat /\ start_ticks <= clock
       /\ duration <= skip_offset + (IF start_ticks = NoTicks THEN 0 ELSE clock - start_ticks)
  BY PipewireOutAssumption DEF IInv, OutputOK, TimeInv, NoTicks
<1>12. \/ UNCHANGED <<start_ticks, duration>>
       \/ /\ start_ticks' = IF start_ticks = NoTicks THEN clock ELSE start_ticks
          /\ duration' = clock - start_ticks' + skip_offset
  BY DEF FinishProcess
<1>13. /\ start_ticks' \in {NoTicks} \cup 0 .. MaxClock /\ duration' \in Nat /\ start_ticks' <= clock
       /\ duration' <= skip_offset + (IF start_ticks' = NoTicks THEN 0 ELSE clock - start_ticks')
       /\ (IF start_ticks' = NoTicks THEN 0 ELSE clock - start_ticks')
            = (IF start_ticks = NoTicks THEN 0 ELSE clock - start_ticks)
  BY <1>11, <1>12, PipewireOutAssumption DEF NoTicks
<1>14. OutputOK'
  <2>1. proc' \in [s : Ids \cup {NoStream}, pc : {"idle", "decode", "finish"},
                   skip_time : 0 .. MaxSkip, eod : BOOLEAN]
    BY <1>2, PipewireOutAssumption DEF NoProc
  <2> QED
    BY <1>2, <1>9, <1>10, <1>13, <2>1 DEF IInv, OutputOK, slots
<1>15. SlotInv'
  BY <1>1, <1>2, <1>7, <1>9, SameSlots DEF IInv
<1>16. ProcInv' /\ FinishInv'
  BY <1>2 DEF NoProc, ProcInv, FinishInv
<1>17. OneAtATime'
  BY <1>1, <1>2, <1>9 DEF IInv, OneAtATime, slots
<1>18. AudioInv'
  <2>1. st.audioBuf = 0 => st.audioBuf - n = 0 /\ st.level + n = st.level
    <3>1. st.level \in Int
      BY <1>4, PipewireOutAssumption
    <3>2. st.audioBuf = 0 => n = 0
      BY <1>4
    <3>3. st.audioBuf = 0 => st.audioBuf - 0 = 0 /\ st.level + 0 = st.level
      BY <3>1
    <3> QED
      BY <3>2, <3>3
  <2>2. AudioOK(x)
    BY <1>1, <1>6, <1>7, <2>1 DEF AudioOK
  <2> QED
    BY <1>9, <2>2 DEF IInv, AudioInv
<1>19. ToldInv'
  <2>1. ToldOK(x, t)
    BY <1>1, <1>6, <1>7, <1>8 DEF ToldOK, Stream
  <2> QED
    BY <1>9, <1>10, <2>1 DEF IInv, ToldInv
<1>20. TimeInv'
  BY <1>1, <1>2, <1>13 DEF TimeInv, slots
<1>21. DueInv'
  <2>1. /\ playing' = playing /\ late' = late /\ due' = due /\ skip_offset' = skip_offset /\ clock' = clock
        /\ proc'.pc = "idle"
    BY <1>2 DEF slots, NoProc
  <2>2. stream'[playing].active = stream[playing].active
    BY <1>1, <1>7, <1>9
  <2> QED
    BY <1>1, <1>13, <2>1, <2>2 DEF IInv, DueInv
<1> QED
  BY <1>14, <1>15, <1>16, <1>17, <1>18, <1>19, <1>20, <1>21 DEF IInv

\* The connection of a stream resets the shared elapsed time.
LEMMA OnConnectedStep ==
  ASSUME IInv, NEW s \in Ids, OnConnected(s)
  PROVE  IInv'
<1> DEFINE x == [stream[s] EXCEPT !.conn = "ready"]
           t == [told[s] EXCEPT !.start = told[s].start + 1]
<1>1. /\ proc.pc = "idle" /\ stream[s].conn = "connecting"
      /\ duration' = 0 /\ skip_offset' = 0 /\ start_ticks' = NoTicks /\ late' = FALSE
      /\ UNCHANGED <<clock, slots, proc, skip, due>>
      /\ stream' = [stream EXCEPT ![s].conn = "ready"] /\ told' = [told EXCEPT ![s].start = @ + 1]
  BY DEF OnConnected, LoopFree, ResetTiming
<1>2. stream[s] \in Stream /\ told[s] \in Abstract!Told /\ AudioOK(stream[s]) /\ ToldOK(stream[s], told[s])
  BY DEF IInv, OutputOK, AudioInv, ToldInv
<1>3. stream' = [stream EXCEPT ![s] = x] /\ told' = [told EXCEPT ![s] = t]
  BY <1>1 DEF IInv, OutputOK
<1>4. /\ x \in Stream /\ x.conn = "ready" /\ x.state = stream[s].state /\ x.drain = stream[s].drain
      /\ x.active = stream[s].active /\ x.running = stream[s].running
  BY <1>2 DEF Stream
<1>5. /\ t \in Abstract!Told /\ t.start = told[s].start + 1 /\ t.eod = told[s].eod /\ t.bad = told[s].bad
      /\ t.drained = told[s].drained /\ t.gone = told[s].gone
  BY <1>2 DEF Abstract!Told
<1>6. AudioOK(x) /\ ToldOK(x, t)
  <2>1. x.state = "Running" /\ x.drain = "no"
    BY <1>1, <1>2, <1>4 DEF AudioOK
  <2>2. t.start = 1 /\ ~t.gone /\ t.eod = 0 /\ ~t.drained
    BY <1>1, <1>2, <1>5, <2>1, <1>4 DEF ToldOK
  <2> QED
    BY <1>4, <2>1, <2>2 DEF AudioOK, ToldOK
<1> HIDE DEF x, t
<1>7. /\ stream' \in [Ids -> Stream] /\ stream'[s] = x
      /\ \A r \in Ids : r # s => stream'[r] = stream[r]
  BY <1>3, <1>4, OneStream DEF IInv
<1>8. /\ told' \in [Ids -> Abstract!Told] /\ told'[s] = t
      /\ \A r \in Ids : r # s => told'[r] = told[r]
  BY <1>3, <1>5, OneTold DEF IInv
<1>9. OutputOK'
  BY <1>1, <1>7, <1>8 DEF IInv, OutputOK, slots
<1>10. SlotInv'
  <2>1. \A r \in Ids : /\ stream'[r].conn \in Held <=> stream[r].conn \in Held
                       /\ stream'[r].conn = "none" <=> stream[r].conn = "none"
    BY <1>1, <1>4, <1>7 DEF Held
  <2> QED
    BY <1>1, <2>1 DEF IInv, SlotInv, slots
<1>11. ProcInv' /\ FinishInv'
  BY <1>1 DEF IInv, ProcInv, FinishInv
<1>12. OneAtATime'
  BY <1>1, <1>4, <1>7 DEF IInv, OneAtATime, slots
<1>13. AudioInv' /\ ToldInv'
  BY <1>6, <1>7, <1>8 DEF IInv, AudioInv, ToldInv
<1>14. TimeInv' /\ DueInv'
  <2>1. clock \in Nat /\ (playing # NoStream => due[playing] \in Nat)
    BY PipewireOutAssumption DEF IInv, OutputOK
  <2>2. (IF start_ticks' = NoTicks THEN 0 ELSE clock' - start_ticks') = 0 /\ start_ticks' <= clock'
    BY <1>1, <2>1 DEF NoTicks
  <2>3. skip_offset' + 0 = 0 /\ duration' = 0 /\ (playing' # NoStream => 0 <= due'[playing'])
    BY <1>1, <2>1 DEF slots
  <2>4. proc'.pc = "idle" /\ skip_offset' = 0 /\ start_ticks' = NoTicks /\ ~late'
    BY <1>1
  <2> QED
    BY <2>2, <2>3, <2>4 DEF TimeInv, DueInv
<1> QED
  BY <1>9, <1>10, <1>11, <1>12, <1>13, <1>14 DEF IInv

\* A stream that fails keeps its slot until main takes it out.
LEMMA OnErrorStep ==
  ASSUME IInv, NEW s \in Ids, OnError(s)
  PROVE  IInv'
<1> DEFINE x == [Gone EXCEPT !.conn = "error", !.active = stream[s].active]
           t == [told[s] EXCEPT !.bad = TRUE]
<1>1. /\ proc.pc = "idle" /\ stream[s].conn \in {"connecting", "ready"}
      /\ stream' = [stream EXCEPT ![s] = x] /\ told' = [told EXCEPT ![s].bad = TRUE]
      /\ UNCHANGED <<slots, proc, skip, timing, due>>
  BY DEF OnError, LoopFree
<1>2. stream[s] \in Stream /\ told[s] \in Abstract!Told /\ ToldOK(stream[s], told[s])
  BY DEF IInv, OutputOK, ToldInv
<1>3. told' = [told EXCEPT ![s] = t]
  BY <1>1 DEF IInv, OutputOK
<1>4. /\ x \in Stream /\ x.conn = "error" /\ x.state = "Running" /\ AudioOK(x)
      /\ x.active = stream[s].active /\ ~x.running
  <2>1. stream[s].active \in BOOLEAN
    BY <1>2 DEF Stream
  <2> QED
    BY <2>1, GoneFacts DEF Stream, AudioOK
<1>5. t \in Abstract!Told /\ t.gone = told[s].gone
  BY <1>2 DEF Abstract!Told
<1> HIDE DEF x, t
<1>6. ToldOK(x, t)
  BY <1>1, <1>2, <1>4, <1>5 DEF ToldOK
<1>7. /\ stream' \in [Ids -> Stream] /\ stream'[s] = x
      /\ \A r \in Ids : r # s => stream'[r] = stream[r]
  BY <1>1, <1>4, OneStream DEF IInv
<1>8. /\ told' \in [Ids -> Abstract!Told] /\ told'[s] = t
      /\ \A r \in Ids : r # s => told'[r] = told[r]
  BY <1>3, <1>5, OneTold DEF IInv
<1>9. OutputOK'
  BY <1>1, <1>7, <1>8 DEF IInv, OutputOK, slots, timing
<1>10. SlotInv'
  <2>1. \A r \in Ids : /\ stream'[r].conn \in Held <=> stream[r].conn \in Held
                       /\ stream'[r].conn = "none" <=> stream[r].conn = "none"
    BY <1>1, <1>4, <1>7 DEF Held
  <2> QED
    BY <1>1, <2>1 DEF IInv, SlotInv, slots
<1>11. ProcInv' /\ FinishInv'
  BY <1>1 DEF IInv, ProcInv, FinishInv
<1>12. OneAtATime'
  BY <1>1, <1>4, <1>7 DEF IInv, OneAtATime, slots
<1>13. AudioInv' /\ ToldInv'
  BY <1>4, <1>6, <1>7, <1>8 DEF IInv, AudioInv, ToldInv
<1>14. TimeInv' /\ DueInv'
  <2>1. playing # NoStream => stream'[playing].active = stream[playing].active
    BY <1>4, <1>7 DEF IInv, OutputOK
  <2> QED
    BY <1>1, <2>1 DEF IInv, TimeInv, DueInv, slots, timing
<1> QED
  BY <1>9, <1>10, <1>11, <1>12, <1>13, <1>14 DEF IInv

\* A stream that is connected goes on with the same slots and the same audio,
\* while no callback runs or what the callback sees is left alone.
LEMMA QuietStep ==
  ASSUME IInv, NEW s \in Ids, NEW x \in Stream,
         stream' = [stream EXCEPT ![s] = x], UNCHANGED <<slots, proc>>,
         x.conn = stream[s].conn, AudioOK(x),
         x.active = stream[s].active, x.running => x.active \/ stream[s].running,
         proc.pc = "idle" \/ (x.left = stream[s].left /\ x.audioBuf = stream[s].audioBuf)
  PROVE  /\ stream' \in [Ids -> Stream] /\ stream'[s] = x
         /\ \A r \in Ids : r # s => stream'[r] = stream[r]
         /\ SlotInv' /\ ProcInv' /\ OneAtATime' /\ AudioInv' /\ FinishInv'
<1>1. /\ stream' \in [Ids -> Stream] /\ stream'[s] = x
      /\ \A r \in Ids : r # s => stream'[r] = stream[r]
  BY OneStream DEF IInv
<1>2. \A r \in Ids : stream'[r].conn = stream[r].conn
  BY <1>1
<1>3. SlotInv'
  BY <1>2, SameSlots DEF IInv
<1>4. ProcInv'
  <2>1. playing # NoStream => playing \in Ids
    BY DEF IInv, OutputOK
  <2> QED
    BY <1>2, <2>1 DEF IInv, ProcInv, slots
<1>5. OneAtATime' /\ AudioInv'
  BY <1>1 DEF IInv, OneAtATime, AudioInv, slots
<1>6. FinishInv'
  <2>1. proc.pc = "finish" => proc.s \in Ids
    BY DEF IInv, OutputOK, ProcInv
  <2>2. proc.pc = "finish" => /\ stream'[proc.s].left = stream[proc.s].left
                              /\ stream'[proc.s].audioBuf = stream[proc.s].audioBuf
    BY <1>1, <2>1
  <2> QED
    BY <2>2 DEF IInv, FinishInv
<1> QED
  BY <1>1, <1>3, <1>4, <1>5, <1>6

\* on_drained, in the loop thread: main is told.
LEMMA StreamDrainedStep ==
  ASSUME IInv, NEW s \in Ids, StreamDrained(s)
  PROVE  IInv'
<1> DEFINE x == [stream[s] EXCEPT !.drain = "done"]
           t == [told[s] EXCEPT !.drained = TRUE]
<1>1. /\ proc.pc = "idle" /\ stream[s].conn = "ready" /\ stream[s].drain = "asked" /\ stream[s].level = 0
      /\ stream' = [stream EXCEPT ![s].drain = "done"] /\ told' = [told EXCEPT ![s].drained = TRUE]
      /\ UNCHANGED <<slots, proc, skip, timing, due>>
  BY DEF StreamDrained, LoopFree
<1>2. stream[s] \in Stream /\ told[s] \in Abstract!Told /\ AudioOK(stream[s]) /\ ToldOK(stream[s], told[s])
  BY DEF IInv, OutputOK, AudioInv, ToldInv
<1>3. stream' = [stream EXCEPT ![s] = x] /\ told' = [told EXCEPT ![s] = t]
  BY <1>1 DEF IInv, OutputOK
<1>4. /\ x \in Stream /\ x.conn = "ready" /\ x.state = stream[s].state /\ x.drain = "done"
      /\ x.active = stream[s].active /\ x.running = stream[s].running /\ x.left = stream[s].left
      /\ x.audioBuf = stream[s].audioBuf /\ x.level = 0
  BY <1>1, <1>2 DEF Stream
<1>5. /\ t \in Abstract!Told /\ t.start = told[s].start /\ t.eod = told[s].eod /\ t.bad = told[s].bad
      /\ t.gone = told[s].gone
  BY <1>2 DEF Abstract!Told
<1> HIDE DEF x, t
<1>6. AudioOK(x) /\ stream[s].state = "Draining"
  BY <1>1, <1>2, <1>4 DEF AudioOK
<1>7. ToldOK(x, t)
  BY <1>1, <1>2, <1>4, <1>5, <1>6 DEF ToldOK
<1>8. /\ stream' \in [Ids -> Stream] /\ stream'[s] = x
      /\ \A r \in Ids : r # s => stream'[r] = stream[r]
      /\ SlotInv' /\ ProcInv' /\ OneAtATime' /\ AudioInv' /\ FinishInv'
  BY <1>1, <1>3, <1>4, <1>6, QuietStep, ZenonT(40)
<1>9. /\ told' \in [Ids -> Abstract!Told] /\ told'[s] = t
      /\ \A r \in Ids : r # s => told'[r] = told[r]
  BY <1>3, <1>5, OneTold DEF IInv
<1>10. OutputOK'
  BY <1>1, <1>8, <1>9 DEF IInv, OutputOK, slots, timing
<1>11. ToldInv'
  BY <1>7, <1>8, <1>9 DEF IInv, ToldInv
<1>12. TimeInv' /\ DueInv'
  <2>1. playing # NoStream => stream'[playing].active = stream[playing].active
    BY <1>4, <1>8 DEF IInv, OutputOK
  <2> QED
    BY <1>1, <2>1 DEF IInv, TimeInv, DueInv, slots, timing
<1> QED
  BY <1>8, <1>10, <1>11, <1>12 DEF IInv

-----------------------------------------------------------------------------
(* PipeWire keeps the invariant                                            *)

\* A stream follows set_active.
LEMMA FollowStep ==
  ASSUME IInv, NEW s \in Ids, Follow(s)
  PROVE  IInv'
<1> DEFINE x == [stream[s] EXCEPT !.running = stream[s].active]
<1>1. /\ stream[s].conn = "ready" /\ stream' = [stream EXCEPT ![s].running = stream[s].active]
      /\ UNCHANGED <<slots, proc, skip, timing, told, due>>
  BY DEF Follow
<1>2. stream[s] \in Stream /\ AudioOK(stream[s]) /\ ToldOK(stream[s], told[s])
  BY DEF IInv, OutputOK, AudioInv, ToldInv
<1>3. stream' = [stream EXCEPT ![s] = x]
  BY <1>1 DEF IInv, OutputOK
<1>4. /\ x \in Stream /\ x.conn = "ready" /\ x.state = stream[s].state /\ x.drain = stream[s].drain
      /\ x.active = stream[s].active /\ x.running = stream[s].active /\ x.left = stream[s].left
      /\ x.audioBuf = stream[s].audioBuf /\ x.level = stream[s].level
  BY <1>1, <1>2 DEF Stream
<1> HIDE DEF x
<1>5. AudioOK(x) /\ ToldOK(x, told[s])
  BY <1>1, <1>2, <1>4 DEF AudioOK, ToldOK
<1>6. /\ stream' \in [Ids -> Stream] /\ stream'[s] = x
      /\ \A r \in Ids : r # s => stream'[r] = stream[r]
      /\ SlotInv' /\ ProcInv' /\ OneAtATime' /\ AudioInv' /\ FinishInv'
  BY <1>1, <1>3, <1>4, <1>5, QuietStep
<1>7. OutputOK'
  BY <1>1, <1>6 DEF IInv, OutputOK, slots, timing
<1>8. ToldInv'
  BY <1>1, <1>5, <1>6 DEF IInv, ToldInv
<1>9. TimeInv' /\ DueInv'
  <2>1. playing # NoStream => stream'[playing].active = stream[playing].active
    BY <1>4, <1>6 DEF IInv, OutputOK
  <2> QED
    BY <1>1, <2>1 DEF IInv, TimeInv, DueInv, slots, timing
<1> QED
  BY <1>6, <1>7, <1>8, <1>9 DEF IInv

\* As the clock goes on, what is due grows with it for every stream that is
\* active.
LEMMA TimePassesStep ==
  ASSUME IInv, TimePasses, UNCHANGED <<slots, proc>>,
         playing # NoStream => stream'[playing].active = stream[playing].active
  PROVE  /\ clock' \in 0 .. MaxClock /\ due' \in [Ids -> Nat]
         /\ UNCHANGED <<duration, start_ticks, skip_offset, late>>
         /\ TimeInv' /\ DueInv'
<1>1. /\ clock' = Smaller(clock + 1, MaxClock)
      /\ due' = [s \in Ids |-> IF stream[s].active \/ stream[s].running THEN due[s] + clock' - clock ELSE due[s]]
      /\ UNCHANGED <<duration, start_ticks, skip_offset, late>>
  BY DEF TimePasses
<1>2. /\ clock \in 0 .. MaxClock /\ clock \in Nat /\ start_ticks \in Int /\ duration \in Nat /\ skip_offset \in Nat
      /\ due \in [Ids -> Nat] /\ (playing # NoStream => playing \in Ids) /\ start_ticks <= clock
  BY PipewireOutAssumption DEF IInv, OutputOK, TimeInv, NoTicks
<1>3. clock' \in 0 .. MaxClock /\ clock' \in Nat /\ clock <= clock'
  BY <1>1, <1>2, PipewireOutAssumption DEF Smaller
<1>4. due' \in [Ids -> Nat]
  <2>1. \A s \in Ids : due[s] \in Nat /\ due[s] + clock' - clock \in Nat
    BY <1>2, <1>3
  <2> QED
    BY <1>1, <2>1
<1>5. TimeInv'
  BY <1>1, <1>2, <1>3 DEF IInv, TimeInv, slots
<1>6. DueInv'
  <2>1. playing # NoStream => /\ due[playing] \in Nat
                              /\ due'[playing] \in {due[playing], due[playing] + clock' - clock}
                              /\ stream[playing].active => due'[playing] = due[playing] + clock' - clock
    BY <1>1, <1>2
  <2>2. playing' = playing /\ proc' = proc
    BY DEF slots
  <2>3. playing # NoStream => due[playing] <= due'[playing]
    BY <2>1, <1>2, <1>3
  <2>4. CASE start_ticks = NoTicks
    BY <1>1, <1>2, <2>2, <2>3, <2>1, <1>4, <2>4 DEF IInv, DueInv
  <2>5. CASE start_ticks # NoTicks
    BY <1>1, <1>2, <1>3, <2>1, <2>2, <2>5 DEF IInv, DueInv
  <2> QED
    BY <2>4, <2>5
<1> QED
  BY <1>1, <1>3, <1>4, <1>5, <1>6

\* PipeWire plays a unit of a running stream.
LEMMA PlayStep ==
  ASSUME IInv, NEW s \in Ids, Play(s)
  PROVE  IInv'
<1> DEFINE x == [stream[s] EXCEPT !.level = stream[s].level - 1]
<1>1. /\ stream[s].conn = "ready" /\ stream[s].level > 0 /\ stream' = [stream EXCEPT ![s].level = @ - 1]
      /\ TimePasses /\ UNCHANGED <<slots, proc, skip, told>>
  BY DEF Play
<1>2. stream[s] \in Stream /\ AudioOK(stream[s]) /\ ToldOK(stream[s], told[s])
  BY DEF IInv, OutputOK, AudioInv, ToldInv
<1>3. stream' = [stream EXCEPT ![s] = x]
  BY <1>1 DEF IInv, OutputOK
<1>4. /\ x \in Stream /\ x.conn = "ready" /\ x.state = stream[s].state /\ x.drain = stream[s].drain
      /\ x.active = stream[s].active /\ x.running = stream[s].running /\ x.left = stream[s].left
      /\ x.audioBuf = stream[s].audioBuf
  <2>1. stream[s].level \in 0 .. Queued /\ stream[s].level - 1 \in 0 .. Queued
    BY <1>1, <1>2, PipewireOutAssumption DEF Stream
  <2> QED
    BY <1>1, <1>2, <2>1 DEF Stream
<1> HIDE DEF x
<1>5. AudioOK(x) /\ ToldOK(x, told[s])
  <2>1. stream[s].drain # "done"
    BY <1>1, <1>2 DEF AudioOK
  <2> QED
    BY <1>1, <1>2, <1>4, <2>1 DEF AudioOK, ToldOK
<1>6. /\ stream' \in [Ids -> Stream] /\ stream'[s] = x
      /\ \A r \in Ids : r # s => stream'[r] = stream[r]
      /\ SlotInv' /\ ProcInv' /\ OneAtATime' /\ AudioInv' /\ FinishInv'
  BY <1>1, <1>3, <1>4, <1>5, QuietStep
<1>7. /\ clock' \in 0 .. MaxClock /\ due' \in [Ids -> Nat]
      /\ UNCHANGED <<duration, start_ticks, skip_offset, late>>
      /\ TimeInv' /\ DueInv'
  <2>1. playing # NoStream => stream'[playing].active = stream[playing].active
    BY <1>4, <1>6 DEF IInv, OutputOK
  <2> QED
    BY <1>1, <2>1, TimePassesStep
<1>8. OutputOK'
  BY <1>1, <1>6, <1>7 DEF IInv, OutputOK, slots
<1>9. ToldInv'
  BY <1>1, <1>5, <1>6 DEF IInv, ToldInv
<1> QED
  BY <1>6, <1>7, <1>8, <1>9 DEF IInv

\* The clock goes on with nothing to play.
LEMMA IdleStep ==
  ASSUME IInv, Idle
  PROVE  IInv'
<1>1. TimePasses /\ UNCHANGED <<stream, slots, proc, skip, told>>
  BY DEF Idle
<1>2. /\ clock' \in 0 .. MaxClock /\ due' \in [Ids -> Nat]
      /\ UNCHANGED <<duration, start_ticks, skip_offset, late>>
      /\ TimeInv' /\ DueInv'
  BY <1>1, TimePassesStep
<1>3. OutputOK'
  BY <1>1, <1>2 DEF IInv, OutputOK, slots
<1>4. SlotInv' /\ ProcInv' /\ OneAtATime' /\ AudioInv' /\ FinishInv' /\ ToldInv'
  BY <1>1 DEF IInv, SlotInv, ProcInv, OneAtATime, AudioInv, FinishInv, ToldInv, slots
<1> QED
  BY <1>2, <1>3, <1>4 DEF IInv

-----------------------------------------------------------------------------
(* The invariant holds                                                     *)

\* It holds at the start.
LEMMA InitInv ==
  ASSUME Init
  PROVE  IInv
<1>1. NoneYet \in Stream /\ NoneYet.conn = "none" /\ NoneYet.state = "Running" /\ NoneYet.drain = "no"
      /\ ~NoneYet.active /\ ~NoneYet.running
  <2>1. 0 \in 0 .. Limit /\ 0 \in 0 .. Queued
    BY PipewireOutAssumption
  <2> QED
    BY <2>1 DEF NoneYet, NewStream, Stream
<1>2. Abstract!Silent \in Abstract!Told /\ ~Abstract!Silent.gone
  BY DEF Abstract!Silent, Abstract!Told
<1>3. /\ stream \in [Ids -> Stream] /\ told \in [Ids -> Abstract!Told] /\ due \in [Ids -> Nat]
      /\ \A s \in Ids : stream[s] = NoneYet /\ told[s] = Abstract!Silent
  BY <1>1, <1>2 DEF Init
<1>4. /\ playing = NoStream /\ next_up = NoStream /\ opening = NoStream /\ proc = NoProc /\ skip = 0
      /\ clock = 0 /\ duration = 0 /\ start_ticks = NoTicks /\ skip_offset = 0 /\ late = FALSE
  BY DEF Init
<1>5. OutputOK
  <2>1. proc \in [s : Ids \cup {NoStream}, pc : {"idle", "decode", "finish"},
                  skip_time : 0 .. MaxSkip, eod : BOOLEAN]
    BY <1>4, PipewireOutAssumption DEF NoProc
  <2>2. skip \in 0 .. MaxSkip /\ clock \in 0 .. MaxClock
    BY <1>4, PipewireOutAssumption
  <2> QED
    BY <1>3, <1>4, <2>1, <2>2 DEF OutputOK
<1>6. SlotInv
  BY <1>1, <1>3, <1>4 DEF SlotInv, Held, Ids, NoStream
<1>7. ProcInv /\ FinishInv
  BY <1>4 DEF ProcInv, FinishInv, NoProc
<1>8. OneAtATime /\ AudioInv
  BY <1>1, <1>3 DEF OneAtATime, AudioInv, AudioOK
<1>9. ToldInv
  BY <1>1, <1>2, <1>3 DEF ToldInv, ToldOK
<1>10. TimeInv /\ DueInv
  BY <1>4 DEF TimeInv, DueInv, NoTicks
<1> QED
  BY <1>5, <1>6, <1>7, <1>8, <1>9, <1>10 DEF IInv

\* Every step keeps it.
LEMMA StepInv ==
  ASSUME IInv, JobInv, [Next]_vars
  PROVE  IInv'
<1>1. ASSUME UNCHANGED <<stream, slots, proc, skip, timing, told, due>>
      PROVE  IInv'
  <2>1. OutputOK' /\ SlotInv' /\ ProcInv' /\ OneAtATime'
    BY <1>1 DEF IInv, OutputOK, SlotInv, ProcInv, OneAtATime, slots, timing
  <2>2. AudioInv' /\ FinishInv' /\ ToldInv' /\ TimeInv' /\ DueInv'
    BY <1>1 DEF IInv, AudioInv, FinishInv, ToldInv, TimeInv, DueInv, slots, timing
  <2> QED
    BY <2>1, <2>2 DEF IInv
<1>2. CASE Working
  <2>1. CASE Refuse
    BY <1>1, <2>1 DEF Refuse
  <2> QED
    BY <1>2, <2>1, OpenStreamStep, EstablishStep, EnqueueStep, PauseStep, UnpauseStep, StopStep, ShiftStep
    DEF Working
<1>3. ASSUME NEW kind \in Commands \cup {"open"}, Ask(kind)
      PROVE  IInv'
  BY <1>1, <1>3 DEF Ask
<1>4. CASE TakeMessage \/ PostCallback \/ OtherMessage
  BY <1>1, <1>4 DEF TakeMessage, PostCallback, OtherMessage
<1>5. CASE OnSkip
  BY <1>5, OnSkipStep
<1>6. ASSUME NEW s \in Ids,
             Process(s) \/ OnConnected(s) \/ OnError(s) \/ StreamDrained(s) \/ Follow(s) \/ Play(s)
      PROVE  IInv'
  BY <1>6, BeginProcessStep, TurnAgainStep, FinishProcessStep, OnConnectedStep, OnErrorStep,
     StreamDrainedStep, FollowStep, PlayStep DEF Process
<1>7. CASE Idle
  BY <1>7, IdleStep
<1>8. CASE UNCHANGED vars
  BY <1>1, <1>8 DEF vars
<1> QED
  BY <1>2, <1>3, <1>4, <1>5, <1>6, <1>7, <1>8 DEF Next, Main

\* So both hold throughout.
LEMMA Invariance == Spec => [](IInv /\ MInv)
<1>1. Init => IInv /\ MInv
  <2>1. Init => MInv
    BY PipewireOutAssumption DEF Init, MInv, MainOK, JobInv, Jobs
  <2> QED
    BY <2>1, InitInv
<1>2. IInv /\ MInv /\ [Next]_vars => (IInv /\ MInv)'
  BY StepInv, MainInvStep DEF MInv
<1> QED
  BY <1>1, <1>2, PTL DEF Spec

-----------------------------------------------------------------------------
(* What follows from it                                                    *)

\* The variables keep their types: PipeWire is never given more than it has
\* buffers for, the queue never holds more than it should, and the reported
\* time is never negative.
THEOREM TypeCorrect == Spec => []TypeOK
<1>1. IInv /\ MInv => TypeOK
  BY DEF IInv, MInv, TypeOK
<1> QED
  BY <1>1, Invariance, PTL

\* Only the stream in the playing slot is active or running, however many
\* streams come and go (set_active in pipewire_out.rs).
THEOREM OneAtATimeHolds == Spec => []OneAtATime
<1>1. IInv => OneAtATime
  BY DEF IInv
<1> QED
  BY <1>1, Invariance, PTL

\* A stream is reported as drained only when its decoder, its buffer and
\* PipeWire have nothing left of it.
THEOREM EndsCompleteHolds == Spec => []EndsComplete
<1>1. IInv => EndsComplete
  BY DEF IInv, AudioInv, AudioOK, EndsComplete
<1> QED
  BY <1>1, Invariance, PTL

\* A pause is not counted as playback, unless a late callback has set the
\* anchor before it.
THEOREM PauseGapNotCountedHolds == Spec => []PauseGapNotCounted
<1>1. IInv => PauseGapNotCounted
  <2> SUFFICES ASSUME IInv, playing # NoStream, ~late
               PROVE  duration <= due[playing]
    BY DEF PauseGapNotCounted
  <2>1. /\ duration \in Int /\ skip_offset \in Int /\ clock \in Int /\ start_ticks \in Int
        /\ due[playing] \in Int
    BY DEF IInv, OutputOK, NoTicks
  <2> QED
    BY <2>1 DEF IInv, TimeInv, DueInv
<1> QED
  BY <1>1, Invariance, PTL

\* Of all the steps that leave a track playing, only the connection of another
\* stream lowers the elapsed time.
THEOREM FallsOnlyOnConnectHolds == Spec => FallsOnlyOnConnect
<1> DEFINE Falls == playing # NoStream /\ playing' = playing /\ duration' < duration
           Connects == \E s \in Ids : stream[s].conn = "connecting" /\ stream'[s].conn = "ready"
<1>1. ASSUME IInv, [Next]_vars, Falls
      PROVE  Connects
  <2>1. duration \in Int /\ duration' # duration
    BY <1>1 DEF IInv, OutputOK
  <2>2. CASE Main
    <3>1. CASE Stop
      BY <1>1, <3>1 DEF Stop
    <3>2. CASE Shift
      BY <1>1, <3>2 DEF Shift, IInv, OutputOK, SlotInv, NoStream, Ids
    <3> QED
      BY <2>1, <2>2, <3>1, <3>2 DEF Main, Working, Ask, TakeMessage, OpenStream, Refuse, Establish, Enqueue,
                                    Pause, Unpause, OnSkip, timing
  <2>3. ASSUME NEW s \in Ids, BeginProcess(s) \/ TurnAgain
        PROVE  UNCHANGED duration
    BY <2>3 DEF BeginProcess, TurnAgain, Turn
  <2>4. CASE FinishProcess
    <3>1. /\ clock \in Int /\ start_ticks \in Int /\ skip_offset \in Int /\ start_ticks <= clock
          /\ duration <= skip_offset + (IF start_ticks = NoTicks THEN 0 ELSE clock - start_ticks)
      BY <1>1, PipewireOutAssumption DEF IInv, OutputOK, TimeInv, NoTicks
    <3>2. /\ start_ticks' = IF start_ticks = NoTicks THEN clock ELSE start_ticks
          /\ duration' = clock - start_ticks' + skip_offset
      BY <2>1, <2>4 DEF FinishProcess
    <3> QED
      BY <1>1, <2>1, <3>1, <3>2
  <2>5. ASSUME NEW s \in Ids, OnConnected(s)
        PROVE  Connects
    BY <1>1, <2>5 DEF OnConnected, IInv, OutputOK, Stream
  <2>6. ASSUME NEW s \in Ids, OnError(s) \/ StreamDrained(s) \/ Follow(s) \/ Play(s)
        PROVE  UNCHANGED duration
    BY <2>6 DEF OnError, StreamDrained, Follow, Play, TimePasses, timing
  <2>7. CASE Idle \/ PostCallback \/ OtherMessage \/ UNCHANGED vars
    BY <2>1, <2>7 DEF Idle, TimePasses, PostCallback, OtherMessage, vars, timing
  <2> QED
    BY <1>1, <2>1, <2>2, <2>3, <2>4, <2>5, <2>6, <2>7 DEF Next, Process
<1>2. IInv /\ [Next]_vars => [Falls => Connects]_vars
  BY <1>1
<1>3. [][Falls => Connects]_vars => FallsOnlyOnConnect
  BY DEF FallsOnlyOnConnect
<1> HIDE DEF Falls, Connects
<1> QED
  BY <1>2, <1>3, Invariance, PTL DEF Spec

-----------------------------------------------------------------------------
(* PipewireOut implements AudioOutput                                      *)

\* Streams that leave: a step of AudioOutput.
LEMMA LeaveRefines ==
  ASSUME IInv, NEW g, g \subseteq Ids, \A s \in g : stream[s].conn \in Held, told' = ToldWithout(g)
  PROVE  Abstract!Next
<1>1. \A s \in g : ~told[s].gone
  BY DEF IInv, ToldInv, ToldOK, Held
<1>2. Abstract!Leave(g)
  BY <1>1 DEF Abstract!Leave, ToldWithout, Ids, Abstract!Ids
<1> QED
  BY <1>2 DEF Abstract!Next, Ids, Abstract!Ids

\* The main thread: what it tells is a message or a departure.
LEMMA MainRefines ==
  ASSUME IInv, JobInv, Main
  PROVE  [Abstract!Next]_told
<1> USE DEF Ids, Abstract!Ids
<1>1. ASSUME NEW s \in Ids, NEW track \in Tracks[s], OpenStream(s, track[1], track[2])
      PROVE  [Abstract!Next]_told
  <2>1. CASE UNCHANGED told
    BY <2>1
  <2>2. CASE told' = [told EXCEPT ![s] = Abstract!Finished]
    <3>1. told \in [Ids -> Abstract!Told] /\ told[s] = Abstract!Silent
      BY <1>1 DEF OpenStream, IInv, OutputOK, ToldInv, ToldOK
    <3>2. ~told[s].gone
      BY <3>1 DEF Abstract!Silent
    <3>3. told' = [r \in Ids |-> IF r \in {s} THEN Abstract!Finished ELSE told[r]]
      BY <2>2, <3>1
    <3>4. Abstract!Leave({s})
      BY <3>2, <3>3 DEF Abstract!Leave
    <3> QED
      BY <3>4 DEF Abstract!Next
  <2> QED
    BY <1>1, <2>1, <2>2 DEF OpenStream
<1>2. CASE Establish
  <2>1. /\ opening \in Ids /\ told[opening].est = 0 /\ told' = [told EXCEPT ![opening].est = @ + 1]
        /\ told \in [Ids -> Abstract!Told]
    BY <1>2 DEF Establish, IInv, OutputOK, NoStream
  <2>2. ~told[opening].gone
    BY <2>1 DEF IInv, SlotInv, ToldInv, ToldOK, Held
  <2>3. Abstract!Establish(opening)
    BY <2>1, <2>2 DEF Abstract!Establish
  <2> QED
    BY <2>1, <2>3 DEF Abstract!Next
<1>3. CASE Enqueue
  <2> DEFINE g == {Replaced} \ {NoStream}
  <2>1. told' = ToldWithout(g)
    BY <1>3 DEF Enqueue
  <2>2. g \subseteq Ids /\ \A s \in g : stream[s].conn \in Held
    BY DEF IInv, OutputOK, SlotInv, Replaced
  <2> HIDE DEF g
  <2> QED
    BY <2>1, <2>2, LeaveRefines
<1>4. CASE Unpause
  <2>1. /\ playing \in Ids /\ told' = [told EXCEPT ![playing].drained = FALSE]
        /\ told \in [Ids -> Abstract!Told]
    BY <1>4 DEF Unpause, JobInv, IInv, OutputOK
  <2>2. ~told[playing].gone
    BY <2>1 DEF IInv, SlotInv, ToldInv, ToldOK, Held
  <2>3. CASE told[playing].drained
    <3>1. Abstract!Resume(playing)
      BY <2>1, <2>2, <2>3 DEF Abstract!Resume
    <3> QED
      BY <2>1, <3>1 DEF Abstract!Next
  <2>4. CASE ~told[playing].drained
    <3>1. [told[playing] EXCEPT !.drained = FALSE] = told[playing]
      BY <2>1, <2>4 DEF Abstract!Told
    <3>2. told' = [told EXCEPT ![playing] = told[playing]]
      BY <2>1, <3>1
    <3> QED
      BY <2>1, <3>2
  <2> QED
    BY <2>3, <2>4
<1>5. CASE Stop
  <2> DEFINE g == {playing, next_up} \ {NoStream}
  <2>1. told' = ToldWithout(g)
    BY <1>5 DEF Stop
  <2>2. g \subseteq Ids /\ \A s \in g : stream[s].conn \in Held
    BY DEF IInv, OutputOK, SlotInv
  <2> HIDE DEF g
  <2> QED
    BY <2>1, <2>2, LeaveRefines
<1>6. CASE Shift
  <2> DEFINE g == {playing} \ {NoStream}
  <2>1. told' = ToldWithout(g)
    BY <1>6 DEF Shift
  <2>2. g \subseteq Ids /\ \A s \in g : stream[s].conn \in Held
    BY DEF IInv, OutputOK, SlotInv
  <2> HIDE DEF g
  <2> QED
    BY <2>1, <2>2, LeaveRefines
<1>7. CASE TakeMessage \/ Refuse \/ Pause \/ OnSkip \/ \E kind \in Commands \cup {"open"} : Ask(kind)
  BY <1>7 DEF TakeMessage, Refuse, Pause, OnSkip, Ask
<1> QED
  BY <1>1, <1>2, <1>3, <1>4, <1>5, <1>6, <1>7 DEF Main, Working

\* A decoder that fails in on_process is reported as not supported.
LEMMA TurnRefines ==
  ASSUME IInv, NEW s \in Ids, NEW skip_time, stream[s].conn = "ready", Turn(s, skip_time)
  PROVE  [Abstract!Next]_told
<1>1. /\ told' = [told EXCEPT ![s].bad = @ \/ Fails(stream[s])] /\ told \in [Ids -> Abstract!Told]
      /\ told[s] \in Abstract!Told
  BY DEF Turn, IInv, OutputOK
<1>2. CASE Fails(stream[s])
  <2>1. [told[s] EXCEPT !.bad = @ \/ Fails(stream[s])] = [told[s] EXCEPT !.bad = TRUE]
    BY <1>1, <1>2
  <2>2. told' = [told EXCEPT ![s].bad = TRUE]
    BY <1>1, <2>1
  <2>3. Abstract!Fail(s)
    BY <2>2 DEF Abstract!Fail, IInv, ToldInv, ToldOK
  <2> QED
    BY <2>3 DEF Abstract!Next, Ids, Abstract!Ids
<1>3. CASE ~Fails(stream[s])
  <2>1. [told[s] EXCEPT !.bad = @ \/ Fails(stream[s])] = told[s]
    BY <1>1, <1>3 DEF Abstract!Told
  <2>2. told' = [told EXCEPT ![s] = told[s]]
    BY <1>1, <2>1
  <2> QED
    BY <1>1, <2>2
<1> QED
  BY <1>2, <1>3

\* The callbacks.  A stream drains only when no stream before it is left: the
\* slots are in order, and only the playing one runs.
LEMMA CallbackRefines ==
  ASSUME IInv, NEW s \in Ids, Process(s) \/ OnConnected(s) \/ OnError(s) \/ StreamDrained(s)
  PROVE  [Abstract!Next]_told
<1> USE DEF Ids, Abstract!Ids
<1>1. told \in [Ids -> Abstract!Told] /\ told[s] \in Abstract!Told
  BY DEF IInv, OutputOK
<1>2. CASE BeginProcess(s)
  BY <1>2, TurnRefines DEF BeginProcess
<1>3. CASE proc.s = s /\ TurnAgain
  BY <1>3, TurnRefines DEF TurnAgain, IInv, ProcInv
<1>4. CASE proc.s = s /\ FinishProcess
  <2> DEFINE st == stream[s]
  <2>1. told' = [told EXCEPT ![s].eod = IF EndsDecoding(st) THEN @ + 1 ELSE @]
    BY <1>4 DEF FinishProcess
  <2>2. st.conn = "ready" /\ ToldOK(st, told[s])
    BY <1>4 DEF FinishProcess, IInv, ProcInv, ToldInv
  <2>3. CASE EndsDecoding(st)
    <3>1. told[s].eod = 0 /\ ~told[s].drained /\ ~told[s].gone /\ told[s].start = 1
      BY <2>2, <2>3 DEF EndsDecoding, ToldOK
    <3>2. told' = [told EXCEPT ![s].eod = 1]
      BY <1>1, <2>1, <2>3, <3>1
    <3>3. Abstract!EndDecode(s)
      BY <3>1, <3>2 DEF Abstract!EndDecode, Abstract!Done
    <3> QED
      BY <3>3 DEF Abstract!Next
  <2>4. CASE ~EndsDecoding(st)
    <3>1. told' = [told EXCEPT ![s].eod = told[s].eod]
      BY <1>1, <2>1, <2>4
    <3>2. [told[s] EXCEPT !.eod = told[s].eod] = told[s]
      BY <1>1 DEF Abstract!Told
    <3> QED
      BY <1>1, <3>1, <3>2
  <2> QED
    BY <2>3, <2>4
<1>5. CASE OnConnected(s)
  <2>1. told[s].start = 0 /\ ~told[s].gone
    BY <1>5 DEF OnConnected, IInv, ToldInv, ToldOK
  <2>2. told' = [told EXCEPT ![s].start = 1]
    BY <1>1, <1>5, <2>1 DEF OnConnected
  <2>3. Abstract!Start(s)
    BY <2>1, <2>2 DEF Abstract!Start
  <2> QED
    BY <2>3 DEF Abstract!Next
<1>6. CASE OnError(s)
  <2>1. ~told[s].gone /\ told' = [told EXCEPT ![s].bad = TRUE]
    BY <1>6 DEF OnError, IInv, ToldInv, ToldOK
  <2>2. Abstract!Fail(s)
    BY <2>1 DEF Abstract!Fail
  <2> QED
    BY <2>2 DEF Abstract!Next
<1>7. CASE StreamDrained(s)
  <2> DEFINE st == stream[s]
  <2>1. /\ st.conn = "ready" /\ st.running /\ st.drain = "asked" /\ s = playing
        /\ told' = [told EXCEPT ![s].drained = TRUE] /\ ToldOK(st, told[s]) /\ AudioOK(st)
    BY <1>7 DEF StreamDrained, IInv, OneAtATime, ToldInv, AudioInv
  <2>2. ~told[s].gone /\ told[s].start = 1 /\ (told[s].eod = 1 \/ told[s].bad)
    BY <2>1 DEF AudioOK, ToldOK
  <2>3. \A r \in 1 .. s - 1 : told[r].gone
    <3> SUFFICES ASSUME NEW r \in 1 .. s - 1
                 PROVE  told[r].gone
      OBVIOUS
    <3>0. r \in Nat \ {0} /\ r \in Ids /\ r < s /\ s \in Nat
      BY PipewireOutAssumption
    <3>a. next_up \in Nat /\ opening \in Nat
      <4>1. next_up \in Ids \cup {0} /\ opening \in Ids \cup {0}
        BY DEF IInv, OutputOK, NoStream
      <4> QED
        BY <4>1, PipewireOutAssumption
    <3>b. (next_up # 0 => s < next_up) /\ (opening # 0 => s < opening)
      BY <2>1 DEF IInv, SlotInv, NoStream
    <3>1. r \in Ids /\ r < s /\ r # playing /\ r # next_up /\ r # opening
      BY <2>1, <3>0, <3>a, <3>b
    <3>2. stream[r].conn \notin Held /\ stream[r].conn # "none"
      BY <2>1, <3>1 DEF IInv, SlotInv
    <3>3. stream[r].conn \in {"none", "connecting", "ready", "error", "gone"}
      BY <3>1 DEF IInv, OutputOK, Stream
    <3> QED
      BY <3>1, <3>2, <3>3 DEF Held, IInv, ToldInv, ToldOK
  <2>4. CASE ~told[s].drained
    <3>1. Abstract!Drain(s)
      BY <2>1, <2>2, <2>3, <2>4 DEF Abstract!Drain, Abstract!Done
    <3> QED
      BY <3>1 DEF Abstract!Next
  <2>5. CASE told[s].drained
    <3>1. [told[s] EXCEPT !.drained = TRUE] = told[s]
      BY <1>1, <2>5 DEF Abstract!Told
    <3> QED
      BY <1>1, <2>1, <3>1
  <2> QED
    BY <2>4, <2>5
<1> QED
  BY <1>2, <1>3, <1>4, <1>5, <1>6, <1>7 DEF Process

\* What the PipeWire output posts is what the event loop may expect of any
\* output: each message at most once, in its order, and Drained only when
\* every stream before it is done with.
THEOREM ImplementsAudioOutputHolds == Spec => ImplementsAudioOutput
<1>1. Init => Abstract!Init
  BY DEF Init, Abstract!Init, Ids, Abstract!Ids
<1>2. IInv /\ MInv /\ [Next]_vars => [Abstract!Next]_told
  <2> SUFFICES ASSUME IInv, JobInv, [Next]_vars
               PROVE  [Abstract!Next]_told
    BY DEF MInv
  <2>1. CASE Main
    BY <2>1, MainRefines
  <2>2. ASSUME NEW s \in Ids, Process(s) \/ OnConnected(s) \/ OnError(s) \/ StreamDrained(s)
        PROVE  [Abstract!Next]_told
    BY <2>2, CallbackRefines
  <2>3. ASSUME NEW s \in Ids, Follow(s) \/ Play(s)
        PROVE  UNCHANGED told
    BY <2>3 DEF Follow, Play
  <2>4. CASE Idle \/ PostCallback \/ OtherMessage \/ UNCHANGED vars
    BY <2>4 DEF Idle, PostCallback, OtherMessage, vars
  <2> QED
    BY <2>1, <2>2, <2>3, <2>4 DEF Next
<1> QED
  BY <1>1, <1>2, Invariance, PTL DEF Spec, ImplementsAudioOutput, Abstract!Spec

=============================================================================
