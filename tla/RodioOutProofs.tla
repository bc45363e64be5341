---------------------------- MODULE RodioOutProofs ----------------------------
(***************************************************************************)
(* RodioOut keeps its promises for any number of streams, tracks of any    *)
(* length, and frames, skips and queues of any size: one inductive         *)
(* invariant carries the completeness of what is played and the            *)
(* implementation of AudioOutput.                                          *)
(***************************************************************************)
EXTENDS RodioOut, TLAPS

-----------------------------------------------------------------------------
(* The inductive invariant                                                 *)

\* Where next will go on once a decoder error has been posted.
Stage(d) == IF d.pc = "bad" THEN d.then ELSE d.pc

\* The stream that main is handing over.
Handing(s) == main.pc \in {"establish", "append"} /\ main.s = s

\* The sink holds its sources in the order in which they were handed over, and
\* the one main is about to append is the last.
SinkInv ==
  /\ \A i, j \in 1 .. Len(sink) : i < j => sink[i] < sink[j]
  /\ \A i \in 1 .. Len(sink) : src[sink[i]].at = "sink"
  /\ \A s \in Ids : src[s].at = "sink" => \E i \in 1 .. Len(sink) : sink[i] = s
  /\ \A r, s \in Ids : r < s /\ src[s].at # "none" => src[r].at # "none"
  /\ \A s \in Ids : src[s].at = "main" <=> Handing(s)
  /\ \A s \in Ids : Handing(s) => \A r \in Ids : src[r].at # "none" => r <= s

\* main knows the stream it is handing over.
MainInv == main.pc \in {"establish", "append"} => main.s # 0

\* A device is open as long as there is something to play.
OpenInv ==
  /\ ~open => Len(sink) = 0 /\ dev.pc = "idle"
  /\ dev.pc # "idle" => Len(sink) > 0

\* Every sample of a source is out, decoded, or still to be decoded.
CountOK(st) ==
  /\ st.at \in {"main", "sink"} => st.total = st.out + st.frame + st.left
  /\ st.at = "done" => st.out = st.total
  /\ st.eod_flag => st.left = 0
  /\ st.frame < 3 * Min

CountInv == \A s \in Ids : CountOK(src[s])

\* What next knows of its source at each of its steps: above all, nothing is
\* popped from an empty frame unless the decoder has ended.
DevOK(d, st) ==
  /\ d.pc = "bad" => d.then \in {"again", "ended"}
  /\ Stage(d) = "announce" => st.start_flag
  /\ Stage(d) \in {"refill", "again", "ended", "pop"} => ~st.start_flag
  /\ Stage(d) \in {"refill", "again"} => st.frame < Min /\ ~st.eod_flag
  /\ Stage(d) = "ended" => st.eod_flag
  /\ Stage(d) = "pop" => st.frame > 0 \/ st.eod_flag

DevInv == dev.pc # "idle" => DevOK(dev, src[Cur])

\* The end of decoding has been noticed and not yet posted.
Ending(s) == Len(sink) > 0 /\ s = Cur /\ Stage(dev) = "ended"

\* What has been told of a stream, and what has not been yet.
ToldOK(st, t, ending, established) ==
  /\ t.gone <=> st.at = "gone"
  /\ st.at = "none" => t = Abstract!Silent
  /\ st.at \in {"main", "sink"} =>
       /\ ~t.drained
       /\ t.est = IF established THEN 1 ELSE 0
       /\ t.start = IF st.start_flag THEN 0 ELSE 1
       /\ t.eod = IF st.eod_flag /\ ~ending THEN 1 ELSE 0
  /\ st.at = "main" => st.start_flag /\ ~st.eod_flag
  /\ st.at = "done" => t.drained

ToldInv ==
  \A s \in Ids : ToldOK(src[s], told[s], Ending(s), src[s].at = "sink" \/ main.pc = "append")

\* The states of the two threads.
Mains == [pc : {"idle", "establish", "append", "pause", "drop"}, s : 0 .. Streams, autostart : BOOLEAN]

Devs ==
  [pc : {"idle", "announce", "refill", "again", "bad", "ended", "pop"}, skip : 0 .. MaxSkip,
   then : {"idle", "again", "ended", "pop"}]

IInv == TypeOK /\ SinkInv /\ MainInv /\ OpenInv /\ CountInv /\ DevInv /\ ToldInv

-----------------------------------------------------------------------------
(* Facts about single sources                                              *)

\* The source that next is called on is one of the sink, the first.
LEMMA CurFacts ==
  ASSUME IInv, Len(sink) > 0
  PROVE  /\ Cur \in Ids /\ Cur = sink[1] /\ 1 \in 1 .. Len(sink)
         /\ src[Cur] \in Source /\ src[Cur].at = "sink" /\ told[Cur] \in Abstract!Told
<1>1. sink \in Seq(Ids) /\ Len(sink) \in Nat /\ 1 \in 1 .. Len(sink)
  BY DEF IInv, TypeOK
<1>2. Cur = sink[1] /\ sink[1] \in Ids
  BY <1>1 DEF Cur
<1> QED
  BY <1>1, <1>2 DEF IInv, TypeOK, SinkInv

\* A source that was never handed over, or has left.
LEMMA NoneFacts ==
  /\ NoneYet \in Source /\ NoneYet.at = "none" /\ CountOK(NoneYet)
  /\ Gone \in Source /\ Gone.at = "gone" /\ CountOK(Gone)
<1>1. 0 < 3 * Min
  BY RodioOutAssumption
<1>2. /\ NoneYet \in Source /\ NoneYet.at = "none" /\ ~NoneYet.eod_flag /\ NoneYet.frame = 0
  BY DEF NoneYet, NewSource, Source
<1>3. /\ Gone \in Source /\ Gone.at = "gone" /\ ~Gone.eod_flag /\ Gone.frame = 0
  BY <1>2 DEF Gone, Source
<1> QED
  BY <1>1, <1>2, <1>3 DEF CountOK

\* Where main stands when it is not handing over a stream.
LEMMA MainFacts ==
  /\ NoWork \in Mains /\ NoWork.pc = "idle"
  /\ [NoWork EXCEPT !.pc = "drop"] \in Mains /\ [NoWork EXCEPT !.pc = "drop"].pc = "drop"
<1>1. NoWork \in Mains /\ NoWork.pc = "idle"
  BY RodioOutAssumption DEF NoWork, Mains
<1> QED
  BY <1>1 DEF Mains

\* One source is replaced by another value of the same type.
LEMMA OneSource ==
  ASSUME TypeOK, NEW s \in Ids, NEW x \in Source, src' = [src EXCEPT ![s] = x]
  PROVE  /\ src' \in [Ids -> Source] /\ src'[s] = x
         /\ \A r \in Ids : r # s => src'[r] = src[r]
BY DEF TypeOK

\* What is told of one stream is replaced.
LEMMA OneTold ==
  ASSUME TypeOK, NEW s \in Ids, NEW t \in Abstract!Told, told' = [told EXCEPT ![s] = t]
  PROVE  /\ told' \in [Ids -> Abstract!Told] /\ told'[s] = t
         /\ \A r \in Ids : r # s => told'[r] = told[r]
BY DEF TypeOK

\* The order of the sink does not depend on what next does to a source.
LEMMA SameSink ==
  ASSUME SinkInv, UNCHANGED <<sink, main>>, src \in [Ids -> Source], sink \in Seq(Ids),
         \A s \in Ids : src'[s].at = src[s].at
  PROVE  SinkInv'
<1>1. \A i \in 1 .. Len(sink) : sink[i] \in Ids
  OBVIOUS
<1> QED
  BY <1>1 DEF SinkInv, Handing

\* A message goes to a queue that has room.
LEMMA PostFacts ==
  ASSUME TypeOK, NEW msg \in {"drained", "other"}, Post(msg)
  PROVE  queue' \in Seq({"drained", "other"}) /\ Len(queue') <= QueueCap
BY RodioOutAssumption DEF TypeOK, Post

-----------------------------------------------------------------------------
(* The audio thread keeps the invariant                                    *)

\* A step of next within a source: only the first source, what is told of it
\* and the thread's own state change.
LEMMA DevStep ==
  ASSUME IInv, Len(sink) > 0,
         NEW x \in Source, NEW t \in Abstract!Told,
         src' = [src EXCEPT ![Cur] = x], told' = [told EXCEPT ![Cur] = t],
         UNCHANGED <<open, sink, paused, main>>, open,
         dev' \in Devs, skip' \in 0 .. MaxSkip,
         queue' \in Seq({"drained", "other"}), Len(queue') <= QueueCap,
         x.at = "sink", CountOK(x), dev'.pc # "idle" => DevOK(dev', x),
         ToldOK(x, t, Stage(dev') = "ended", TRUE)
  PROVE  IInv'
<1>1. /\ Cur \in Ids /\ src[Cur].at = "sink"
  BY CurFacts
<1>2. /\ src' \in [Ids -> Source] /\ src'[Cur] = x
      /\ \A r \in Ids : r # Cur => src'[r] = src[r]
  BY <1>1, OneSource DEF IInv
<1>3. /\ told' \in [Ids -> Abstract!Told] /\ told'[Cur] = t
      /\ \A r \in Ids : r # Cur => told'[r] = told[r]
  BY <1>1, OneTold DEF IInv
<1>4. TypeOK'
  <2>1. \A s \in Ids : src'[s].frame < 3 * Min
    BY <1>2 DEF IInv, CountInv, CountOK
  <2> QED
    BY <1>2, <1>3, <2>1 DEF IInv, TypeOK, Devs
<1>5. SinkInv'
  <2>1. \A s \in Ids : src'[s].at = src[s].at
    BY <1>1, <1>2
  <2> QED
    BY <2>1, SameSink DEF IInv, TypeOK
<1>6. OpenInv' /\ MainInv'
  BY DEF IInv, OpenInv, MainInv
<1>7. CountInv'
  BY <1>2 DEF IInv, CountInv
<1>8. Cur' = Cur
  BY DEF Cur
<1>9. DevInv'
  BY <1>2, <1>8 DEF DevInv
<1>10. ToldInv'
  <2>1. \A s \in Ids : s # Cur => Ending(s)' = Ending(s)
    BY <1>8 DEF Ending
  <2>2. Ending(Cur)' = (Stage(dev') = "ended")
    BY <1>8 DEF Ending, Stage
  <2>3. ASSUME NEW s \in Ids, s # Cur
        PROVE  ToldOK(src[s], told[s], Ending(s)', src[s].at = "sink" \/ main.pc = "append")
    BY <2>1, <2>3 DEF IInv, ToldInv
  <2>4. ASSUME NEW s \in Ids, s # Cur
        PROVE  ToldOK(src'[s], told'[s], Ending(s)', src'[s].at = "sink" \/ main'.pc = "append")
    BY <1>2, <1>3, <2>3, <2>4
  <2>5. ToldOK(src'[Cur], told'[Cur], Ending(Cur)', src'[Cur].at = "sink" \/ main'.pc = "append")
    BY <1>1, <1>2, <1>3, <2>2 DEF ToldOK
  <2> QED
    BY <2>4, <2>5, <1>8 DEF ToldInv
<1> QED
  BY <1>4, <1>5, <1>6, <1>7, <1>9, <1>10 DEF IInv

\* Rodio asks for a sample.
LEMMA BeginStep ==
  ASSUME IInv, Begin
  PROVE  IInv'
<1>1. /\ dev.pc = "idle" /\ open /\ sink # <<>>
      /\ dev' = [Resting EXCEPT !.pc = IF src[Cur].start_flag THEN "announce" ELSE AfterStart(src[Cur])]
      /\ UNCHANGED <<src, open, sink, paused, main, skip, queue, told>>
  BY DEF Begin
<1>2. Len(sink) > 0
  BY <1>1 DEF IInv, TypeOK
<1>3. /\ Cur \in Ids /\ src[Cur] \in Source /\ src[Cur].at = "sink" /\ told[Cur] \in Abstract!Told
  BY <1>2, CurFacts
<1>4. src' = [src EXCEPT ![Cur] = src[Cur]] /\ told' = [told EXCEPT ![Cur] = told[Cur]]
  BY <1>1, <1>3 DEF IInv, TypeOK
<1>5. /\ dev' \in Devs /\ dev'.pc \in {"announce", "refill", "pop"}
      /\ dev'.pc = "announce" => src[Cur].start_flag
      /\ dev'.pc = "refill" => ~src[Cur].start_flag /\ Refills(src[Cur])
      /\ dev'.pc = "pop" => ~src[Cur].start_flag /\ ~Refills(src[Cur])
  BY <1>1, RodioOutAssumption DEF Resting, AfterStart, Devs
<1>6. /\ src[Cur].frame \in Nat /\ src[Cur].eod_flag \in BOOLEAN /\ src[Cur].start_flag \in BOOLEAN
      /\ CountOK(src[Cur])
  BY <1>3 DEF Source, IInv, CountInv
<1>7. DevOK(dev', src[Cur])
  BY <1>5, <1>6, RodioOutAssumption DEF DevOK, Stage, Refills
<1>8. ToldOK(src[Cur], told[Cur], FALSE, TRUE)
  <2>1. ~Ending(Cur)
    BY <1>1 DEF Ending, Stage
  <2>2. ToldOK(src[Cur], told[Cur], Ending(Cur), src[Cur].at = "sink" \/ main.pc = "append")
    BY <1>3 DEF IInv, ToldInv
  <2> QED
    BY <1>3, <2>1, <2>2 DEF ToldOK
<1>9. Stage(dev') # "ended"
  BY <1>5 DEF Stage
<1>10. ToldOK(src[Cur], told[Cur], Stage(dev') = "ended", TRUE)
  BY <1>8, <1>9 DEF ToldOK
<1>11. skip' \in 0 .. MaxSkip /\ queue' \in Seq({"drained", "other"}) /\ Len(queue') <= QueueCap
  BY <1>1 DEF IInv, TypeOK
<1> QED
  BY <1>1, <1>2, <1>3, <1>4, <1>5, <1>6, <1>7, <1>10, <1>11, DevStep

\* Within a call of next the device is open and has a source, which has been
\* told about as far as the call has come.
LEMMA InNext ==
  ASSUME IInv, dev.pc # "idle"
  PROVE  /\ open /\ Len(sink) > 0
         /\ Cur \in Ids /\ src[Cur] \in Source /\ src[Cur].at = "sink" /\ told[Cur] \in Abstract!Told
         /\ CountOK(src[Cur]) /\ DevOK(dev, src[Cur]) /\ dev \in Devs
         /\ ToldOK(src[Cur], told[Cur], Stage(dev) = "ended", TRUE)
<1>1. open /\ Len(sink) > 0
  BY DEF IInv, OpenInv, TypeOK
<1>2. /\ Cur \in Ids /\ src[Cur] \in Source /\ src[Cur].at = "sink" /\ told[Cur] \in Abstract!Told
  BY <1>1, CurFacts
<1>3. CountOK(src[Cur]) /\ DevOK(dev, src[Cur]) /\ dev \in Devs
  BY <1>2 DEF IInv, CountInv, DevInv, TypeOK, Devs
<1>4. ToldOK(src[Cur], told[Cur], Ending(Cur), src[Cur].at = "sink" \/ main.pc = "append")
  BY <1>2 DEF IInv, ToldInv
<1>5. Ending(Cur) <=> Stage(dev) = "ended"
  BY <1>1 DEF Ending
<1>6. ToldOK(src[Cur], told[Cur], Stage(dev) = "ended", TRUE)
  BY <1>2, <1>4, <1>5 DEF ToldOK
<1> QED
  BY <1>1, <1>2, <1>3, <1>6

\* TrackStarted is posted.
LEMMA AnnounceStep ==
  ASSUME IInv, Announce
  PROVE  IInv'
<1> DEFINE st == src[Cur]
           x  == [st EXCEPT !.start_flag = FALSE]
           t  == [told[Cur] EXCEPT !.start = told[Cur].start + 1]
<1>1. /\ dev.pc = "announce" /\ Post("other")
      /\ told' = [told EXCEPT ![Cur].start = @ + 1]
      /\ src' = [src EXCEPT ![Cur].start_flag = FALSE]
      /\ dev' = [dev EXCEPT !.pc = AfterStart(st)]
      /\ UNCHANGED <<open, sink, paused, main, skip>>
  BY DEF Announce
<1>2. /\ open /\ Len(sink) > 0
      /\ Cur \in Ids /\ st \in Source /\ st.at = "sink" /\ told[Cur] \in Abstract!Told
      /\ CountOK(st) /\ DevOK(dev, st) /\ dev \in Devs
      /\ ToldOK(st, told[Cur], Stage(dev) = "ended", TRUE)
  BY <1>1, InNext
<1>3. src' = [src EXCEPT ![Cur] = x] /\ told' = [told EXCEPT ![Cur] = t]
  BY <1>1 DEF IInv, TypeOK
<1>4. st.start_flag /\ Stage(dev) # "ended"
  BY <1>1, <1>2 DEF DevOK, Stage
<1>5. /\ x \in Source /\ x.at = "sink" /\ ~x.start_flag /\ x.total = st.total /\ x.left = st.left
      /\ x.frame = st.frame /\ x.out = st.out /\ x.eod_flag = st.eod_flag
  BY <1>2 DEF Source
<1>6. /\ t \in Abstract!Told /\ t.start = told[Cur].start + 1 /\ t.est = told[Cur].est
      /\ t.eod = told[Cur].eod /\ t.drained = told[Cur].drained /\ t.gone = told[Cur].gone
  BY <1>2 DEF Abstract!Told
<1>7. /\ dev' \in Devs /\ dev'.pc \in {"refill", "pop"}
      /\ dev'.pc = "refill" => Refills(st)
      /\ dev'.pc = "pop" => ~Refills(st)
  BY <1>1, <1>2 DEF AfterStart, Devs
<1>8. st.frame \in Nat /\ st.eod_flag \in BOOLEAN
  BY <1>2 DEF Source
<1> HIDE DEF x, t
<1>9. CountOK(x)
  BY <1>2, <1>5 DEF CountOK
<1>10. DevOK(dev', x) /\ Stage(dev') # "ended"
  BY <1>5, <1>7, <1>8, RodioOutAssumption DEF DevOK, Stage, Refills
<1>11. ToldOK(x, t, Stage(dev') = "ended", TRUE)
  <2>1. t.start = 1
    BY <1>2, <1>4, <1>6 DEF ToldOK
  <2> QED
    BY <1>2, <1>4, <1>5, <1>6, <1>10, <2>1 DEF ToldOK
<1>12. queue' \in Seq({"drained", "other"}) /\ Len(queue') <= QueueCap /\ skip' \in 0 .. MaxSkip
  BY <1>1, PostFacts DEF IInv, TypeOK
<1> QED
  BY <1>1, <1>2, <1>3, <1>5, <1>6, <1>7, <1>9, <1>10, <1>11, <1>12, DevStep

\* One turn of the refill loop: what is decoded is skipped or goes to the
\* frame, and an end that was not noticed has filled the buffer.
LEMMA TurnStep ==
  ASSUME IInv, dev.pc \in {"refill", "again"}, NEW remaining \in 0 .. MaxSkip, Turn(remaining),
         skip' \in 0 .. MaxSkip
  PROVE  IInv'
<1> DEFINE st   == src[Cur]
           n    == Decoded(st)
           cut  == Smaller(remaining, n)
           rest == n - cut
           more == GoesRound(remaining, rest)
           then == IF more THEN "again" ELSE IF RunsOut(st) THEN "ended" ELSE "pop"
           x    == [st EXCEPT !.left = st.left - n, !.out = st.out + cut,
                              !.frame = IF more THEN st.frame ELSE Extended(st, rest),
                              !.eod_flag = RunsOut(st) /\ ~more]
<1>1. /\ open /\ Len(sink) > 0
      /\ Cur \in Ids /\ st \in Source /\ st.at = "sink" /\ told[Cur] \in Abstract!Told
      /\ CountOK(st) /\ DevOK(dev, st)
      /\ ToldOK(st, told[Cur], Stage(dev) = "ended", TRUE)
  BY InNext
<1>2. /\ src' = [src EXCEPT ![Cur] = x]
      /\ dev' = [pc |-> IF RunsOut(st) /\ st.ends = "error" THEN "bad" ELSE then,
                 skip |-> IF more THEN remaining - cut ELSE 0, then |-> then]
      /\ UNCHANGED <<open, sink, paused, main, queue, told>>
  BY DEF Turn
<1>3. ~st.start_flag /\ st.frame < Min /\ ~st.eod_flag /\ Stage(dev) # "ended"
  BY <1>1 DEF DevOK, Stage
<1>4. st.left \in Nat /\ st.frame \in Nat /\ st.out \in Nat /\ st.total \in Nat
  BY <1>1 DEF Source
<1>5. /\ n \in Nat /\ n <= st.left /\ n <= 2 * Min
      /\ RunsOut(st) => n = st.left
      /\ ~RunsOut(st) => n = 2 * Min
  BY <1>4, RodioOutAssumption DEF Decoded, RunsOut, Smaller
<1> HIDE DEF n
<1>6. cut \in Nat /\ cut <= n /\ cut <= remaining /\ remaining \in Nat /\ (remaining = 0 => cut = 0)
  BY <1>5, RodioOutAssumption DEF Smaller
<1> HIDE DEF cut
<1>7. rest \in Nat /\ n = cut + rest
  BY <1>5, <1>6
<1> HIDE DEF rest
<1>8. /\ more <=> remaining > 0 /\ rest = 0
      /\ Extended(st, rest) = st.frame + rest
      /\ RunsOut(st) \in BOOLEAN
  BY DEF GoesRound, Extended, RunsOut
<1> HIDE DEF more
<1>9. /\ st.left - n \in Nat /\ st.out + cut \in Nat /\ st.frame + rest \in Nat
      /\ st.frame + rest < 3 * Min /\ st.frame < 3 * Min
      /\ RunsOut(st) => st.left - n = 0
      /\ st.total = (st.out + cut) + (st.frame + rest) + (st.left - n)
      /\ more => st.total = (st.out + cut) + st.frame + (st.left - n)
  <2>1. st.total = st.out + st.frame + st.left
    BY <1>1 DEF CountOK
  <2> QED
    BY <1>3, <1>4, <1>5, <1>6, <1>7, <1>8, <2>1, RodioOutAssumption
<1>10. /\ x \in Source /\ x.at = "sink" /\ ~x.start_flag /\ x.total = st.total /\ x.left = st.left - n
       /\ x.out = st.out + cut /\ x.frame = (IF more THEN st.frame ELSE st.frame + rest)
       /\ x.eod_flag = (RunsOut(st) /\ ~more)
  <2>1. (RunsOut(st) /\ ~more) \in BOOLEAN /\ (IF more THEN st.frame ELSE st.frame + rest) \in Nat
    BY <1>4, <1>9
  <2> QED
    BY <1>1, <1>3, <1>8, <1>9, <2>1 DEF Source
<1> HIDE DEF x
<1>11. CountOK(x)
  <2>1. x.eod_flag => x.left = 0
    BY <1>9, <1>10
  <2>2. x.frame < 3 * Min
    BY <1>9, <1>10
  <2>3. x.total = x.out + x.frame + x.left
    BY <1>9, <1>10
  <2> QED
    BY <1>10, <2>1, <2>2, <2>3 DEF CountOK
<1>12. /\ dev' \in Devs /\ Stage(dev') = then /\ dev'.pc \in {"bad", then}
       /\ dev'.pc = "bad" => RunsOut(st) /\ dev'.then = then
  <2>1. (IF more THEN remaining - cut ELSE 0) \in 0 .. MaxSkip
    BY <1>6, RodioOutAssumption
  <2> QED
    BY <1>2, <2>1 DEF Devs, Stage
<1>13. DevOK(dev', x)
  <2>1. then = "again" => x.frame < Min /\ ~x.eod_flag
    BY <1>3, <1>10
  <2>2. then = "ended" => x.eod_flag
    BY <1>10
  <2>3. then = "pop" => x.frame > 0
    <3>1. then = "pop" => ~more /\ ~RunsOut(st)
      OBVIOUS
    <3>2. ~more /\ ~RunsOut(st) => rest > 0
      BY <1>5, <1>6, <1>7, <1>8, RodioOutAssumption
    <3>3. rest > 0 => st.frame + rest > 0
      BY <1>4, <1>7
    <3> QED
      BY <1>10, <3>1, <3>2, <3>3
  <2>4. dev'.pc = "bad" => dev'.then \in {"again", "ended"}
    BY <1>12
  <2>5. Stage(dev') \in {"again", "ended", "pop"}
    BY <1>12
  <2> QED
    BY <1>10, <1>12, <2>1, <2>2, <2>3, <2>4, <2>5 DEF DevOK
<1>14. ToldOK(x, told[Cur], Stage(dev') = "ended", TRUE)
  <2>1. x.eod_flag => Stage(dev') = "ended"
    BY <1>10, <1>12
  <2>2. told[Cur].eod = 0
    BY <1>1, <1>3 DEF ToldOK
  <2> QED
    BY <1>1, <1>3, <1>10, <2>1, <2>2 DEF ToldOK
<1>15. told' = [told EXCEPT ![Cur] = told[Cur]]
  BY <1>1, <1>2 DEF IInv, TypeOK
<1>16. queue' \in Seq({"drained", "other"}) /\ Len(queue') <= QueueCap
  BY <1>2 DEF IInv, TypeOK
<1> QED
  BY <1>1, <1>2, <1>10, <1>11, <1>12, <1>13, <1>14, <1>15, <1>16, DevStep

\* NotSupported is posted, and next goes on.
LEMMA ReportErrorStep ==
  ASSUME IInv, ReportError
  PROVE  IInv'
<1> DEFINE st == src[Cur]
           t  == [told[Cur] EXCEPT !.bad = TRUE]
<1>1. /\ dev.pc = "bad" /\ Post("other")
      /\ told' = [told EXCEPT ![Cur].bad = TRUE]
      /\ dev' = [dev EXCEPT !.pc = dev.then]
      /\ UNCHANGED <<src, open, sink, paused, main, skip>>
  BY DEF ReportError
<1>2. /\ open /\ Len(sink) > 0
      /\ Cur \in Ids /\ st \in Source /\ st.at = "sink" /\ told[Cur] \in Abstract!Told
      /\ CountOK(st) /\ DevOK(dev, st) /\ dev \in Devs
      /\ ToldOK(st, told[Cur], Stage(dev) = "ended", TRUE)
  BY <1>1, InNext
<1>3. src' = [src EXCEPT ![Cur] = st] /\ told' = [told EXCEPT ![Cur] = t]
  BY <1>1, <1>2 DEF IInv, TypeOK
<1>4. /\ t \in Abstract!Told /\ t.start = told[Cur].start /\ t.est = told[Cur].est
      /\ t.eod = told[Cur].eod /\ t.drained = told[Cur].drained /\ t.gone = told[Cur].gone
  BY <1>2 DEF Abstract!Told
<1>5. dev' \in Devs /\ dev'.pc = dev.then /\ dev'.then = dev.then /\ dev.then \in {"again", "ended"}
  BY <1>1, <1>2 DEF Devs, DevOK
<1>6. Stage(dev') = Stage(dev)
  BY <1>1, <1>5 DEF Stage
<1> HIDE DEF t
<1>7. DevOK(dev', st) /\ ToldOK(st, t, Stage(dev') = "ended", TRUE)
  BY <1>2, <1>4, <1>5, <1>6 DEF DevOK, ToldOK
<1>8. queue' \in Seq({"drained", "other"}) /\ Len(queue') <= QueueCap /\ skip' \in 0 .. MaxSkip
  BY <1>1, PostFacts DEF IInv, TypeOK
<1> QED
  BY <1>1, <1>2, <1>3, <1>4, <1>5, <1>7, <1>8, DevStep

\* EndOfDecode is posted.
LEMMA ReportEndStep ==
  ASSUME IInv, ReportEnd
  PROVE  IInv'
<1> DEFINE st == src[Cur]
           t  == [told[Cur] EXCEPT !.eod = told[Cur].eod + 1]
<1>1. /\ dev.pc = "ended" /\ Post("other")
      /\ told' = [told EXCEPT ![Cur].eod = @ + 1]
      /\ dev' = [dev EXCEPT !.pc = "pop"]
      /\ UNCHANGED <<src, open, sink, paused, main, skip>>
  BY DEF ReportEnd
<1>2. /\ open /\ Len(sink) > 0
      /\ Cur \in Ids /\ st \in Source /\ st.at = "sink" /\ told[Cur] \in Abstract!Told
      /\ CountOK(st) /\ DevOK(dev, st) /\ dev \in Devs
      /\ ToldOK(st, told[Cur], Stage(dev) = "ended", TRUE)
  BY <1>1, InNext
<1>3. src' = [src EXCEPT ![Cur] = st] /\ told' = [told EXCEPT ![Cur] = t]
  BY <1>1, <1>2 DEF IInv, TypeOK
<1>4. /\ t \in Abstract!Told /\ t.start = told[Cur].start /\ t.est = told[Cur].est
      /\ t.eod = told[Cur].eod + 1 /\ t.drained = told[Cur].drained /\ t.gone = told[Cur].gone
  BY <1>2 DEF Abstract!Told
<1>5. dev' \in Devs /\ dev'.pc = "pop"
  BY <1>1, <1>2 DEF Devs
<1>6. st.eod_flag /\ ~st.start_flag /\ Stage(dev) = "ended" /\ Stage(dev') = "pop"
  BY <1>1, <1>2, <1>5 DEF Stage, DevOK
<1> HIDE DEF t
<1>7. DevOK(dev', st)
  BY <1>5, <1>6 DEF DevOK
<1>8. ToldOK(st, t, Stage(dev') = "ended", TRUE)
  <2>1. t.eod = 1
    BY <1>2, <1>4, <1>6 DEF ToldOK
  <2> QED
    BY <1>2, <1>4, <1>6, <2>1 DEF ToldOK
<1>9. queue' \in Seq({"drained", "other"}) /\ Len(queue') <= QueueCap /\ skip' \in 0 .. MaxSkip
  BY <1>1, PostFacts DEF IInv, TypeOK
<1> QED
  BY <1>1, <1>2, <1>3, <1>4, <1>5, <1>7, <1>8, <1>9, DevStep

\* A sample is taken from the frame; or the source ends, complete, and the one
\* after it is first.
LEMMA PopStep ==
  ASSUME IInv, Pop
  PROVE  IInv'
<1> DEFINE st == src[Cur]
<1>1. dev.pc = "pop" /\ dev' = Resting /\ UNCHANGED <<open, paused, main, skip>>
  BY DEF Pop
<1>2. /\ open /\ Len(sink) > 0
      /\ Cur \in Ids /\ st \in Source /\ st.at = "sink" /\ told[Cur] \in Abstract!Told
      /\ CountOK(st) /\ DevOK(dev, st) /\ dev \in Devs
      /\ ToldOK(st, told[Cur], Stage(dev) = "ended", TRUE)
  BY <1>1, InNext
<1>3. dev' \in Devs /\ dev'.pc = "idle" /\ Stage(dev) = "pop" /\ Stage(dev') = "idle"
  BY <1>1, RodioOutAssumption DEF Resting, Devs, Stage
<1>4. /\ st.total \in Nat /\ st.left \in Nat /\ st.frame \in Nat /\ st.out \in Nat
      /\ st.total = st.out + st.frame + st.left
  BY <1>2 DEF Source, CountOK
<1>5. CASE /\ ~Exhausted(st)
           /\ src' = [src EXCEPT ![Cur].frame = @ - 1, ![Cur].out = @ + 1]
           /\ UNCHANGED <<sink, queue, told>>
  <2> DEFINE x == [st EXCEPT !.frame = st.frame - 1, !.out = st.out + 1]
  <2>1. src' = [src EXCEPT ![Cur] = x] /\ told' = [told EXCEPT ![Cur] = told[Cur]]
    BY <1>2, <1>5 DEF IInv, TypeOK
  <2>2. /\ st.frame - 1 \in Nat /\ st.out + 1 \in Nat /\ st.total = (st.out + 1) + (st.frame - 1) + st.left
        /\ (st.frame < 3 * Min => st.frame - 1 < 3 * Min)
    <3>1. st.frame # 0
      BY <1>5 DEF Exhausted
    <3>2. 3 * Min \in Nat
      BY RodioOutAssumption
    <3> HIDE DEF st
    <3> QED
      BY <1>4, <3>1, <3>2
  <2>3. /\ x \in Source /\ x.at = "sink" /\ x.total = st.total /\ x.left = st.left /\ x.frame = st.frame - 1
        /\ x.out = st.out + 1 /\ x.eod_flag = st.eod_flag /\ x.start_flag = st.start_flag
    BY <1>2, <2>2 DEF Source
  <2> HIDE DEF x
  <2>4. CountOK(x)
    BY <1>2, <2>2, <2>3 DEF CountOK
  <2>5. ToldOK(x, told[Cur], Stage(dev') = "ended", TRUE)
    BY <1>2, <1>3, <2>3 DEF ToldOK
  <2>6. queue' \in Seq({"drained", "other"}) /\ Len(queue') <= QueueCap /\ skip' \in 0 .. MaxSkip
    BY <1>1, <1>5 DEF IInv, TypeOK
  <2> QED
    BY <1>1, <1>2, <1>3, <1>5, <2>1, <2>3, <2>4, <2>5, <2>6, DevStep
<1>6. CASE /\ Exhausted(st)
           /\ Post("drained")
           /\ told' = [told EXCEPT ![Cur].drained = TRUE]
           /\ src' = [src EXCEPT ![Cur].at = "done"]
           /\ sink' = Tail(sink)
  <2> DEFINE x == [st EXCEPT !.at = "done"]
             t == [told[Cur] EXCEPT !.drained = TRUE]
  <2>1. src' = [src EXCEPT ![Cur] = x] /\ told' = [told EXCEPT ![Cur] = t]
    BY <1>2, <1>6 DEF IInv, TypeOK
  <2>2. st.frame = 0 /\ st.eod_flag
    BY <1>2, <1>3, <1>4, <1>6 DEF Exhausted, DevOK
  <2>3. st.left = 0 /\ st.out = st.total
    BY <1>2, <1>4, <2>2 DEF CountOK
  <2>4. /\ x \in Source /\ x.at = "done" /\ x.total = st.total /\ x.left = st.left /\ x.frame = st.frame
        /\ x.out = st.out
    BY <1>2 DEF Source
  <2>5. t \in Abstract!Told /\ t.drained /\ t.gone = told[Cur].gone
    BY <1>2 DEF Abstract!Told
  <2> HIDE DEF x, t
  <2>6. CountOK(x) /\ \A e : ToldOK(x, t, e, FALSE) /\ ToldOK(x, t, e, TRUE)
    BY <1>2, <2>3, <2>4, <2>5 DEF CountOK, ToldOK
  <2>7. /\ src' \in [Ids -> Source] /\ src'[Cur] = x
        /\ \A r \in Ids : r # Cur => src'[r] = src[r]
    BY <1>2, <2>1, <2>4, OneSource DEF IInv
  <2>8. /\ told' \in [Ids -> Abstract!Told] /\ told'[Cur] = t
        /\ \A r \in Ids : r # Cur => told'[r] = told[r]
    BY <1>2, <2>1, <2>5, OneTold DEF IInv
  <2>9. /\ sink \in Seq(Ids) /\ sink' \in Seq(Ids) /\ Len(sink') = Len(sink) - 1 /\ Len(sink) \in Nat
        /\ \A i \in 1 .. Len(sink') : sink'[i] = sink[i + 1]
        /\ Cur = sink[1]
    BY <1>2, <1>6 DEF IInv, TypeOK, Cur
  <2>10. TypeOK'
    <3>1. \A s \in Ids : src'[s].frame < 3 * Min
      BY <2>6, <2>7 DEF IInv, CountInv, CountOK
    <3>2. queue' \in Seq({"drained", "other"}) /\ Len(queue') <= QueueCap
      BY <1>6, PostFacts DEF IInv
    <3> QED
      BY <1>1, <1>3, <2>7, <2>8, <2>9, <3>1, <3>2 DEF IInv, TypeOK, Devs
  <2>11. SinkInv'
    <3>1. \A i \in 1 .. Len(sink') : i \in 1 .. Len(sink) /\ i + 1 \in 1 .. Len(sink) /\ 1 < i + 1
      BY <2>9
    <3>2. \A i, j \in 1 .. Len(sink') : i < j => sink'[i] < sink'[j]
      BY <2>9, <3>1, SMTT(30) DEF IInv, SinkInv
    <3>3. \A i \in 1 .. Len(sink') : sink'[i] \in Ids /\ sink'[i] # Cur /\ src[sink'[i]].at = "sink"
      <4>1. 1 \in 1 .. Len(sink) /\ \A i \in 1 .. Len(sink) : sink[i] \in Ids /\ sink[i] \in Nat
        BY <1>2, <2>9, RodioOutAssumption DEF Ids
      <4>2. \A i \in 1 .. Len(sink') : sink[1] < sink[i + 1] /\ src[sink[i + 1]].at = "sink"
        BY <3>1, <4>1 DEF IInv, SinkInv
      <4>3. \A i \in 1 .. Len(sink') : sink[i + 1] \in Ids /\ sink[i + 1] # sink[1]
        BY <3>1, <4>1, <4>2
      <4> QED
        BY <2>9, <4>2, <4>3
    <3>4. \A i \in 1 .. Len(sink') : src'[sink'[i]].at = "sink"
      BY <2>7, <3>3
    <3>5. ASSUME NEW s \in Ids, src'[s].at = "sink"
          PROVE  \E i \in 1 .. Len(sink') : sink'[i] = s
      <4>1. s # Cur /\ src[s].at = "sink"
        BY <2>4, <2>7, <3>5
      <4>2. PICK i \in 1 .. Len(sink) : sink[i] = s
        BY <4>1 DEF IInv, SinkInv
      <4>3. i # 1 /\ i - 1 \in 1 .. Len(sink') /\ (i - 1) + 1 = i
        BY <2>9, <4>1, <4>2
      <4> QED
        BY <2>9, <4>2, <4>3
    <3>6. \A s \in Ids : /\ src'[s].at = "none" <=> src[s].at = "none"
                         /\ src'[s].at = "main" <=> src[s].at = "main"
      BY <1>2, <2>4, <2>7
    <3>7. \A s \in Ids : Handing(s)' <=> Handing(s)
      BY <1>1 DEF Handing
    <3>8. \A r, s \in Ids : r < s /\ src'[s].at # "none" => src'[r].at # "none"
      BY <3>6 DEF IInv, SinkInv
    <3>9. \A s \in Ids : src'[s].at = "main" <=> Handing(s)'
      BY <3>6, <3>7 DEF IInv, SinkInv
    <3>10. \A s \in Ids : Handing(s)' => \A r \in Ids : src'[r].at # "none" => r <= s
      BY <3>6, <3>7 DEF IInv, SinkInv
    <3> QED
      BY <3>2, <3>4, <3>5, <3>8, <3>9, <3>10 DEF SinkInv
  <2>12. OpenInv' /\ DevInv' /\ MainInv'
    BY <1>1, <1>2, <1>3 DEF IInv, OpenInv, DevInv, MainInv
  <2>13. CountInv'
    BY <2>6, <2>7 DEF IInv, CountInv
  <2>14. ToldInv'
    <3>1. \A s \in Ids : ~Ending(s)' /\ ~Ending(s)
      BY <1>3 DEF Ending, Stage
    <3>2. ASSUME NEW s \in Ids, s = Cur
          PROVE  ToldOK(src'[s], told'[s], Ending(s)', src'[s].at = "sink" \/ main'.pc = "append")
      BY <2>6, <2>7, <2>8, <3>2
    <3>3. ASSUME NEW s \in Ids, s # Cur
          PROVE  ToldOK(src'[s], told'[s], Ending(s)', src'[s].at = "sink" \/ main'.pc = "append")
      <4>1. ToldOK(src[s], told[s], Ending(s), src[s].at = "sink" \/ main.pc = "append")
        BY DEF IInv, ToldInv
      <4> QED
        BY <1>1, <2>7, <2>8, <3>1, <3>3, <4>1 DEF ToldOK
    <3>4. ASSUME NEW s \in Ids
          PROVE  ToldOK(src'[s], told'[s], Ending(s)', src'[s].at = "sink" \/ main'.pc = "append")
      BY <3>2, <3>3
    <3> QED
      BY <3>4 DEF ToldInv
  <2> QED
    BY <2>10, <2>11, <2>12, <2>13, <2>14 DEF IInv
<1> QED
  BY <1>5, <1>6 DEF Pop

-----------------------------------------------------------------------------
(* The main thread keeps the invariant                                     *)

\* The audio thread and its source are left alone.
LEMMA SameDev ==
  ASSUME IInv, UNCHANGED dev, dev.pc # "idle" => Len(sink') > 0 /\ sink'[1] = sink[1],
         sink' \in Seq(Ids), NEW s \in Ids,
         \A r \in Ids : r # s => src'[r] = src[r], src[s].at # "sink"
  PROVE  DevInv' /\ \A r \in Ids : dev.pc # "idle" => Ending(r)' = Ending(r)
<1>1. CASE dev.pc = "idle"
  BY <1>1 DEF DevInv
<1>2. CASE dev.pc # "idle"
  <2>1. Len(sink) > 0 /\ Cur \in Ids /\ src[Cur].at = "sink" /\ Cur = sink[1]
    BY <1>2, CurFacts DEF IInv, OpenInv
  <2>2. Cur' = Cur
    BY <1>2, <2>1 DEF Cur
  <2>3. DevInv'
    BY <2>1, <2>2 DEF IInv, DevInv
  <2>4. \A r \in Ids : Ending(r)' = Ending(r)
    BY <1>2, <2>1, <2>2 DEF Ending
  <2> QED
    BY <2>3, <2>4
<1> QED
  BY <1>1, <1>2

\* Between two calls of next nothing is about to be told.
LEMMA IdleEnding ==
  ASSUME dev.pc = "idle"
  PROVE  \A s : ~Ending(s)
BY DEF Ending, Stage

\* A new source is the last one, and nothing was told of it.
LEMMA OnDecoderStep ==
  ASSUME IInv, NEW s \in Ids, NEW track \in Tracks, NEW autostart \in BOOLEAN,
         OnDecoder(s, track[1], track[2], autostart)
  PROVE  IInv'
<1> DEFINE x == NewSource(track[1], track[2])
<1>1. /\ main.pc = "idle" /\ src[s].at = "none" /\ \A r \in 1 .. s - 1 : src[r].at # "none"
      /\ src' = [src EXCEPT ![s] = x]
      /\ main' = [pc |-> "establish", s |-> s, autostart |-> autostart]
      /\ UNCHANGED <<open, sink, paused, dev, skip, queue, told>>
  BY DEF OnDecoder, MainFree
<1>2. track[1] \in Nat /\ track[2] \in {"eof", "error"}
  BY RodioOutAssumption
<1>3. /\ x \in Source /\ x.at = "main" /\ x.start_flag /\ ~x.eod_flag /\ x.out = 0 /\ x.frame = 0
      /\ x.left = track[1] /\ x.total = track[1]
  BY <1>2 DEF NewSource, Source
<1> HIDE DEF x
<1>4. CountOK(x)
  <2>1. 0 < 3 * Min /\ track[1] = 0 + 0 + track[1]
    BY <1>2, RodioOutAssumption
  <2> QED
    BY <1>3, <2>1 DEF CountOK
<1>5. /\ src' \in [Ids -> Source] /\ src'[s] = x
      /\ \A r \in Ids : r # s => src'[r] = src[r]
  BY <1>1, <1>3, OneSource DEF IInv
<1>6. /\ sink \in Seq(Ids) /\ told[s] = Abstract!Silent
      /\ \A r \in Ids : r < s => src[r].at # "none"
      /\ \A r \in Ids : src[r].at # "none" => r < s
  <2>1. sink \in Seq(Ids) /\ told[s] = Abstract!Silent
    BY <1>1 DEF IInv, TypeOK, ToldInv, ToldOK
  <2>2. \A r \in Ids : r < s => src[r].at # "none"
    BY <1>1 DEF Ids
  <2>3. \A r \in Ids : r \in Nat /\ s \in Nat
    BY RodioOutAssumption DEF Ids
  <2>4. \A r \in Ids : src[r].at # "none" => ~(s < r) /\ r # s
    BY <1>1 DEF IInv, SinkInv
  <2> QED
    BY <2>1, <2>2, <2>3, <2>4
<1>7. TypeOK'
  <2>1. \A r \in Ids : src'[r].frame < 3 * Min
    BY <1>4, <1>5 DEF IInv, CountInv, CountOK
  <2>2. main' \in Mains
    BY <1>1, RodioOutAssumption DEF Ids, Mains
  <2> QED
    BY <1>1, <1>5, <2>1, <2>2 DEF IInv, TypeOK, Mains
<1>8. SinkInv'
  <2>1. \A i \in 1 .. Len(sink) : sink[i] \in Ids /\ sink[i] # s
    BY <1>1, <1>6 DEF IInv, SinkInv
  <2>2. \A r \in Ids : Handing(r)' <=> r = s
    BY <1>1 DEF Handing
  <2>3. \A r \in Ids : ~Handing(r)
    BY <1>1 DEF Handing
  <2>4. \A i \in 1 .. Len(sink') : src'[sink'[i]].at = "sink"
    BY <1>1, <1>5, <2>1 DEF IInv, SinkInv
  <2>5. \A r \in Ids : src'[r].at = "sink" => \E i \in 1 .. Len(sink') : sink'[i] = r
    BY <1>1, <1>3, <1>5 DEF IInv, SinkInv
  <2>6. \A r, q \in Ids : r < q /\ src'[q].at # "none" => src'[r].at # "none"
    <3> SUFFICES ASSUME NEW r \in Ids, NEW q \in Ids, r < q, src'[q].at # "none"
                 PROVE  src'[r].at # "none"
      OBVIOUS
    <3>1. CASE r = s
      BY <3>1, <1>3, <1>5
    <3>2. CASE r # s /\ q = s
      BY <3>2, <1>5, <1>6
    <3>3. CASE r # s /\ q # s
      BY <3>3, <1>5 DEF IInv, SinkInv
    <3> QED
      BY <3>1, <3>2, <3>3
  <2>7. \A r \in Ids : src'[r].at = "main" <=> Handing(r)'
    BY <1>3, <1>5, <2>2, <2>3 DEF IInv, SinkInv
  <2>8. \A q \in Ids : Handing(q)' => \A r \in Ids : src'[r].at # "none" => r <= q
    <3>1. \A r \in Ids : r \in Nat
      BY RodioOutAssumption DEF Ids
    <3> QED
      BY <1>5, <1>6, <2>2, <3>1
  <2> QED
    BY <1>1, <2>4, <2>5, <2>6, <2>7, <2>8 DEF IInv, SinkInv
<1>9. OpenInv' /\ MainInv'
  BY <1>1, RodioOutAssumption DEF IInv, OpenInv, MainInv, Ids
<1>10. CountInv'
  BY <1>4, <1>5 DEF IInv, CountInv
<1>11. DevInv' /\ \A r \in Ids : dev.pc # "idle" => Ending(r)' = Ending(r)
  <2>1. dev.pc # "idle" => Len(sink') > 0 /\ sink'[1] = sink[1]
    BY <1>1 DEF IInv, OpenInv
  <2> QED
    BY <1>1, <1>5, <1>6, <2>1, SameDev
<1>12. ToldInv'
  <2>1. ASSUME NEW r \in Ids, r # s
        PROVE  ToldOK(src'[r], told'[r], Ending(r)', src'[r].at = "sink" \/ main'.pc = "append")
    <3>1. ToldOK(src[r], told[r], Ending(r), src[r].at = "sink" \/ main.pc = "append")
      BY DEF IInv, ToldInv
    <3>2. Ending(r)' <=> Ending(r)
      BY <1>1 DEF Ending, Cur
    <3> QED
      BY <1>1, <1>5, <2>1, <3>1, <3>2 DEF ToldOK
  <2>2. ToldOK(x, told[s], Ending(s)', FALSE)
    BY <1>3, <1>6 DEF ToldOK, Abstract!Silent
  <2>3. ASSUME NEW r \in Ids, r = s
        PROVE  ToldOK(src'[r], told'[r], Ending(r)', src'[r].at = "sink" \/ main'.pc = "append")
    BY <1>1, <1>3, <1>5, <2>2, <2>3 DEF ToldOK
  <2> QED
    BY <2>1, <2>3 DEF ToldInv
<1> QED
  BY <1>7, <1>8, <1>9, <1>10, <1>11, <1>12 DEF IInv

\* StreamEstablished is posted.
LEMMA EstablishStep ==
  ASSUME IInv, Establish
  PROVE  IInv'
<1> DEFINE m == main.s
           t == [told[m] EXCEPT !.est = told[m].est + 1]
<1>1. /\ main.pc = "establish" /\ Post("other")
      /\ told' = [told EXCEPT ![m].est = @ + 1]
      /\ main' = [main EXCEPT !.pc = "append"]
      /\ UNCHANGED <<src, open, sink, paused, dev, skip>>
  BY DEF Establish
<1>2. main'.pc = "append" /\ main'.s = m
      /\ main' \in Mains
  BY <1>1 DEF IInv, TypeOK, Mains
<1>3. m \in Ids /\ src[m].at = "main"
  <2>1. m \in 0 .. Streams
    BY DEF IInv, TypeOK
  <2>2. m # 0
    BY <1>1 DEF IInv, MainInv
  <2>3. m \in Ids
    BY <2>1, <2>2, RodioOutAssumption DEF Ids
  <2> QED
    BY <1>1, <2>3 DEF IInv, SinkInv, Handing
<1>4. told[m] \in Abstract!Told /\ ToldOK(src[m], told[m], Ending(m), FALSE)
  BY <1>1, <1>3 DEF IInv, TypeOK, ToldInv, ToldOK
<1>5. /\ t \in Abstract!Told /\ t.start = told[m].start /\ t.est = told[m].est + 1
      /\ t.eod = told[m].eod /\ t.drained = told[m].drained /\ t.gone = told[m].gone
  BY <1>4 DEF Abstract!Told
<1>6. told' = [told EXCEPT ![m] = t]
  BY <1>1, <1>3 DEF IInv, TypeOK
<1> HIDE DEF t, m
<1>7. /\ told' \in [Ids -> Abstract!Told] /\ told'[m] = t
      /\ \A r \in Ids : r # m => told'[r] = told[r]
  BY <1>3, <1>5, <1>6, OneTold DEF IInv
<1>8. \A r \in Ids : Handing(r)' <=> Handing(r)
  BY <1>1, <1>2 DEF Handing, m
<1>9. TypeOK'
  <2>1. queue' \in Seq({"drained", "other"}) /\ Len(queue') <= QueueCap
    BY <1>1, PostFacts DEF IInv
  <2> QED
    BY <1>1, <1>2, <1>7, <2>1 DEF IInv, TypeOK, Mains
<1>10. SinkInv'
  BY <1>1, <1>8 DEF IInv, SinkInv
<1>11. OpenInv' /\ CountInv' /\ DevInv' /\ MainInv'
  BY <1>1, <1>2 DEF IInv, OpenInv, CountInv, DevInv, MainInv, Cur, m
<1>12. ToldInv'
  <2>1. \A r \in Ids : Ending(r)' <=> Ending(r)
    BY <1>1 DEF Ending, Cur
  <2>2. ASSUME NEW r \in Ids, r # m
        PROVE  ToldOK(src'[r], told'[r], Ending(r)', src'[r].at = "sink" \/ main'.pc = "append")
    <3>1. src[r].at # "main"
      BY <2>2 DEF IInv, SinkInv, Handing, m
    <3>2. ToldOK(src[r], told[r], Ending(r), src[r].at = "sink" \/ main.pc = "append")
      BY DEF IInv, ToldInv
    <3> QED
      BY <1>1, <1>7, <2>1, <2>2, <3>1, <3>2 DEF ToldOK
  <2>3. t.est = 1
    BY <1>3, <1>4, <1>5 DEF ToldOK
  <2>4. ToldOK(src[m], t, Ending(m), TRUE)
    BY <1>3, <1>4, <1>5, <2>3 DEF ToldOK
  <2>5. ASSUME NEW r \in Ids, r = m
        PROVE  ToldOK(src'[r], told'[r], Ending(r)', src'[r].at = "sink" \/ main'.pc = "append")
    BY <1>1, <1>2, <1>7, <2>1, <2>4, <2>5 DEF ToldOK
  <2> QED
    BY <2>2, <2>5 DEF ToldInv
<1> QED
  BY <1>9, <1>10, <1>11, <1>12 DEF IInv

\* A source goes to the end of the open sink, or alone to a new one.
LEMMA AppendStep ==
  ASSUME IInv, main.pc = "append", sink' = Append(sink, main.s), open', open' \in BOOLEAN,
         src' = [src EXCEPT ![main.s].at = "sink"],
         main'.pc \in {"idle", "pause"}, paused' \in BOOLEAN,
         main' \in Mains,
         UNCHANGED <<dev, skip, queue, told>>
  PROVE  IInv'
<1> DEFINE m == main.s
           x == [src[m] EXCEPT !.at = "sink"]
<1>1. m \in Ids /\ src[m].at = "main"
  <2>1. m \in 0 .. Streams /\ m # 0
    BY DEF IInv, TypeOK, MainInv
  <2>2. m \in Ids
    BY <2>1, RodioOutAssumption DEF Ids
  <2> QED
    BY <2>2 DEF IInv, SinkInv, Handing
<1>2. src[m] \in Source /\ CountOK(src[m]) /\ ToldOK(src[m], told[m], Ending(m), TRUE)
  BY <1>1 DEF IInv, TypeOK, CountInv, ToldInv, ToldOK
<1>3. /\ x \in Source /\ x.at = "sink" /\ x.total = src[m].total /\ x.left = src[m].left
      /\ x.frame = src[m].frame /\ x.out = src[m].out /\ x.eod_flag = src[m].eod_flag
      /\ x.start_flag = src[m].start_flag
  BY <1>2 DEF Source
<1>4. src' = [src EXCEPT ![m] = x] /\ sink' = Append(sink, m)
  BY <1>1 DEF IInv, TypeOK
<1>5. \A r \in Ids : Handing(r) <=> r = m
  BY DEF Handing
<1>6. \A r \in Ids : ~Handing(r)'
  BY DEF Handing
<1> HIDE DEF x, m
<1>7. CountOK(x) /\ ToldOK(x, told[m], Ending(m), TRUE)
  BY <1>1, <1>2, <1>3 DEF CountOK, ToldOK
<1>8. /\ src' \in [Ids -> Source] /\ src'[m] = x
      /\ \A r \in Ids : r # m => src'[r] = src[r]
  BY <1>1, <1>3, <1>4, OneSource DEF IInv
<1>9. /\ sink \in Seq(Ids) /\ sink' \in Seq(Ids) /\ Len(sink') = Len(sink) + 1 /\ Len(sink) \in Nat
      /\ \A i \in 1 .. Len(sink) : sink'[i] = sink[i] /\ sink[i] \in Ids
      /\ sink'[Len(sink) + 1] = m
  BY <1>1, <1>4 DEF IInv, TypeOK
<1>10. TypeOK'
  <2>1. \A r \in Ids : src'[r].frame < 3 * Min
    BY <1>7, <1>8 DEF IInv, CountInv, CountOK
  <2> QED
    BY <1>8, <1>9, <2>1 DEF IInv, TypeOK, Mains
<1>11. SinkInv'
  <2>1. \A i \in 1 .. Len(sink') : i \in 1 .. Len(sink) \/ i = Len(sink) + 1
    BY <1>9
  <2>2. \A i \in 1 .. Len(sink) : sink[i] < m
    <3>1. \A i \in 1 .. Len(sink) : src[sink[i]].at = "sink"
      BY DEF IInv, SinkInv
    <3>2. \A i \in 1 .. Len(sink) : sink[i] # m /\ sink[i] <= m
      BY <1>1, <1>5, <1>9, <3>1 DEF IInv, SinkInv
    <3>3. m \in Nat /\ \A i \in 1 .. Len(sink) : sink[i] \in Nat
      BY <1>1, <1>9, RodioOutAssumption DEF Ids
    <3> QED
      BY <3>2, <3>3
  <2>3. \A i, j \in 1 .. Len(sink') : i < j => sink'[i] < sink'[j]
    <3> SUFFICES ASSUME NEW i \in 1 .. Len(sink'), NEW j \in 1 .. Len(sink'), i < j
                 PROVE  sink'[i] < sink'[j]
      OBVIOUS
    <3>1. i \in 1 .. Len(sink)
      BY <1>9
    <3>2. CASE j = Len(sink) + 1
      BY <1>9, <2>2, <3>1, <3>2
    <3>3. CASE j \in 1 .. Len(sink)
      BY <1>9, <3>1, <3>3 DEF IInv, SinkInv
    <3> QED
      BY <2>1, <3>2, <3>3
  <2>4. \A i \in 1 .. Len(sink') : src'[sink'[i]].at = "sink"
    <3>1. \A i \in 1 .. Len(sink) : src'[sink[i]].at = "sink"
      BY <1>3, <1>8, <1>9 DEF IInv, SinkInv
    <3> QED
      BY <1>3, <1>8, <1>9, <2>1, <3>1
  <2>5. ASSUME NEW r \in Ids, src'[r].at = "sink"
        PROVE  \E i \in 1 .. Len(sink') : sink'[i] = r
    <3>1. CASE r = m
      <4>1. Len(sink) + 1 \in 1 .. Len(sink')
        BY <1>9
      <4> QED
        BY <1>9, <3>1, <4>1
    <3>2. CASE r # m
      <4>1. src[r].at = "sink"
        BY <1>8, <2>5, <3>2
      <4>2. PICK i \in 1 .. Len(sink) : sink[i] = r
        BY <4>1 DEF IInv, SinkInv
      <4>3. i \in 1 .. Len(sink')
        BY <1>9
      <4> QED
        BY <1>9, <4>2, <4>3
    <3> QED
      BY <3>1, <3>2
  <2>6. \A r \in Ids : src'[r].at = "none" <=> src[r].at = "none"
    BY <1>1, <1>3, <1>8
  <2>7. \A r, q \in Ids : r < q /\ src'[q].at # "none" => src'[r].at # "none"
    BY <2>6 DEF IInv, SinkInv
  <2>8. \A r \in Ids : src'[r].at # "main"
    BY <1>3, <1>5, <1>8 DEF IInv, SinkInv
  <2> QED
    BY <1>6, <2>3, <2>4, <2>5, <2>7, <2>8 DEF SinkInv
<1>12. OpenInv' /\ MainInv'
  BY <1>9 DEF OpenInv, MainInv
<1>13. CountInv'
  BY <1>7, <1>8 DEF IInv, CountInv
<1>14. dev.pc # "idle" => Len(sink') > 0 /\ sink'[1] = sink[1]
  BY <1>9 DEF IInv, OpenInv
<1>15. DevInv' /\ \A r \in Ids : dev.pc # "idle" => Ending(r)' = Ending(r)
  BY <1>1, <1>8, <1>9, <1>14, SameDev
<1>16. \A r \in Ids : Ending(r)' <=> Ending(r)
  <2>1. CASE dev.pc = "idle"
    BY <2>1 DEF Ending, Stage
  <2>2. CASE dev.pc # "idle"
    BY <2>2, <1>15
  <2> QED
    BY <2>1, <2>2
<1>17. ToldInv'
  <2>1. ASSUME NEW r \in Ids, r # m
        PROVE  ToldOK(src'[r], told'[r], Ending(r)', src'[r].at = "sink" \/ main'.pc = "append")
    <3>1. src[r].at # "main"
      BY <1>5, <2>1 DEF IInv, SinkInv
    <3>2. ToldOK(src[r], told[r], Ending(r), src[r].at = "sink" \/ main.pc = "append")
      BY DEF IInv, ToldInv
    <3> QED
      BY <1>8, <1>16, <2>1, <3>1, <3>2 DEF ToldOK
  <2>2. ASSUME NEW r \in Ids, r = m
        PROVE  ToldOK(src'[r], told'[r], Ending(r)', src'[r].at = "sink" \/ main'.pc = "append")
    BY <1>3, <1>7, <1>8, <1>16, <2>2 DEF ToldOK
  <2> QED
    BY <2>1, <2>2 DEF ToldInv
<1> QED
  BY <1>10, <1>11, <1>12, <1>13, <1>15, <1>17 DEF IInv

\* Streams leave: those of a set that a device no longer needs.
LEMMA LeaveStep ==
  ASSUME IInv, dev.pc = "idle", NEW g, g \subseteq Ids,
         \A s \in g : src[s].at \in {"sink", "main"},
         \A s \in Ids \ g : src[s].at \notin {"sink", "main"},
         src' = [s \in Ids |-> IF s \in g THEN Gone ELSE src[s]],
         told' = [s \in Ids |-> IF s \in g THEN Abstract!Finished ELSE told[s]],
         open' = FALSE, sink' = <<>>, paused' \in BOOLEAN, main' = NoWork, UNCHANGED <<dev, skip, queue>>
  PROVE  IInv'
<1>1. \A s \in Ids : src[s] \in Source /\ told[s] \in Abstract!Told
  BY DEF IInv, TypeOK
<1>2. \A s \in Ids : src'[s] = (IF s \in g THEN Gone ELSE src[s]) /\ CountOK(src'[s])
  BY NoneFacts DEF IInv, CountInv
<1>3. Abstract!Finished \in Abstract!Told /\ Abstract!Finished.gone
  BY DEF Abstract!Finished, Abstract!Silent, Abstract!Told
<1>4. src' \in [Ids -> Source] /\ told' \in [Ids -> Abstract!Told]
  BY <1>1, <1>3, NoneFacts
<1>5. Len(sink') = 0 /\ sink' \in Seq(Ids) /\ main'.pc = "idle"
      /\ main' \in Mains
  BY MainFacts
<1>6. TypeOK'
  <2>1. \A s \in Ids : src'[s].frame < 3 * Min
    BY <1>2 DEF CountOK
  <2> QED
    BY <1>4, <1>5, <2>1 DEF IInv, TypeOK, Mains
<1>7. SinkInv'
  <2>1. \A s \in Ids : /\ src'[s].at = "none" <=> src[s].at = "none"
                       /\ src'[s].at \notin {"sink", "main"}
    BY <1>2, NoneFacts
  <2>2. \A s \in Ids : ~Handing(s)'
    BY <1>5 DEF Handing
  <2>3. \A r, s \in Ids : r < s /\ src'[s].at # "none" => src'[r].at # "none"
    BY <2>1 DEF IInv, SinkInv
  <2> QED
    BY <1>5, <2>1, <2>2, <2>3 DEF SinkInv
<1>8. OpenInv' /\ MainInv' /\ DevInv' /\ CountInv'
  BY <1>2, <1>5 DEF OpenInv, MainInv, DevInv, CountInv
<1>9. ToldInv'
  <2>1. ASSUME NEW s \in Ids, s \in g
        PROVE  ToldOK(src'[s], told'[s], Ending(s)', src'[s].at = "sink" \/ main'.pc = "append")
    BY <1>2, <1>3, <2>1, NoneFacts DEF ToldOK, Abstract!Finished, Abstract!Silent
  <2>2. ASSUME NEW s \in Ids, s \notin g
        PROVE  ToldOK(src'[s], told'[s], Ending(s)', src'[s].at = "sink" \/ main'.pc = "append")
    <3>1. ToldOK(src[s], told[s], Ending(s), src[s].at = "sink" \/ main.pc = "append")
      BY DEF IInv, ToldInv
    <3> QED
      BY <1>2, <2>2, <3>1 DEF ToldOK
  <2> QED
    BY <2>1, <2>2 DEF ToldInv
<1> QED
  BY <1>6, <1>7, <1>8, <1>9 DEF IInv

\* A device that cannot be opened had no sources but the new one.
LEMMA AppendSourceStep ==
  ASSUME IInv, AppendSource
  PROVE  IInv'
<1> DEFINE m == main.s
<1>1. main.pc = "append" /\ UNCHANGED <<dev, skip, queue>>
  BY DEF AppendSource
<1>2. NoWork.pc = "idle" /\ [main EXCEPT !.pc = "pause"].pc = "pause"
      /\ NoWork \in Mains
      /\ [main EXCEPT !.pc = "pause"] \in Mains
  BY MainFacts DEF IInv, TypeOK, Mains
<1>3. m \in Ids /\ src[m].at = "main"
  <2>1. m \in 0 .. Streams /\ m # 0
    BY <1>1 DEF IInv, TypeOK, MainInv
  <2>2. m \in Ids
    BY <2>1, RodioOutAssumption DEF Ids
  <2> QED
    BY <1>1, <2>2 DEF IInv, SinkInv, Handing
<1>4. CASE /\ open
           /\ sink' = Append(sink, m) /\ src' = [src EXCEPT ![m].at = "sink"]
           /\ main' = NoWork
           /\ UNCHANGED <<open, paused, told>>
  <2>1. paused' \in BOOLEAN /\ open' \in BOOLEAN
    BY <1>4 DEF IInv, TypeOK
  <2> QED
    BY <1>1, <1>2, <1>4, <2>1, AppendStep
<1>5. CASE /\ ~open
           /\ open' = TRUE /\ paused' = FALSE
           /\ sink' = <<m>> /\ src' = [src EXCEPT ![m].at = "sink"]
           /\ main' = IF main.autostart THEN NoWork ELSE [main EXCEPT !.pc = "pause"]
           /\ UNCHANGED told
  <2>1. sink = <<>>
    BY <1>5 DEF IInv, OpenInv, TypeOK
  <2>2. sink' = Append(sink, m)
    BY <1>5, <2>1
  <2> QED
    BY <1>1, <1>2, <1>5, <2>2, AppendStep
<1>6. CASE /\ ~open
           /\ src' = [src EXCEPT ![m] = Gone] /\ told' = [told EXCEPT ![m] = Abstract!Finished]
           /\ main' = NoWork
           /\ UNCHANGED <<open, paused, sink>>
  <2>1. sink = <<>> /\ dev.pc = "idle" /\ sink' = <<>> /\ open' = FALSE /\ paused' \in BOOLEAN
    BY <1>6 DEF IInv, OpenInv, TypeOK
  <2>2. \A s \in Ids \ {m} : src[s].at \notin {"sink", "main"}
    BY <1>1, <2>1 DEF IInv, SinkInv, Handing
  <2>3. src' = [s \in Ids |-> IF s \in {m} THEN Gone ELSE src[s]]
    BY <1>3, <1>6 DEF IInv, TypeOK
  <2>4. told' = [s \in Ids |-> IF s \in {m} THEN Abstract!Finished ELSE told[s]]
    BY <1>3, <1>6 DEF IInv, TypeOK
  <2>5. {m} \subseteq Ids /\ \A s \in {m} : src[s].at \in {"sink", "main"}
    BY <1>3
  <2> HIDE DEF m
  <2> QED
    BY <1>1, <1>6, <2>1, <2>2, <2>3, <2>4, <2>5, LeaveStep
<1> QED
  BY <1>4, <1>5, <1>6 DEF AppendSource

\* The device stream is dropped with all the sources of its sink.
LEMMA DroppedStep ==
  ASSUME IInv, Dropped
  PROVE  IInv'
<1> DEFINE g == {s \in Ids : src[s].at = "sink"}
<1>1. /\ main.pc = "drop" /\ dev.pc = "idle"
      /\ open' = FALSE /\ sink' = <<>> /\ paused' = FALSE
      /\ src' = [s \in Ids |-> IF src[s].at = "sink" THEN Gone ELSE src[s]]
      /\ told' = [s \in Ids |-> IF src[s].at = "sink" THEN Abstract!Finished ELSE told[s]]
      /\ main' = NoWork
      /\ UNCHANGED <<dev, skip, queue>>
  BY DEF Dropped
<1>2. /\ g \subseteq Ids /\ \A s \in g : src[s].at \in {"sink", "main"}
      /\ \A s \in Ids \ g : src[s].at \notin {"sink", "main"}
  BY <1>1 DEF IInv, SinkInv, Handing
<1>3. /\ src' = [s \in Ids |-> IF s \in g THEN Gone ELSE src[s]]
      /\ told' = [s \in Ids |-> IF s \in g THEN Abstract!Finished ELSE told[s]]
  BY <1>1
<1>4. paused' \in BOOLEAN
  BY <1>1
<1> HIDE DEF g
<1> QED
  BY <1>1, <1>2, <1>3, <1>4, LeaveStep

\* Steps that touch neither a source nor what is told.
LEMMA QuietStep ==
  ASSUME IInv, PauseNew \/ Pause \/ Unpause \/ Stop \/ HandleMessage \/ OnSkip \/ OtherMessage \/ UNCHANGED vars
  PROVE  IInv'
<1>1. UNCHANGED <<src, open, sink, dev, told>>
  BY DEF PauseNew, Pause, Unpause, Stop, HandleMessage, OnSkip, OtherMessage, vars
<1>2. main' \in {main, NoWork, [NoWork EXCEPT !.pc = "drop"]} /\ (main' # main => main.pc \in {"idle", "pause"})
  BY DEF PauseNew, Pause, Unpause, Stop, HandleMessage, OnSkip, OtherMessage, MainFree, vars
<1>3. /\ main' \in Mains
      /\ \A s \in Ids : Handing(s)' <=> Handing(s)
      /\ MainInv' /\ (main'.pc = "append" <=> main.pc = "append")
  <2>1. main \in Mains
    BY DEF IInv, TypeOK, Mains
  <2> QED
    BY <1>2, <2>1, MainFacts DEF Handing, IInv, MainInv
<1>4. paused' \in BOOLEAN
  BY DEF IInv, TypeOK, PauseNew, Pause, Unpause, Stop, HandleMessage, OnSkip, OtherMessage, vars
<1>5. skip' \in 0 .. MaxSkip
  BY RodioOutAssumption DEF IInv, TypeOK, PauseNew, Pause, Unpause, Stop, HandleMessage, OnSkip, OtherMessage, vars
<1>6. queue' \in Seq({"drained", "other"}) /\ Len(queue') <= QueueCap
  <2>1. CASE HandleMessage
    BY <2>1, RodioOutAssumption DEF HandleMessage, IInv, TypeOK
  <2>2. CASE OtherMessage
    BY <2>2, PostFacts DEF OtherMessage, IInv
  <2>3. CASE UNCHANGED queue
    BY <2>3 DEF IInv, TypeOK
  <2> QED
    BY <2>1, <2>2, <2>3 DEF PauseNew, Pause, Unpause, Stop, OnSkip, vars
<1>7. TypeOK'
  BY <1>1, <1>3, <1>4, <1>5, <1>6 DEF IInv, TypeOK, Mains
<1>8. SinkInv'
  BY <1>1, <1>3 DEF IInv, SinkInv
<1>9. OpenInv' /\ CountInv' /\ DevInv'
  BY <1>1 DEF IInv, OpenInv, CountInv, DevInv, Cur
<1>10. ToldInv'
  <2>1. \A s \in Ids : Ending(s)' <=> Ending(s)
    BY <1>1 DEF Ending, Cur
  <2> QED
    BY <1>1, <1>3, <2>1 DEF IInv, ToldInv, ToldOK
<1> QED
  BY <1>3, <1>7, <1>8, <1>9, <1>10 DEF IInv

-----------------------------------------------------------------------------
(* The invariant holds                                                     *)

\* It holds at the start.
LEMMA InitInv ==
  ASSUME Init
  PROVE  IInv
<1>1. Abstract!Silent \in Abstract!Told /\ ~Abstract!Silent.gone
  BY DEF Abstract!Silent, Abstract!Told
<1>2. /\ src \in [Ids -> Source] /\ told \in [Ids -> Abstract!Told]
      /\ \A s \in Ids : src[s] = NoneYet /\ told[s] = Abstract!Silent
  BY <1>1, NoneFacts DEF Init
<1>3. /\ open = FALSE /\ sink = <<>> /\ paused = FALSE /\ main = NoWork /\ dev = Resting /\ skip = 0 /\ queue = <<>>
  BY DEF Init
<1>4. /\ dev \in Devs /\ dev.pc = "idle" /\ main \in Mains /\ main.pc = "idle" /\ skip \in 0 .. MaxSkip
  BY <1>3, MainFacts, RodioOutAssumption DEF Resting, Devs
<1>5. Len(sink) = 0 /\ sink \in Seq(Ids) /\ queue \in Seq({"drained", "other"}) /\ Len(queue) <= QueueCap
  BY <1>3, RodioOutAssumption
<1>6. TypeOK
  <2>1. \A s \in Ids : src[s].frame < 3 * Min
    BY <1>2, NoneFacts DEF CountOK
  <2> QED
    BY <1>2, <1>3, <1>4, <1>5, <2>1 DEF TypeOK, Mains, Devs
<1>7. SinkInv
  BY <1>2, <1>4, <1>5, NoneFacts DEF SinkInv, Handing
<1>8. MainInv /\ OpenInv /\ DevInv
  BY <1>4, <1>5 DEF MainInv, OpenInv, DevInv
<1>9. CountInv
  BY <1>2, NoneFacts DEF CountInv
<1>10. ToldInv
  BY <1>1, <1>2, NoneFacts DEF ToldInv, ToldOK
<1> QED
  BY <1>6, <1>7, <1>8, <1>9, <1>10 DEF IInv

\* Every step keeps it.
LEMMA StepInv ==
  ASSUME IInv, [Next]_vars
  PROVE  IInv'
<1>1. CASE Audio
  <2>1. CASE Refill
    <3>1. dev.pc = "refill" /\ Turn(skip) /\ skip' = 0 /\ skip \in 0 .. MaxSkip /\ skip' \in 0 .. MaxSkip
      BY <2>1, RodioOutAssumption DEF Refill, IInv, TypeOK
    <3> QED
      BY <3>1, TurnStep
  <2>2. CASE RefillAgain
    <3>1. dev.pc = "again" /\ Turn(dev.skip) /\ dev.skip \in 0 .. MaxSkip /\ skip' \in 0 .. MaxSkip
      BY <2>2 DEF RefillAgain, IInv, TypeOK
    <3> QED
      BY <3>1, TurnStep
  <2> QED
    BY <1>1, <2>1, <2>2, BeginStep, AnnounceStep, ReportErrorStep, ReportEndStep, PopStep DEF Audio
<1>2. ASSUME NEW s \in Ids, NEW track \in Tracks, NEW autostart \in BOOLEAN,
             OnDecoder(s, track[1], track[2], autostart)
      PROVE  IInv'
  BY <1>2, OnDecoderStep
<1>3. CASE Enqueueing \/ Dropped
  BY <1>3, EstablishStep, AppendSourceStep, DroppedStep, QuietStep DEF Enqueueing
<1>4. CASE Pause \/ Unpause \/ Stop \/ HandleMessage \/ OnSkip \/ OtherMessage \/ UNCHANGED vars
  BY <1>4, QuietStep
<1> QED
  BY <1>1, <1>2, <1>3, <1>4 DEF Next

\* So it holds throughout.
LEMMA Invariance == Spec => []IInv
<1>1. Init => IInv
  BY InitInv
<1>2. IInv /\ [Next]_vars => IInv'
  BY StepInv
<1> QED
  BY <1>1, <1>2, PTL DEF Spec

-----------------------------------------------------------------------------
(* What follows from it                                                    *)

\* The variables keep their types: in particular the frame of a source holds
\* at most one refill more than the level that asks for one.
THEOREM TypeCorrect == Spec => []TypeOK
<1>1. IInv => TypeOK
  BY DEF IInv
<1> QED
  BY <1>1, Invariance, PTL

\* When a track is reported as drained, every sample of it was played or
\* skipped (DecoderSource::next in rodio_out.rs).
THEOREM EndsCompleteHolds == Spec => []EndsComplete
<1>1. IInv => EndsComplete
  BY DEF IInv, CountInv, CountOK, EndsComplete
<1> QED
  BY <1>1, Invariance, PTL

-----------------------------------------------------------------------------
(* RodioOut implements AudioOutput                                         *)

\* Only the first source of the sink is asked for samples, so every stream
\* before it is done with.
LEMMA CurIsFirst ==
  ASSUME IInv, Len(sink) > 0, NEW r \in Ids, r < Cur
  PROVE  told[r].drained \/ told[r].gone
<1>1. /\ Cur \in Ids /\ Cur = sink[1] /\ src[Cur].at = "sink" /\ 1 \in 1 .. Len(sink)
      /\ src[r].at \in {"none", "main", "sink", "done", "gone"}
  BY CurFacts DEF IInv, TypeOK, Source
<1>2. src[r].at # "none"
  BY <1>1 DEF IInv, SinkInv
<1>3. r \in Nat /\ Cur \in Nat
  BY <1>1, RodioOutAssumption DEF Ids
<1>4. src[r].at # "main"
  <2>1. src[r].at = "main" => Cur <= r
    BY <1>1 DEF IInv, SinkInv
  <2> QED
    BY <1>3, <2>1
<1>5. src[r].at # "sink"
  <2> SUFFICES ASSUME src[r].at = "sink"
               PROVE  FALSE
    OBVIOUS
  <2>1. PICK i \in 1 .. Len(sink) : sink[i] = r
    BY DEF IInv, SinkInv
  <2>2. i # 1 /\ 1 < i
    BY <1>1, <1>3, <2>1
  <2>3. sink[1] < sink[i]
    BY <1>1, <2>2 DEF IInv, SinkInv
  <2> QED
    BY <1>1, <1>3, <2>1, <2>3
<1> QED
  BY <1>1, <1>2, <1>4, <1>5 DEF IInv, ToldInv, ToldOK

\* What the audio thread posts.
LEMMA AudioRefines ==
  ASSUME IInv, Audio
  PROVE  [Abstract!Next]_told
<1> USE DEF Ids, Abstract!Ids
<1>1. CASE Begin \/ Refill \/ RefillAgain
  BY <1>1 DEF Begin, Refill, RefillAgain, Turn
<1>2. CASE dev.pc # "idle"
  <2> DEFINE st == src[Cur]
  <2>1. /\ Len(sink) > 0 /\ Cur \in Ids /\ st.at = "sink" /\ told[Cur] \in Abstract!Told
        /\ DevOK(dev, st) /\ ToldOK(st, told[Cur], Stage(dev) = "ended", TRUE)
        /\ told \in [Ids -> Abstract!Told]
    BY <1>2, InNext DEF IInv, TypeOK
  <2>2. ~told[Cur].gone /\ ~told[Cur].drained /\ told[Cur].est = 1
    BY <2>1 DEF ToldOK
  <2>3. CASE Announce
    <3>1. dev.pc = "announce" /\ told' = [told EXCEPT ![Cur].start = @ + 1]
      BY <2>3 DEF Announce
    <3>2. told[Cur].start = 0
      BY <2>1, <3>1 DEF ToldOK, DevOK, Stage
    <3>3. told' = [told EXCEPT ![Cur].start = 1]
      BY <2>1, <3>1, <3>2
    <3>4. Abstract!Start(Cur)
      BY <2>2, <3>2, <3>3 DEF Abstract!Start
    <3> QED
      BY <2>1, <3>4 DEF Abstract!Next
  <2>4. CASE ReportError
    <3>1. Abstract!Fail(Cur)
      BY <2>2, <2>4 DEF Abstract!Fail, ReportError
    <3> QED
      BY <2>1, <3>1 DEF Abstract!Next
  <2>5. CASE ReportEnd
    <3>1. dev.pc = "ended" /\ told' = [told EXCEPT ![Cur].eod = @ + 1]
      BY <2>5 DEF ReportEnd
    <3>2. told[Cur].eod = 0 /\ told[Cur].start = 1
      BY <2>1, <3>1 DEF ToldOK, DevOK, Stage
    <3>3. told' = [told EXCEPT ![Cur].eod = 1]
      BY <2>1, <3>1, <3>2
    <3>4. Abstract!EndDecode(Cur)
      BY <2>2, <3>2, <3>3 DEF Abstract!EndDecode, Abstract!Done
    <3> QED
      BY <2>1, <3>4 DEF Abstract!Next
  <2>6. CASE Pop
    <3>1. CASE UNCHANGED told
      BY <3>1
    <3>2. CASE Exhausted(st) /\ told' = [told EXCEPT ![Cur].drained = TRUE]
      <4>1. st.frame = 0 /\ Stage(dev) = "pop"
        BY <2>6, <3>2 DEF Exhausted, Pop, Stage
      <4>2. st.eod_flag /\ ~st.start_flag
        BY <2>1, <4>1 DEF DevOK
      <4>3. told[Cur].eod = 1 /\ told[Cur].start = 1
        BY <2>1, <4>1, <4>2 DEF ToldOK
      <4>4. \A r \in 1 .. Cur - 1 : r \in Ids /\ r < Cur
        BY <2>1, RodioOutAssumption
      <4>5. \A r \in 1 .. Cur - 1 : told[r].drained \/ told[r].gone
        BY <2>1, <4>4, CurIsFirst
      <4>6. Abstract!Drain(Cur)
        BY <2>2, <3>2, <4>3, <4>5 DEF Abstract!Drain, Abstract!Done
      <4> QED
        BY <2>1, <4>6 DEF Abstract!Next
    <3> QED
      BY <2>6, <3>1, <3>2 DEF Pop
  <2> QED
    BY <1>1, <2>3, <2>4, <2>5, <2>6 DEF Audio
<1> QED
  BY <1>1, <1>2 DEF Audio, Announce, ReportError, ReportEnd, Pop

\* What main posts, and what leaves with the device.
LEMMA MainRefines ==
  ASSUME IInv, Establish \/ AppendSource \/ Dropped
  PROVE  [Abstract!Next]_told
<1> USE DEF Ids, Abstract!Ids
<1> DEFINE m == main.s
<1>1. \A s \in Ids : told[s] \in Abstract!Told
  BY DEF IInv, TypeOK
<1>2. ASSUME NEW g, g \subseteq Ids, \A s \in g : ~told[s].gone,
             told' = [s \in Ids |-> IF s \in g THEN Abstract!Finished ELSE told[s]]
      PROVE  Abstract!Next
  <2>1. Abstract!Leave(g)
    BY <1>2 DEF Abstract!Leave
  <2> QED
    BY <1>2, <2>1 DEF Abstract!Next
<1>3. ASSUME main.pc \in {"establish", "append"}
      PROVE  m \in Ids /\ src[m].at = "main" /\ ~told[m].gone
             /\ told[m].est = IF main.pc = "append" THEN 1 ELSE 0
  <2>1. m \in 0 .. Streams /\ m # 0
    BY <1>3 DEF IInv, TypeOK, MainInv
  <2>2. m \in Ids
    BY <2>1, RodioOutAssumption
  <2>3. src[m].at = "main"
    BY <1>3, <2>2 DEF IInv, SinkInv, Handing
  <2> QED
    BY <1>3, <2>2, <2>3 DEF IInv, ToldInv, ToldOK
<1>4. CASE Establish
  <2>1. main.pc = "establish" /\ told' = [told EXCEPT ![m].est = @ + 1]
    BY <1>4 DEF Establish
  <2>2. m \in Ids /\ told[m].est = 0 /\ ~told[m].gone
    BY <1>3, <2>1
  <2>3. told' = [told EXCEPT ![m].est = 1]
    BY <2>1, <2>2 DEF IInv, TypeOK
  <2>4. Abstract!Establish(m)
    BY <2>2, <2>3 DEF Abstract!Establish
  <2> QED
    BY <2>2, <2>4 DEF Abstract!Next
<1>5. CASE AppendSource
  <2>1. main.pc = "append"
    BY <1>5 DEF AppendSource
  <2>2. m \in Ids /\ ~told[m].gone
    BY <1>3, <2>1
  <2>3. CASE told' = [told EXCEPT ![m] = Abstract!Finished]
    <3>1. told' = [s \in Ids |-> IF s \in {m} THEN Abstract!Finished ELSE told[s]]
      BY <2>2, <2>3 DEF IInv, TypeOK
    <3>2. {m} \subseteq Ids /\ \A s \in {m} : ~told[s].gone
      BY <2>2
    <3> HIDE DEF m
    <3> QED
      BY <1>2, <3>1, <3>2
  <2> QED
    BY <1>5, <2>3 DEF AppendSource
<1>6. CASE Dropped
  <2> DEFINE g == {s \in Ids : src[s].at = "sink"}
  <2>1. told' = [s \in Ids |-> IF s \in g THEN Abstract!Finished ELSE told[s]]
    BY <1>6 DEF Dropped
  <2>2. g \subseteq Ids /\ \A s \in g : ~told[s].gone
    BY DEF IInv, ToldInv, ToldOK
  <2> HIDE DEF g
  <2> QED
    BY <1>2, <2>1, <2>2
<1> QED
  BY <1>4, <1>5, <1>6

\* What the Rodio output posts is what the event loop may expect of any
\* output, and StreamEstablished is always the first.
THEOREM ImplementsAudioOutputHolds == Spec => ImplementsAudioOutput
<1>1. Init => Abstract!Init
  BY DEF Init, Abstract!Init, Ids, Abstract!Ids
<1>2. IInv /\ [Next]_vars => [Abstract!Next]_told
  <2> SUFFICES ASSUME IInv, [Next]_vars
               PROVE  [Abstract!Next]_told
    OBVIOUS
  <2>1. CASE Audio
    BY <2>1, AudioRefines
  <2>2. CASE Establish \/ AppendSource \/ Dropped
    BY <2>2, MainRefines
  <2>3. CASE PauseNew \/ Pause \/ Unpause \/ Stop \/ HandleMessage \/ OnSkip \/ OtherMessage \/ UNCHANGED vars
    BY <2>3 DEF PauseNew, Pause, Unpause, Stop, HandleMessage, OnSkip, OtherMessage, vars
  <2>4. ASSUME NEW s \in Ids, NEW track \in Tracks, NEW autostart \in BOOLEAN,
               OnDecoder(s, track[1], track[2], autostart)
        PROVE  UNCHANGED told
    BY <2>4 DEF OnDecoder
  <2> QED
    BY <2>1, <2>2, <2>3, <2>4 DEF Next, Enqueueing
<1> QED
  BY <1>1, <1>2, Invariance, PTL DEF Spec, ImplementsAudioOutput, Abstract!Spec

=============================================================================
