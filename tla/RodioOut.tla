------------------------------- MODULE RodioOut -------------------------------
(***************************************************************************)
(* vibe/src/rodio_out.rs: the Rodio output, with fill_sample_buffer of     *)
(* decode.rs and the handlers of message.rs that drive it.                 *)
(*                                                                         *)
(* The main thread appends sources to the sink, pauses, resumes and drops  *)
(* it; the audio thread calls DecoderSource::next on the first source of   *)
(* the sink.  Both post to the event loop's bounded queue, which only main *)
(* empties, and wait when it is full.  One call of next is several steps:  *)
(* it may wait at each message it posts, and its skip loop may go round    *)
(* many times.  Audio and skips are counted in one unit, a sample.         *)
(*                                                                         *)
(* External, from how the code uses it: Rodio.  Nothing is taken from a    *)
(* paused sink; a source that returns None is replaced by the one after    *)
(* it; dropping the device stream waits for the audio thread to come back  *)
(* from the source, and no source is asked again.                          *)
(***************************************************************************)
EXTENDS Naturals, Sequences

CONSTANTS
  Streams,      \* bound: streams 1 .. Streams are handed to the output
  Tracks,       \* bound: <<samples, end>>, what the decoders deliver
  Min,          \* MIN_AUDIO_BUFFER_SIZE
  MaxSkip,      \* bound: longest Skip
  QueueCap      \* capacity of the event loop's queue

ASSUME RodioOutAssumption ==
  /\ Streams \in Nat /\ Tracks \subseteq Nat \X {"eof", "error"} /\ MaxSkip \in Nat
  /\ Min \in Nat \ {0} /\ QueueCap \in Nat \ {0}

Ids == 1 .. Streams

VARIABLES
  src,       \* src[s]: the DecoderSource of stream s
  open,      \* playing is Some
  sink,      \* the sources appended and not yet at their end
  paused,    \* the sink is paused
  main,      \* where main is in enqueue_new_stream or in a drop, and its stream
  dev,       \* where the audio thread is in next, and its local variables
  skip,      \* SKIP
  queue,     \* messages waiting for main: "drained", or "other"
  told       \* history: the messages posted (see AudioOutput)

vars == <<src, open, sink, paused, main, dev, skip, queue, told>>

Abstract == INSTANCE AudioOutput WITH EstablishedFirst <- TRUE

\* A source: left is what its decoder still delivers and ends how it then
\* ends, frame what is decoded; out counts what was played or skipped.
NewSource(samples, end) ==
  [at |-> "main", total |-> samples, left |-> samples, ends |-> end, frame |-> 0,
   start_flag |-> TRUE, eod_flag |-> FALSE, out |-> 0]

NoneYet == [NewSource(0, "eof") EXCEPT !.at = "none"]
Gone == [NoneYet EXCEPT !.at = "gone"]

\* dev.then: where next goes on once NotSupported is posted.
Resting == [pc |-> "idle", skip |-> 0, then |-> "idle"]
NoWork == [pc |-> "idle", s |-> 0, autostart |-> FALSE]

Init ==
  /\ src = [s \in Ids |-> NoneYet]
  /\ open = FALSE /\ sink = <<>> /\ paused = FALSE
  /\ main = NoWork /\ dev = Resting /\ skip = 0 /\ queue = <<>>
  /\ told = [s \in Ids |-> Abstract!Silent]

Smaller(a, b) == IF a <= b THEN a ELSE b

\* Sender::send returns once there is room.
Post(msg) == Len(queue) < QueueCap /\ queue' = Append(queue, msg)

-----------------------------------------------------------------------------
(* The audio thread: DecoderSource::next on the first source               *)

Cur == Head(sink)

\* Mutant: the end of decoding is not remembered.
RefillsAgain(st) == st.frame < Min

\* next decodes more when little is left and the decoder has not ended.
Refills(st) == st.frame < Min /\ ~st.eod_flag

AfterStart(st) == IF Refills(st) THEN "refill" ELSE "pop"

\* Rodio asks for a sample.
Begin ==
  /\ dev.pc = "idle" /\ open /\ ~paused /\ sink # <<>> /\ main.pc # "drop"
  /\ dev' = [Resting EXCEPT !.pc = IF src[Cur].start_flag THEN "announce" ELSE AfterStart(src[Cur])]
  /\ UNCHANGED <<src, open, sink, paused, main, skip, queue, told>>

Announce ==
  /\ dev.pc = "announce"
  /\ Post("other")
  /\ told' = [told EXCEPT ![Cur].start = @ + 1]
  /\ src' = [src EXCEPT ![Cur].start_flag = FALSE]
  /\ dev' = [dev EXCEPT !.pc = AfterStart(src[Cur])]
  /\ UNCHANGED <<open, sink, paused, main, skip>>

\* fill_sample_buffer of an empty buffer, up to its limit: how much comes, and
\* whether the decoder ends or fails before the limit.
Decoded(st) == Smaller(st.left, 2 * Min)
RunsOut(st) == st.left < 2 * Min

\* Mutant: an empty buffer always means another turn.
GoesRoundEmpty(remaining, rest) == rest = 0

\* The skip swallowed the whole buffer.
GoesRound(remaining, rest) == remaining > 0 /\ rest = 0

\* Mutant: the frame is replaced by what was decoded.
ExtendedNew(st, rest) == rest

\* frame.extend
Extended(st, rest) == st.frame + rest

\* One turn of the loop in next: decode, drop what is to be skipped, and
\* unless nothing is left of it extend the frame and leave the loop.
Turn(remaining) ==
  LET st   == src[Cur]
      cut  == Smaller(remaining, Decoded(st))
      rest == Decoded(st) - cut
      more == GoesRound(remaining, rest)
      then == IF more THEN "again" ELSE IF RunsOut(st) THEN "ended" ELSE "pop"
  IN
  /\ src' = [src EXCEPT ![Cur] =
               [st EXCEPT !.left = @ - Decoded(st), !.out = @ + cut,
                          !.frame = IF more THEN @ ELSE Extended(st, rest),
                          !.eod_flag = RunsOut(st) /\ ~more]]
  /\ dev' = [pc |-> IF RunsOut(st) /\ st.ends = "error" THEN "bad" ELSE then,
             skip |-> IF more THEN remaining - cut ELSE 0, then |-> then]
  /\ UNCHANGED <<open, sink, paused, main, queue, told>>

Refill == dev.pc = "refill" /\ Turn(skip) /\ skip' = 0

RefillAgain == dev.pc = "again" /\ Turn(dev.skip) /\ UNCHANGED skip

\* The decoder failed: NotSupported.
ReportError ==
  /\ dev.pc = "bad"
  /\ Post("other")
  /\ told' = [told EXCEPT ![Cur].bad = TRUE]
  /\ dev' = [dev EXCEPT !.pc = dev.then]
  /\ UNCHANGED <<src, open, sink, paused, main, skip>>

ReportEnd ==
  /\ dev.pc = "ended"
  /\ Post("other")
  /\ told' = [told EXCEPT ![Cur].eod = @ + 1]
  /\ dev' = [dev EXCEPT !.pc = "pop"]
  /\ UNCHANGED <<src, open, sink, paused, main, skip>>

\* pop_front finds nothing.
Exhausted(st) == st.frame = 0

\* A sample, or Drained and None, and the next source is first.
Pop ==
  /\ dev.pc = "pop"
  /\ dev' = Resting
  /\ \/ /\ ~Exhausted(src[Cur])
        /\ src' = [src EXCEPT ![Cur].frame = @ - 1, ![Cur].out = @ + 1]
        /\ UNCHANGED <<sink, queue, told>>
     \/ /\ Exhausted(src[Cur])
        /\ Post("drained")
        /\ told' = [told EXCEPT ![Cur].drained = TRUE]
        /\ src' = [src EXCEPT ![Cur].at = "done"]
        /\ sink' = Tail(sink)
  /\ UNCHANGED <<open, paused, main, skip>>

Audio == Begin \/ Announce \/ Refill \/ RefillAgain \/ ReportError \/ ReportEnd \/ Pop

-----------------------------------------------------------------------------
(* The main thread                                                         *)

MainFree == main.pc = "idle"

\* enqueue_new_stream: a source is made,
OnDecoder(s, samples, end, autostart) ==
  /\ MainFree
  /\ src[s].at = "none" /\ \A r \in 1 .. s - 1 : src[r].at # "none"
  /\ src' = [src EXCEPT ![s] = NewSource(samples, end)]
  /\ main' = [pc |-> "establish", s |-> s, autostart |-> autostart]
  /\ UNCHANGED <<open, sink, paused, dev, skip, queue, told>>

\* StreamEstablished is posted,
Establish ==
  /\ main.pc = "establish"
  /\ Post("other")
  /\ told' = [told EXCEPT ![main.s].est = @ + 1]
  /\ main' = [main EXCEPT !.pc = "append"]
  /\ UNCHANGED <<src, open, sink, paused, dev, skip>>

\* and the source goes to the open sink, or to that of a device which is
\* opened now, and which plays until main has paused it.  A device that cannot
\* be opened gives the stream up; only the log hears of it.
AppendSource ==
  LET s == main.s IN
  /\ main.pc = "append"
  /\ \/ /\ open
        /\ sink' = Append(sink, s) /\ src' = [src EXCEPT ![s].at = "sink"]
        /\ main' = NoWork
        /\ UNCHANGED <<open, paused, told>>
     \/ /\ ~open
        /\ open' = TRUE /\ paused' = FALSE
        /\ sink' = <<s>> /\ src' = [src EXCEPT ![s].at = "sink"]
        /\ main' = IF main.autostart THEN NoWork ELSE [main EXCEPT !.pc = "pause"]
        /\ UNCHANGED told
     \/ /\ ~open
        /\ src' = [src EXCEPT ![s] = Gone] /\ told' = [told EXCEPT ![s] = Abstract!Finished]
        /\ main' = NoWork
        /\ UNCHANGED <<open, paused, sink>>
  /\ UNCHANGED <<dev, skip, queue>>

PauseNew ==
  /\ main.pc = "pause"
  /\ paused' = TRUE /\ main' = NoWork
  /\ UNCHANGED <<src, open, sink, dev, skip, queue, told>>

Pause ==
  /\ MainFree /\ open
  /\ paused' = TRUE
  /\ UNCHANGED <<src, open, sink, main, dev, skip, queue, told>>

Unpause ==
  /\ MainFree /\ open
  /\ paused' = FALSE
  /\ UNCHANGED <<src, open, sink, main, dev, skip, queue, told>>

\* stop, flush, or the output disabled: the sources are silenced and the
\* device stream is dropped (a callback that begins in between finds the sink
\* stopped, and what it may still post is what a callback under way posts),
Stop ==
  /\ MainFree /\ open
  /\ main' = [NoWork EXCEPT !.pc = "drop"]
  /\ UNCHANGED <<src, open, sink, paused, dev, skip, queue, told>>

\* which waits for the audio thread.
Dropped ==
  /\ main.pc = "drop" /\ dev.pc = "idle"
  /\ open' = FALSE /\ sink' = <<>> /\ paused' = FALSE
  /\ src' = [s \in Ids |-> IF src[s].at = "sink" THEN Gone ELSE src[s]]
  /\ told' = [s \in Ids |-> IF src[s].at = "sink" THEN Abstract!Finished ELSE told[s]]
  /\ main' = NoWork
  /\ UNCHANGED <<dev, skip, queue>>

\* Of the messages of the queue only Drained concerns the output: shift does
\* nothing, and the sink is resumed.
HandleMessage ==
  /\ MainFree /\ queue # <<>>
  /\ queue' = Tail(queue)
  /\ paused' = (paused /\ Head(queue) # "drained")
  /\ UNCHANGED <<src, open, sink, main, dev, skip, told>>

OnSkip ==
  /\ MainFree
  /\ \E interval \in 1 .. MaxSkip : skip' = interval
  /\ UNCHANGED <<src, open, sink, paused, main, dev, queue, told>>

\* The threads that connect streams and the timers post to the same queue
\* (external to the output).
OtherMessage ==
  /\ Post("other")
  /\ UNCHANGED <<src, open, sink, paused, main, dev, skip, told>>

Enqueueing == Establish \/ AppendSource \/ PauseNew

Next ==
  \/ \E s \in Ids, track \in Tracks, autostart \in BOOLEAN : OnDecoder(s, track[1], track[2], autostart)
  \/ Enqueueing \/ Pause \/ Unpause \/ Stop \/ Dropped \/ HandleMessage \/ OnSkip \/ OtherMessage
  \/ Audio

Spec == Init /\ [][Next]_vars

\* Both threads go on when they can; a message that waits for room in the
\* queue gets it (crossbeam serves the waiting senders in turn), and main
\* reads the queue although the server's commands keep coming (Select is
\* fair).
LiveSpec ==
  /\ Spec
  /\ WF_vars(Begin) /\ SF_vars(Announce) /\ WF_vars(Refill) /\ WF_vars(RefillAgain)
  /\ SF_vars(ReportError) /\ SF_vars(ReportEnd) /\ SF_vars(Pop)
  /\ SF_vars(HandleMessage) /\ SF_vars(Enqueueing) /\ WF_vars(Dropped)

-----------------------------------------------------------------------------

Source ==
  [at : {"none", "main", "sink", "done", "gone"}, total : Nat, left : Nat, ends : {"eof", "error"},
   frame : Nat, start_flag : BOOLEAN, eod_flag : BOOLEAN, out : Nat]

\* Types; the decoded samples of a source never exceed one refill on top of a
\* frame that was nearly empty.
TypeOK ==
  /\ src \in [Ids -> Source] /\ \A s \in Ids : src[s].frame < 3 * Min
  /\ open \in BOOLEAN /\ paused \in BOOLEAN /\ sink \in Seq(Ids)
  /\ main \in [pc : {"idle", "establish", "append", "pause", "drop"}, s : 0 .. Streams, autostart : BOOLEAN]
  /\ dev \in [pc : {"idle", "announce", "refill", "again", "bad", "ended", "pop"}, skip : 0 .. MaxSkip,
              then : {"idle", "again", "ended", "pop"}]
  /\ skip \in 0 .. MaxSkip
  /\ queue \in Seq({"drained", "other"}) /\ Len(queue) <= QueueCap
  /\ told \in [Ids -> Abstract!Told]

\* Every sample of a track is played or was skipped by the time the end of the
\* track is reported, however refills, skips, pauses and waits for the queue
\* fall: none is dropped when the frame is refilled before it is empty, and
\* none is left in it.
EndsComplete == \A s \in Ids : src[s].at = "done" => src[s].out = src[s].total

\* The messages of each stream come in the order, and as often, as the event
\* loop may expect of any output; here StreamEstablished is always the first.
ImplementsAudioOutput == Abstract!Spec

\* next never returns: a skip is longer than what is left of the track.
Overskipped == dev.pc \in {"again", "bad"} /\ dev.skip > 0 /\ src[Cur].left = 0

\* main and the thread it waits for both wait for room in the queue that only
\* main empties.
StuckOnQueue ==
  /\ Len(queue) = QueueCap
  /\ main.pc = "establish" \/ (main.pc = "drop" /\ dev.pc # "idle")

\* main comes back from enqueue_new_stream, stop and flush, which post to its
\* own queue and wait for the audio thread, except in two states: its queue is
\* full, or the audio thread is skipping past the end of the track.
MainReturns == ~MainFree ~> (MainFree \/ StuckOnQueue \/ Overskipped)

\* A sink that is not paused is played to its end: the audio thread never
\* keeps a track for ever, except in the same two states.
PlaybackEnds == []<>(sink = <<>> \/ paused \/ StuckOnQueue \/ Overskipped)

=============================================================================
