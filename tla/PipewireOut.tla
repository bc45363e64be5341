------------------------------ MODULE PipewireOut ------------------------------
(***************************************************************************)
(* vibe/src/pipewire_out.rs: the PipeWire output, with fill_raw_buffer of  *)
(* decode.rs and the handlers of message.rs that drive it.                 *)
(*                                                                         *)
(* The main thread owns the two slots; the pw-loop thread calls            *)
(* on_process, on_state_change and on_drained.  A callback runs with the   *)
(* loop's lock held, also while it waits for room in the bounded queue of  *)
(* player messages; main, the only reader of that queue, waits for the     *)
(* same lock in everything it does to a stream, and posts to its own       *)
(* queue.  on_process is several steps here because its skip loop may go   *)
(* round many times.                                                       *)
(* All streams share duration, start_ticks and skip_offset_ms, and the     *)
(* whole process shares SKIP.                                              *)
(*                                                                         *)
(* Audio, skips and the graph clock are counted in the same unit, a        *)
(* quantum.  Of the messages in the queue only Drained changes the output; *)
(* told records those of the streams, each from when it is sent, whether   *)
(* or not the sender then has to wait.                                     *)
(*                                                                         *)
(* External, from how the code uses it: PipeWire.  Streams connect, and    *)
(* follow set_active, in their own time; only a running stream is          *)
(* processed and played; the clock never stops; on_drained follows         *)
(* flush(true) once what was queued has been played, and on_process is not *)
(* called after it until the stream has been deactivated and activated     *)
(* again.                                                                  *)
(***************************************************************************)
EXTENDS Integers, Sequences

CONSTANTS
  Streams,      \* bound: streams 1 .. Streams are handed to the output
  Tracks,       \* bound: Tracks[s], the <<units, end>> that the decoder of s may deliver
  Limit,        \* units fill_raw_buffer decodes to
  Queued,       \* units PipeWire queues for a stream
  MaxSkip,      \* bound: longest Skip
  MaxClock,     \* bound: the clock stands still from here on
  QueueCap      \* the capacity of the queue of player messages (10)

ASSUME PipewireOutAssumption ==
  /\ Streams \in Nat /\ Tracks \in [1 .. Streams -> SUBSET (Nat \X {"eof", "error"})] /\ MaxSkip \in Nat /\ MaxClock \in Nat
  /\ Limit \in Nat \ {0} /\ Queued \in Nat \ {0} /\ QueueCap \in Nat \ {0}

Ids == 1 .. Streams
NoStream == 0
NoTicks == -1

VARIABLES
  stream,    \* stream[s]: the stream, its decoder and what its callback owns
  playing, next_up,
  opening,   \* the stream enqueue_new_stream has connected and not yet placed
  job,       \* what main is doing to the output (see Jobs), or "none"
  sending,   \* the message a callback waits to post, or "none"
  proc,      \* the on_process call under way: its stream (or NoStream), where
             \* it is, its skip_time and whether decoding has ended
  skip,      \* SKIP
  clock, duration, start_ticks, skip_offset,
  queue,     \* the player messages: "drained" or "other"
  \* history
  told,      \* the messages posted (see AudioOutput)
  due,       \* due[s]: time stream s ran, and what was skipped in it
  late       \* a callback came between a pause and PipeWire's following it

slots  == <<playing, next_up, opening>>
queues == <<sending, queue>>
timing == <<clock, duration, start_ticks, skip_offset, late>>
vars   == <<stream, slots, job, proc, skip, timing, queues, told, due>>

Abstract == INSTANCE AudioOutput WITH EstablishedFirst <- FALSE

NoProc == [s |-> NoStream, pc |-> "idle", skip_time |-> 0, eod |-> FALSE]

\* A stream:
\*   conn      "none", "connecting", "ready", "error", "gone"
\*   left      units its decoder still delivers, and ends: how it then ends
\*   audioBuf  units decoded and not yet given to PipeWire
\*   state     the ProcessState of on_process
\*   active    what set_active last asked for; running: whether PipeWire does
\*   level     units queued in PipeWire
\*   drain     "no", "asked" by flush(true), "done"
NewStream(units, end) ==
  [conn |-> "none", left |-> units, ends |-> end, audioBuf |-> 0, state |-> "Running",
   active |-> FALSE, running |-> FALSE, level |-> 0, drain |-> "no"]

NoneYet == NewStream(0, "eof")
Gone == [NoneYet EXCEPT !.conn = "gone"]

Init ==
  /\ stream = [s \in Ids |-> NoneYet]
  /\ playing = NoStream /\ next_up = NoStream /\ opening = NoStream
  /\ proc = NoProc /\ skip = 0
  /\ clock = 0 /\ duration = 0 /\ start_ticks = NoTicks /\ skip_offset = 0
  /\ job = "none" /\ sending = "none" /\ queue = <<>>
  /\ told = [s \in Ids |-> Abstract!Silent] /\ due = [s \in Ids |-> 0] /\ late = FALSE

-----------------------------------------------------------------------------
(* VibeDecoder::fill_raw_buffer                                            *)

Smaller(a, b) == IF a <= b THEN a ELSE b

\* Mutant: the end is noticed although the buffer was filled.
RunsOutEarly(st) == st.audioBuf + st.left <= Limit + 1

\* The decoder has no more, or fails, before the buffer is filled.
RunsOut(st) == st.audioBuf + st.left < Limit

Fails(st) == RunsOut(st) /\ st.ends = "error"

\* Units decoded to fill the buffer.
Decoded(st) == IF st.audioBuf >= Limit THEN 0 ELSE Smaller(st.left, Limit - st.audioBuf)

Filled(st) == [st EXCEPT !.audioBuf = @ + Decoded(st), !.left = @ - Decoded(st)]

-----------------------------------------------------------------------------
(* The queue and the lock                                                  *)

\* Sender::send returns once there is room for what is posted.
Room(messages) == Len(queue) + Len(messages) <= QueueCap

\* A callback's message reaches the queue, and the callback goes on.
PostCallback ==
  /\ sending # "none" /\ Room(<<sending>>)
  /\ queue' = Append(queue, sending) /\ sending' = "none"
  /\ UNCHANGED <<stream, slots, job, proc, skip, timing, told, due>>

\* The threads that connect streams and the timers post, too (external).
OtherMessage ==
  /\ Room(<<"other">>)
  /\ queue' = Append(queue, "other")
  /\ UNCHANGED <<stream, slots, job, proc, skip, timing, sending, told, due>>

\* The loop's lock: no callback is running.
LoopFree == proc.pc = "idle" /\ sending = "none"

-----------------------------------------------------------------------------
(* The main thread                                                         *)

\* What main may be in the middle of: commands of the server and the timers,
\* shift, and enqueue_new_stream: "open" up to connect, "refuse" if that fails,
\* then "auto" or "manual" as the autostart flag is.
Commands == {"pause", "unpause", "stop"}
Jobs == {"none", "open", "refuse", "auto", "manual", "shift"} \cup Commands

\* main is in its event loop.
MainFree == job = "none"

\* The handlers go on to the output, whose operations wait for the lock.
\* pause and unpause do nothing without a playing stream (bound: no stream is
\* opened when all have been).
Ask(kind) ==
  /\ MainFree
  /\ kind \in {"pause", "unpause"} => playing # NoStream
  /\ kind = "open" => \E s \in Ids : stream[s].conn = "none"
  /\ job' = kind
  /\ UNCHANGED <<stream, slots, proc, skip, timing, queues, told, due>>

\* handle_player_message; only Drained, on_drained, goes on to the output.
TakeMessage ==
  /\ MainFree /\ queue # <<>>
  /\ queue' = Tail(queue)
  /\ job' = IF Head(queue) = "drained" THEN "shift" ELSE "none"
  /\ UNCHANGED <<stream, slots, proc, skip, timing, sending, told, due>>

\* set_active(on); deactivation also ends a drain, and so does an activation
\* after one.
SetActive(st, on) ==
  [st EXCEPT !.active = on,
             !.drain = IF ~on \/ @ = "done" THEN "no" ELSE @]

\* Streams are disconnected and dropped with their listeners.
Without(streams) == [s \in Ids |-> IF s \in streams THEN Gone ELSE stream[s]]
ToldWithout(streams) ==
  [s \in Ids |-> IF s \in streams THEN Abstract!Finished ELSE told[s]]
DueWithout(streams) == [s \in Ids |-> IF s \in streams THEN 0 ELSE due[s]]

\* An error state that is left this way is reported once more, by main itself.
Left(s) == IF s # NoStream /\ stream[s].conn = "error" THEN <<"other">> ELSE <<>>

\* The stream a new one replaces in next_up.
Replaced == IF playing = NoStream THEN NoStream ELSE next_up

ResetTiming ==
  /\ duration' = 0 /\ skip_offset' = 0 /\ start_ticks' = NoTicks
  /\ late' = FALSE
  /\ UNCHANGED clock

\* enqueue_new_stream up to connect: prefill, and a new stream, inactive.
\* A decoder error or a failing PipeWire call gives the stream up.
OpenStream(s, units, end) ==
  LET new == Filled(NewStream(units, end)) IN
  /\ job = "open" /\ LoopFree
  /\ stream[s].conn = "none" /\ \A r \in 1 .. s - 1 : stream[r].conn # "none"
  /\ \/ /\ ~Fails(NewStream(units, end))
        /\ stream' = [stream EXCEPT ![s] = [new EXCEPT !.conn = "connecting"]]
        /\ opening' = s /\ job' \in {"auto", "manual"}
        /\ UNCHANGED told
     \/ /\ stream' = [stream EXCEPT ![s] = Gone]
        /\ told' = [told EXCEPT ![s] = Abstract!Finished]
        /\ job' = "refuse"
        /\ UNCHANGED opening
  /\ UNCHANGED <<playing, next_up, proc, skip, timing, queues, due>>

\* NotSupported is posted by main.
Refuse ==
  /\ job = "refuse" /\ Room(<<"other">>)
  /\ queue' = Append(queue, "other") /\ job' = "none"
  /\ UNCHANGED <<stream, slots, proc, skip, timing, sending, told, due>>

\* Mutant: a waiting stream is activated, too.
ActivatesAny == job = "auto"

\* enqueue: only a stream that finds the output empty is played.
Activates == job = "auto" /\ playing = NoStream

\* The rest of enqueue_new_stream: post StreamEstablished, without the lock,
Establish ==
  /\ opening # NoStream /\ told[opening].est = 0 /\ Room(<<"other">>)
  /\ queue' = Append(queue, "other")
  /\ told' = [told EXCEPT ![opening].est = @ + 1]
  /\ UNCHANGED <<stream, slots, job, proc, skip, timing, sending, due>>

\* and take a slot.  A stream that was waiting is replaced and dropped.
Enqueue ==
  LET s == opening
      dropped == {Replaced} \ {NoStream}
  IN
  /\ opening # NoStream /\ told[s].est = 1
  /\ (Activates => LoopFree) /\ Room(Left(Replaced))
  /\ opening' = NoStream /\ job' = "none"
  /\ IF playing = NoStream THEN playing' = s /\ UNCHANGED next_up
                           ELSE next_up' = s /\ UNCHANGED playing
  /\ stream' = [Without(dropped) EXCEPT ![s].active = Activates]
  /\ queue' = queue \o Left(Replaced)
  /\ told' = ToldWithout(dropped) /\ due' = DueWithout(dropped)
  /\ UNCHANGED <<proc, skip, timing, sending>>

\* Mutant: the elapsed time is not kept over a pause.
FoldNothing == 0

\* pause: what has been reported so far is kept as an offset.
Folded == duration

\* Mutant: the anchor from before the pause is kept.
KeptTicks == start_ticks

\* The next callback sets a new anchor.
ClearedTicks == NoTicks

Pause ==
  /\ job = "pause" /\ LoopFree /\ job' = "none"
  /\ skip_offset' = Folded /\ start_ticks' = ClearedTicks
  /\ stream' = [stream EXCEPT ![playing] = SetActive(@, FALSE)]
  /\ UNCHANGED <<slots, proc, skip, clock, duration, late, queues, told, due>>

Unpause ==
  /\ job = "unpause" /\ LoopFree /\ job' = "none"
  /\ stream' = [stream EXCEPT ![playing] = SetActive(@, TRUE)]
  /\ told' = [told EXCEPT ![playing].drained = FALSE]
  /\ UNCHANGED <<slots, proc, skip, timing, queues, due>>

\* stop, flush and drop.
Stop ==
  LET gone == {playing, next_up} \ {NoStream} IN
  /\ job = "stop" /\ LoopFree /\ Room(Left(playing) \o Left(next_up))
  /\ job' = "none" /\ queue' = queue \o (Left(playing) \o Left(next_up))
  /\ stream' = Without(gone) /\ told' = ToldWithout(gone) /\ due' = DueWithout(gone)
  /\ playing' = NoStream /\ next_up' = NoStream
  /\ ResetTiming
  /\ UNCHANGED <<opening, proc, skip, sending>>

\* on_drained: shift, and unpause what is then playing.
Shift ==
  LET gone == {playing} \ {NoStream} IN
  /\ job = "shift" /\ LoopFree /\ Room(Left(playing))
  /\ job' = (IF next_up = NoStream THEN "none" ELSE "unpause")
  /\ queue' = queue \o Left(playing)
  /\ stream' = Without(gone) /\ told' = ToldWithout(gone) /\ due' = DueWithout(gone)
  /\ playing' = next_up /\ next_up' = NoStream
  /\ ResetTiming
  /\ UNCHANGED <<opening, proc, skip, sending>>

\* on_skip only leaves the interval for the next callback.
OnSkip ==
  /\ MainFree
  /\ \E interval \in 1 .. MaxSkip : skip' = interval
  /\ UNCHANGED <<stream, slots, job, proc, timing, queues, told, due>>

-----------------------------------------------------------------------------
(* The pw-loop thread: the callbacks                                       *)

\* One turn of the decode loop of on_process: fill the buffer, then drop what
\* is to be skipped; an empty buffer after that means another turn.  A decoder
\* error is posted at once.
Turn(s, skip_time) ==
  LET st     == stream[s]
      filled == Filled(st)
      cut    == Smaller(skip_time, filled.audioBuf)
      again  == skip_time > 0 /\ filled.audioBuf = cut
  IN
  /\ stream' = [stream EXCEPT ![s] =
                  [filled EXCEPT !.audioBuf = @ - cut, !.state = IF Fails(st) THEN "Draining" ELSE @]]
  /\ told' = [told EXCEPT ![s].bad = @ \/ Fails(st)]
  /\ skip_offset' = skip_offset + cut
  /\ due' = [due EXCEPT ![s] = @ + cut]
  /\ proc' = [s |-> s, pc |-> IF again THEN "decode" ELSE "finish",
              skip_time |-> IF again THEN skip_time - cut ELSE 0, eod |-> RunsOut(st)]
  /\ sending' = IF Fails(st) THEN "other" ELSE "none"
  /\ UNCHANGED <<slots, job, clock, duration, start_ticks, queue>>

\* on_process begins: the skip is taken, and unless the stream is draining
\* the loop is entered.
BeginProcess(s) ==
  /\ LoopFree
  /\ stream[s].conn = "ready" /\ stream[s].running /\ stream[s].drain # "done"
  /\ skip' = 0 /\ late' = (late \/ ~stream[s].active)
  /\ \/ /\ stream[s].state = "Running"
        /\ Turn(s, skip)
     \/ /\ stream[s].state = "Draining"
        /\ proc' = [NoProc EXCEPT !.s = s, !.pc = "finish", !.eod = TRUE]
        /\ UNCHANGED <<stream, slots, job, clock, duration, start_ticks, skip_offset, queues, told, due>>

TurnAgain ==
  /\ proc.pc = "decode" /\ sending = "none"
  /\ Turn(proc.s, proc.skip_time)
  /\ UNCHANGED <<skip, late>>

\* Mutant: end-of-decode is sent whatever the state.
EndsDecodingAlways(st) == proc.eod

\* The guard of the EndOfDecode message.
EndsDecoding(st) == proc.eod /\ st.state = "Running"

\* Mutant: drains only in the call that ends the decoding.
AsksDrainOnce(st) == st.audioBuf = 0 /\ st.state = "Running"

\* An empty buffer makes on_process flush the stream and ask it to drain.
AsksDrain(st) == st.audioBuf = 0

\* dequeue_buffer: PipeWire has a buffer free.
Dequeued(st) == st.level < Queued

\* The rest of on_process: give PipeWire a buffer if it has one free, or ask
\* it to drain; keep the time if the stream has one; announce the end of
\* decoding.
FinishProcess ==
  LET st == stream[proc.s]
      n  == IF Dequeued(st) THEN Smaller(1, st.audioBuf) ELSE 0
  IN
  /\ proc.pc = "finish" /\ sending = "none"
  /\ proc' = NoProc /\ sending' = IF EndsDecoding(st) THEN "other" ELSE "none"
  /\ stream' = [stream EXCEPT ![proc.s] =
                  [st EXCEPT !.audioBuf = @ - n, !.level = @ + n,
                             !.drain = IF AsksDrain(st) THEN "asked" ELSE @,
                             !.state = IF EndsDecoding(st) THEN "Draining" ELSE @]]
  /\ told' = [told EXCEPT ![proc.s].eod = IF EndsDecoding(st) THEN @ + 1 ELSE @]
  /\ \/ /\ start_ticks' = IF start_ticks = NoTicks THEN clock ELSE start_ticks
        /\ duration' = clock - start_ticks' + skip_offset
     \/ UNCHANGED <<start_ticks, duration>>
  /\ UNCHANGED <<slots, job, skip, clock, skip_offset, late, queue, due>>

\* on_state_change: the stream is connected, which counts as the start of its
\* track; or it fails.
OnConnected(s) ==
  /\ LoopFree /\ stream[s].conn = "connecting"
  /\ stream' = [stream EXCEPT ![s].conn = "ready"]
  /\ told' = [told EXCEPT ![s].start = @ + 1] /\ sending' = "other"
  /\ ResetTiming
  /\ UNCHANGED <<slots, job, proc, skip, queue, due>>

OnError(s) ==
  /\ LoopFree /\ stream[s].conn \in {"connecting", "ready"}
  /\ stream' = [stream EXCEPT ![s] = [Gone EXCEPT !.conn = "error", !.active = stream[s].active]]
  /\ told' = [told EXCEPT ![s].bad = TRUE] /\ sending' = "other"
  /\ UNCHANGED <<slots, job, proc, skip, timing, queue, due>>

\* drained: what was queued has been played.
StreamDrained(s) ==
  /\ LoopFree
  /\ stream[s].conn = "ready" /\ stream[s].running
  /\ stream[s].drain = "asked" /\ stream[s].level = 0
  /\ stream' = [stream EXCEPT ![s].drain = "done"]
  /\ told' = [told EXCEPT ![s].drained = TRUE] /\ sending' = "drained"
  /\ UNCHANGED <<slots, job, proc, skip, timing, queue, due>>

-----------------------------------------------------------------------------
(* PipeWire (external)                                                     *)

\* A stream starts or stops running after set_active.
Follow(s) ==
  /\ stream[s].conn = "ready" /\ stream[s].running # stream[s].active
  /\ stream' = [stream EXCEPT ![s].running = stream[s].active]
  /\ UNCHANGED <<slots, job, proc, skip, timing, queues, told, due>>

TimePasses ==
  /\ clock' = Smaller(clock + 1, MaxClock)
  /\ due' = [s \in Ids |-> IF stream[s].active \/ stream[s].running THEN due[s] + clock' - clock ELSE due[s]]
  /\ UNCHANGED <<duration, start_ticks, skip_offset, late>>

Play(s) ==
  /\ stream[s].conn = "ready" /\ stream[s].running /\ stream[s].level > 0
  /\ stream' = [stream EXCEPT ![s].level = @ - 1]
  /\ TimePasses
  /\ UNCHANGED <<slots, job, proc, skip, queues, told>>

\* The graph clock goes on with nothing to play.
Idle ==
  /\ clock < MaxClock
  /\ TimePasses
  /\ UNCHANGED <<stream, slots, job, proc, skip, queues, told>>

-----------------------------------------------------------------------------

\* main goes on with its job.
Working ==
  \/ \E s \in Ids : \E track \in Tracks[s] : OpenStream(s, track[1], track[2])
  \/ Refuse \/ Establish \/ Enqueue
  \/ Pause \/ Unpause \/ Stop \/ Shift

Main ==
  \/ \E kind \in Commands \cup {"open"} : Ask(kind)
  \/ TakeMessage \/ Working \/ OnSkip

Process(s) == BeginProcess(s) \/ (proc.s = s /\ (TurnAgain \/ FinishProcess))

Next ==
  \/ Main \/ PostCallback \/ OtherMessage
  \/ \E s \in Ids :
        Process(s) \/ OnConnected(s) \/ OnError(s) \/ StreamDrained(s) \/ Follow(s) \/ Play(s)
  \/ Idle

Spec == Init /\ [][Next]_vars

\* The loop thread and PipeWire go on.  The loop dispatches its events in
\* turn, so a drained event is not kept back for ever by calls of on_process; a
\* message that waits for room in the queue gets it when there is room again and
\* again (crossbeam serves the waiting senders in turn), and main gets the lock
\* it waits for and reads the queue, although the server's commands keep coming
\* (Select is fair).
LiveSpec ==
  /\ Spec
  /\ WF_vars(\E s \in Ids : Process(s)) /\ SF_vars(\E s \in Ids : StreamDrained(s))
  /\ WF_vars(\E s \in Ids : Follow(s)) /\ WF_vars(\E s \in Ids : Play(s))
  /\ SF_vars(PostCallback) /\ SF_vars(TakeMessage) /\ SF_vars(Working)

-----------------------------------------------------------------------------

Stream ==
  [conn : {"none", "connecting", "ready", "error", "gone"},
   left : Nat, ends : {"eof", "error"},
   audioBuf : 0 .. Limit, state : {"Running", "Draining"}, active : BOOLEAN, running : BOOLEAN,
   level : 0 .. Queued, drain : {"no", "asked", "done"}]

\* Types; no thread posts more than the queue holds, and PipeWire is never
\* given more than it has buffers for.
MainOK ==
  /\ job \in Jobs /\ sending \in {"none", "drained", "other"}
  /\ queue \in Seq({"drained", "other"}) /\ Len(queue) <= QueueCap

OutputOK ==
  /\ stream \in [Ids -> Stream]
  /\ {playing, next_up, opening} \subseteq Ids \cup {NoStream}
  /\ proc \in [s : Ids \cup {NoStream}, pc : {"idle", "decode", "finish"},
               skip_time : 0 .. MaxSkip, eod : BOOLEAN]
  /\ skip \in 0 .. MaxSkip
  /\ clock \in 0 .. MaxClock /\ duration \in Nat
  /\ start_ticks \in {NoTicks} \cup 0 .. MaxClock /\ skip_offset \in Nat
  /\ told \in [Ids -> Abstract!Told] /\ due \in [Ids -> Nat] /\ late \in BOOLEAN

TypeOK == MainOK /\ OutputOK

\* Two tracks never sound at once: only the stream in the playing slot is
\* active, whatever mix of streams handed over, stops, shifts and resumes led
\* there, and PipeWire runs no other.
OneAtATime ==
  \A s \in Ids : stream[s].active \/ stream[s].running => s = playing

\* The end of a track is reported only when all of it was decoded, handed
\* over and played; what a skip dropped and what follows a decoder error are
\* the only exceptions.
EndsComplete == \A s \in Ids : LET st == stream[s] IN st.drain = "done" => st.left + st.audioBuf + st.level = 0

\* "so the pause gap doesn't get counted as playback time" (pipewire_out.rs:413):
\* the time reported for the playing track is never more than the time it
\* ran and what was skipped in it, unless a callback came after the pause and
\* before PipeWire followed it: that one sets the anchor before the gap.
PauseGapNotCounted == playing # NoStream /\ ~late => duration <= due[playing]

\* The elapsed time of a track that goes on playing falls back only when
\* another stream gets connected, which resets the shared time
\* (pipewire_out.rs:316); a pause, a skip or a late callback never does it.
FallsOnlyOnConnect ==
  [][playing # NoStream /\ playing' = playing /\ duration' < duration
       => \E s \in Ids : stream[s].conn = "connecting" /\ stream'[s].conn = "ready"]_vars

\* "Elapsed time, anchored to PipeWire's graph clock at track start"
\* (pipewire_out.rs:256): while the same track plays, no other stream moves
\* the anchor, so the elapsed time does not fall back.
AnchoredAtTrackStart ==
  [][playing # NoStream /\ playing' = playing /\ stream[playing].conn = "ready" => duration' >= duration]_vars

\* The messages of each stream come in the order, and as often, as the event
\* loop may expect of any output.
ImplementsAudioOutput == Abstract!Spec

\* The decode loop of on_process keeps turning, with the loop's lock, when a
\* skip is longer than what is left of the track.
Overskipped ==
  /\ proc.pc = "decode" /\ proc.skip_time > 0
  /\ stream[proc.s].audioBuf + stream[proc.s].left = 0

\* main posts these to the queue of which it is the only reader.
MainPosts ==
  CASE job = "refuse" -> <<"other">>
    [] opening # NoStream /\ told[opening].est = 0 -> <<"other">>
    [] opening # NoStream /\ told[opening].est = 1 -> Left(Replaced)
    [] job = "stop" -> Left(playing) \o Left(next_up)
    [] job = "shift" -> Left(playing)
    [] OTHER -> <<>>

\* main waits for the lock.
WantsLock ==
  \/ job \in Commands \cup {"open", "shift"}
  \/ opening # NoStream /\ told[opening].est = 1 /\ Activates

\* There is no room in the queue for what main itself posts, or for what a
\* callback posts with the lock that main waits for: nobody goes on.
StuckOnQueue ==
  \/ MainPosts # <<>> /\ ~Room(MainPosts)
  \/ WantsLock /\ sending # "none" /\ ~Room(<<sending>>)

\* Whatever plays comes to its end and leaves the playing slot, although
\* pauses cancel a drain and callbacks come late: with finitely many streams
\* the output is again and again empty, paused or connecting.  The exceptions
\* are a stream that fails, a skip past the end of the track, and the full
\* queue, with a callback or main itself waiting for the only reader.
PlaybackEnds ==
  []<>(\/ playing = NoStream
       \/ ~stream[playing].active \/ stream[playing].conn # "ready"
       \/ Overskipped \/ StuckOnQueue)

=============================================================================
