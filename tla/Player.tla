-------------------------------- MODULE Player --------------------------------
(***************************************************************************)
(* vibe/src/message.rs: the player's event loop and its queue of player    *)
(* messages, with the threads that post to it: a stream-connect thread per *)
(* stream (make_decoder of decode.rs), the pause and resume timers, and    *)
(* the callbacks of the audio output (here PulseAudio's).                  *)
(*                                                                         *)
(* Every poster blocks while the queue is full.  A callback runs, and      *)
(* blocks, with the output's main loop locked, and the main thread needs   *)
(* the same lock for every operation on the output.  The main thread also  *)
(* posts to its own queue, when it enqueues a stream.                      *)
(*                                                                         *)
(* Status messages to the server are left out here: Session models the     *)
(* channel that carries them.                                              *)
(***************************************************************************)
EXTENDS Integers, Sequences

CONSTANTS
  Streams,   \* bound: the server starts streams 1 .. Streams
  QueueCap,  \* the capacity of the queue of player messages (10)
  MaxTimers, \* bound: timed pauses and resumes the server asks for
  MaxAgain,  \* bound: Drained messages of streams that sound on after them
  Commands,  \* bound: what else the server sends, a subset of AllCommands
  Autostart, \* bound: Autostart[s], the autostart flags stream s may have
  Outcomes   \* bound: whether connecting and decoding may succeed, may fail

AllCommands == {"stop", "pause", "unpause", "disable"}

Ids == 1 .. Streams
NoStream == 0

ASSUME PlayerAssumption ==
  /\ Streams \in Nat /\ QueueCap \in Nat \ {0} /\ MaxTimers \in Nat /\ MaxAgain \in Nat
  /\ Commands \subseteq AllCommands /\ Outcomes \subseteq BOOLEAN
  /\ Autostart \in [Ids -> SUBSET BOOLEAN]

Idle == <<"none", NoStream>>

VARIABLES
  queue,     \* the player messages, each <<kind, stream>>
  conn,      \* conn[s]: where the stream-connect thread of s is
  auto,      \* auto[s]: the stream was started with AutoStart::Auto
  timers,    \* timer threads asleep
  spawned,   \* timer threads started so far
  again,     \* Drained messages so far of streams that sound on
  output,    \* an output is enabled
  playing, next_up,
  life,      \* life[s]: what the output has made of stream s
  corked,    \* corked[s]
  callback,  \* the message a callback, holding the lock, wants to post
  mainPc,    \* the main thread: "select", "output", "tell", "place", "exit"
  job,       \* what it does there, <<kind, stream>>
  gone,      \* the server connection is lost
  \* history
  intent,    \* the server's last word: "free", "paused" or "stopped"
  excused    \* when it was given, something that undoes it was under way

links   == <<conn, auto>>
clock   == <<timers, spawned, again>>
sinks   == <<output, playing, next_up, life, corked>>
loop    == <<mainPc, job>>
history == <<intent, excused>>
vars    == <<queue, links, clock, sinks, callback, loop, gone, history>>

Init ==
  /\ queue = <<>>
  /\ conn = [s \in Ids |-> "idle"] /\ auto = [s \in Ids |-> FALSE]
  /\ timers = 0 /\ spawned = 0 /\ again = 0
  /\ output = FALSE /\ playing = NoStream /\ next_up = NoStream
  /\ life = [s \in Ids |-> "none"] /\ corked = [s \in Ids |-> TRUE]
  /\ callback = Idle
  /\ mainPc = "select" /\ job = Idle
  /\ gone = FALSE
  /\ intent = "free" /\ excused = FALSE

-----------------------------------------------------------------------------
(* The queue                                                               *)

\* Messages that the loop only turns into a status message to the server;
\* they are not told apart here.
Reported == {"Connected", "BufferThreshold", "NotSupported", "StreamEstablished",
             "TrackStarted", "EndOfDecode"}

\* Only Decoder has a payload.
PlayerMsg(kind, s) ==
  IF kind \in Reported THEN <<"Report", NoStream>>
  ELSE <<kind, IF kind = "Decoder" THEN s ELSE NoStream>>

\* Send to the bounded queue.
Post(kind, s) ==
  /\ Len(queue) < QueueCap
  /\ queue' = Append(queue, PlayerMsg(kind, s))

\* Until the event loop is left; what its threads do then is not modelled.
Running == mainPc # "exit"

\* Streams that can be heard.
Sounding == {s \in Ids : life[s] \in {"open", "started", "ended"} /\ ~corked[s]}

\* Queued, or held by a callback or a thread on its way to the queue.
Coming(kinds) ==
  \/ \E i \in 1 .. Len(queue) : queue[i][1] \in kinds
  \/ callback[1] \in kinds
  \/ "Unpause" \in kinds /\ timers > 0
  \/ "Decoder" \in kinds /\ \E s \in Ids : conn[s] \notin {"idle", "done"}

\* Something under way that will start the output without the server's word:
\* a timer or an end of track, after a stop also a stream still to come; or
\* a stream that is heard without being the one that plays, and will be drained.
UnderWay(kinds) == Coming(kinds) \/ Sounding \ {playing} # {}

-----------------------------------------------------------------------------
(* The stream-connect thread: make_decoder, then its result                *)

\* Connecting may fail; so may reading the headers or finding a decoder.
Connect(s, ok) ==
  /\ Running /\ conn[s] = "connect"
  /\ conn' = [conn EXCEPT ![s] = IF ok THEN "connected" ELSE "failed"]
  /\ UNCHANGED <<queue, auto, clock, sinks, callback, loop, gone, history>>

MakeDecoder(s, ok) ==
  /\ Running /\ conn[s] = "buffering"
  /\ conn' = [conn EXCEPT ![s] = IF ok THEN "decoder" ELSE "failed"]
  /\ UNCHANGED <<queue, auto, clock, sinks, callback, loop, gone, history>>

\* The message each stage posts, and the stage after it.
Stage ==
  [connected |-> <<"Connected", "threshold">>,
   threshold |-> <<"BufferThreshold", "buffering">>,
   decoder   |-> <<"Decoder", "done">>,
   failed    |-> <<"NotSupported", "done">>]

PostStage(s) ==
  /\ Running /\ conn[s] \in DOMAIN Stage
  /\ Post(Stage[conn[s]][1], s)
  /\ conn' = [conn EXCEPT ![s] = Stage[conn[s]][2]]
  /\ UNCHANGED <<auto, clock, sinks, callback, loop, gone, history>>

-----------------------------------------------------------------------------
(* The timers of on_pause and on_unpause                                   *)

TimerFires ==
  /\ Running /\ timers > 0
  /\ timers' = timers - 1
  /\ Post("Unpause", NoStream)
  /\ UNCHANGED <<links, spawned, again, sinks, callback, loop, gone, history>>

SpawnTimer ==
  /\ spawned < MaxTimers
  /\ timers' = timers + 1 /\ spawned' = spawned + 1 /\ UNCHANGED again

-----------------------------------------------------------------------------
(* The output's callbacks                                                  *)

Announce(s, from, to, kind) ==
  /\ Running /\ life[s] = from /\ callback = Idle
  /\ life' = [life EXCEPT ![s] = to]
  /\ callback' = <<kind, s>>
  /\ UNCHANGED <<queue, links, timers, spawned, output, playing, next_up, corked, loop, gone, history>>

TrackStarted(s) == Announce(s, "open", "started", "TrackStarted") /\ UNCHANGED again
EndOfDecode(s) == Announce(s, "started", "ended", "EndOfDecode") /\ UNCHANGED again

\* The underflow callback posts on every underflow once all has been written,
\* also on one that was reported before the last write: then the stream sounds
\* on, whatever becomes of its slot, and drains again.
Drained(s) ==
  /\ ~corked[s]
  /\ \/ Announce(s, "ended", "over", "Drained") /\ UNCHANGED again
     \/ /\ again < MaxAgain /\ again' = again + 1
        /\ Announce(s, "ended", "ended", "Drained")

PostCallback ==
  /\ Running /\ callback # Idle
  /\ Post(callback[1], callback[2])
  /\ callback' = Idle
  /\ UNCHANGED <<links, clock, sinks, loop, gone, history>>

-----------------------------------------------------------------------------
(* Messages from the server: handle_server_message                         *)

Select == mainPc = "select" /\ ~gone

\* The handler goes on to the output, if there is one.
ToOutput(kind, s) ==
  IF output THEN mainPc' = "output" /\ job' = <<kind, s>> ELSE UNCHANGED loop

\* on_stream
ServerStream(s, autostart) ==
  /\ Select /\ conn[s] = "idle" /\ \A r \in 1 .. s - 1 : conn[r] # "idle"
  /\ conn' = [conn EXCEPT ![s] = "connect"]
  /\ auto' = [auto EXCEPT ![s] = autostart]
  /\ intent' = "free" /\ excused' = FALSE
  /\ UNCHANGED <<queue, clock, sinks, callback, loop, gone>>

\* on_stop and on_flush
ServerStop ==
  /\ Select /\ "stop" \in Commands
  /\ ToOutput("Stop", NoStream)
  /\ UNCHANGED <<queue, links, clock, sinks, callback, gone, history>>

\* on_pause, for good or with an interval
ServerPause(timed) ==
  /\ Select /\ "pause" \in Commands
  /\ timed => spawned < MaxTimers
  /\ ToOutput(IF timed THEN "PauseFor" ELSE "Pause", NoStream)
  /\ UNCHANGED <<queue, links, clock, sinks, callback, gone, history>>

\* on_unpause at once
ServerUnpause ==
  /\ Select /\ "unpause" \in Commands
  /\ ToOutput("Resume", NoStream)
  /\ UNCHANGED <<queue, links, clock, sinks, callback, gone, history>>

\* on_unpause at a time
ServerUnpauseAt ==
  /\ Select
  /\ SpawnTimer
  /\ intent' = "free" /\ excused' = FALSE
  /\ UNCHANGED <<queue, links, sinks, callback, loop, gone>>

\* on_enable makes a new output; on_disable_dac, or on_enable with an output
\* that cannot be made, leaves none.  The old one is dropped with its streams.
ServerEnable(on) ==
  /\ Select /\ (on \/ "disable" \in Commands)
  /\ output' = on
  /\ playing' = NoStream /\ next_up' = NoStream
  /\ life' = [s \in Ids |-> IF life[s] = "none" THEN "none" ELSE "over"]
  /\ intent' = "free" /\ excused' = FALSE
  /\ UNCHANGED <<queue, links, clock, corked, callback, loop, gone>>

-----------------------------------------------------------------------------
(* Player messages: handle_player_message                                  *)

\* Report becomes a status message; the other handlers go on to the output.
TakeMessage ==
  /\ mainPc = "select" /\ queue # <<>>
  /\ queue' = Tail(queue)
  /\ IF Head(queue)[1] = "Report"
     THEN UNCHANGED loop
     ELSE ToOutput(Head(queue)[1], Head(queue)[2])
  /\ UNCHANGED <<links, clock, sinks, callback, gone, history>>

-----------------------------------------------------------------------------
(* Operations on the output, under its lock                                *)

\* The main thread is about to do `kind` and has the lock.  (Corking and
\* connecting wait for PulseAudio with the lock released; a callback that runs
\* then runs before the operation here; one that blocks then is Stuck as well.)
Hold(kind) == mainPc = "output" /\ job[1] = kind /\ callback = Idle
Return == mainPc' = "select" /\ job' = Idle

SetCork(flag) ==
  corked' = IF playing = NoStream THEN corked ELSE [corked EXCEPT ![playing] = flag]

DoPause ==
  /\ Hold("Pause")
  /\ SetCork(TRUE)
  /\ IF playing = NoStream THEN UNCHANGED history ELSE intent' = "paused" /\ excused' = UnderWay({"Unpause", "Drained"})
  /\ Return
  /\ UNCHANGED <<queue, links, clock, output, playing, next_up, life, callback, gone>>

\* Pausing fails with nothing playing, and then there is no timer.
DoPauseFor ==
  /\ Hold("PauseFor")
  /\ SetCork(TRUE)
  /\ IF playing = NoStream THEN UNCHANGED clock ELSE SpawnTimer
  /\ intent' = "free" /\ excused' = FALSE
  /\ Return
  /\ UNCHANGED <<queue, links, output, playing, next_up, life, callback, gone>>

DoResume ==
  /\ Hold("Resume")
  /\ SetCork(FALSE)
  /\ intent' = "free" /\ excused' = FALSE
  /\ Return
  /\ UNCHANGED <<queue, links, clock, output, playing, next_up, life, callback, gone>>

\* Mutant: stop leaves the next stream where it is.
StopKeepsNext ==
  /\ life' = [s \in Ids |-> IF s = playing THEN "over" ELSE life[s]]
  /\ playing' = NoStream /\ UNCHANGED next_up

\* stop: disconnect the playing stream, forget the next one.
StopOutput ==
  /\ life' = [s \in Ids |-> IF s = playing THEN "over" ELSE life[s]]
  /\ playing' = NoStream /\ next_up' = NoStream

DoStop ==
  /\ Hold("Stop")
  /\ StopOutput
  /\ intent' = "stopped" /\ excused' = UnderWay({"Unpause", "Drained", "Decoder"})
  /\ Return
  /\ UNCHANGED <<queue, links, clock, output, corked, callback, gone>>

\* on_player_unpause
DoUnpause ==
  /\ Hold("Unpause")
  /\ SetCork(FALSE)
  /\ Return
  /\ UNCHANGED <<queue, links, clock, output, playing, next_up, life, callback, gone, history>>

\* on_drained: shift and unpause
DoShift ==
  /\ Hold("Drained")
  /\ playing' = next_up /\ next_up' = NoStream
  /\ corked' = IF next_up = NoStream THEN corked ELSE [corked EXCEPT ![next_up] = FALSE]
  /\ Return
  /\ UNCHANGED <<queue, links, clock, output, life, callback, gone, history>>

\* on_decoder, enqueue_new_stream: connect the stream, corked, or refuse it,
\* and then tell so through the queue; if PulseAudio fails, only log it.
DoConnect(ok) ==
  /\ Hold("Decoder")
  /\ \/ /\ life' = IF ok THEN [life EXCEPT ![job[2]] = "open"] ELSE life
        /\ mainPc' = "tell"
        /\ job' = <<IF ok THEN "StreamEstablished" ELSE "NotSupported", job[2]>>
     \/ ~ok /\ Return /\ UNCHANGED life
  /\ UNCHANGED <<queue, links, clock, output, playing, next_up, corked, callback, gone, history>>

Tell ==
  /\ mainPc = "tell"
  /\ Post(job[1], job[2])
  /\ IF job[1] = "StreamEstablished" THEN mainPc' = "place" /\ UNCHANGED job ELSE Return
  /\ UNCHANGED <<links, clock, sinks, callback, gone, history>>

\* Mutant: autostart also when the stream has to wait for its turn.
AlwaysStarts(s) == auto[s]

\* enqueue: an empty output plays the stream at once, if told to.
StartsAtOnce(s) == auto[s] /\ playing = NoStream

Place ==
  LET s == job[2] IN
  /\ mainPc = "place" /\ (StartsAtOnce(s) => callback = Idle)
  /\ playing' = IF playing = NoStream THEN s ELSE playing
  /\ next_up' = IF playing = NoStream THEN next_up ELSE s
  /\ corked' = IF StartsAtOnce(s) THEN [corked EXCEPT ![s] = FALSE] ELSE corked
  /\ Return
  /\ UNCHANGED <<queue, links, clock, output, life, callback, gone, history>>

-----------------------------------------------------------------------------
(* The end of the event loop                                               *)

\* Bound to one session: the connection is lost at some time, or never.
LoseServer ==
  /\ Running /\ ~gone /\ gone' = TRUE
  /\ UNCHANGED <<queue, links, clock, sinks, callback, loop, history>>

\* The None of slim_rx: stop the output, if there is one, and leave the loop,
\* which drops the queue; the next session (Session) starts another.
HearLoss ==
  /\ mainPc = "select" /\ gone
  /\ IF output
     THEN mainPc' = "output" /\ job' = <<"Leave", NoStream>> /\ UNCHANGED queue
     ELSE mainPc' = "exit" /\ queue' = <<>> /\ UNCHANGED job
  /\ UNCHANGED <<links, clock, sinks, callback, gone, history>>

\* Mutant: the loop is not left.
LeaveNot ==
  /\ Hold("Leave")
  /\ StopOutput
  /\ mainPc' = "select" /\ queue' = <<>> /\ job' = Idle
  /\ UNCHANGED <<links, clock, output, corked, callback, gone, history>>

DoLeave ==
  /\ Hold("Leave")
  /\ StopOutput
  /\ mainPc' = "exit" /\ queue' = <<>> /\ job' = Idle
  /\ UNCHANGED <<links, clock, output, corked, callback, gone, history>>

Rest == mainPc = "exit" /\ UNCHANGED vars

-----------------------------------------------------------------------------

FromServer ==
  \/ ServerStop \/ ServerUnpause \/ ServerUnpauseAt \/ LoseServer
  \/ \E b \in BOOLEAN : ServerPause(b) \/ ServerEnable(b)
  \/ \E s \in Ids : \E b \in Autostart[s] : ServerStream(s, b)

Main ==
  \/ TakeMessage \/ DoPause \/ DoPauseFor \/ DoResume \/ DoStop \/ DoUnpause \/ DoShift
  \/ Tell \/ Place \/ HearLoss \/ DoLeave
  \/ \E ok \in Outcomes : DoConnect(ok)

Opening(s) == PostStage(s) \/ \E ok \in Outcomes : Connect(s, ok) \/ MakeDecoder(s, ok)
Calling == PostCallback \/ \E s \in Ids : TrackStarted(s) \/ EndOfDecode(s) \/ Drained(s)

Next == FromServer \/ Main \/ TimerFires \/ Calling \/ Rest \/ \E s \in Ids : Opening(s)

Spec == Init /\ [][Next]_vars

\* Threads are scheduled; the server and the timers may take their time.
LiveSpec == Spec /\ WF_vars(Main) /\ WF_vars(PostCallback)

-----------------------------------------------------------------------------

\* Only a Decoder message, and what becomes of it, names a stream.
PlayerMsgs == ({"Report", "Drained", "Unpause"} \X {NoStream}) \cup ({"Decoder"} \X Ids)
Calls == {Idle} \cup ({"TrackStarted", "EndOfDecode", "Drained"} \X Ids)
Jobs ==
  {Idle} \cup ({"Stop", "Pause", "PauseFor", "Resume", "Unpause", "Drained", "Leave"} \X {NoStream})
         \cup ({"Decoder", "StreamEstablished", "NotSupported"} \X Ids)

\* Types; and the queue of player messages never exceeds bounded(10), although
\* timers, stream threads, callbacks and the loop itself all post to it.
TypeOK ==
  /\ queue \in Seq(PlayerMsgs) /\ Len(queue) <= QueueCap
  /\ conn \in [Ids -> {"idle", "connect", "buffering", "done"} \cup DOMAIN Stage]
  /\ auto \in [Ids -> BOOLEAN]
  /\ timers \in 0 .. MaxTimers /\ spawned \in timers .. MaxTimers /\ again \in 0 .. MaxAgain
  /\ output \in BOOLEAN
  /\ playing \in {NoStream} \cup Ids /\ next_up \in {NoStream} \cup Ids
  /\ life \in [Ids -> {"none", "open", "started", "ended", "over"}]
  /\ corked \in [Ids -> BOOLEAN]
  /\ callback \in Calls
  /\ mainPc \in {"select", "output", "tell", "place", "exit"} /\ job \in Jobs
  /\ gone \in BOOLEAN
  /\ intent \in {"free", "paused", "stopped"} /\ excused \in BOOLEAN

\* The slots of the output: a stream waits in next_up only behind a playing
\* one, the two differ, and both have been connected; without an output both
\* are empty.
SlotsInOrder ==
  /\ next_up # NoStream => playing # NoStream /\ playing # next_up
  /\ \A s \in {playing, next_up} \ {NoStream} : life[s] # "none"
  /\ ~output => playing = NoStream

\* A pause or a stop holds: nothing is heard until the server says otherwise,
\* unless something was already under way when the server gave the word: a
\* timer, an unfinished stream start, an announced end of track, or a stream that
\* is heard although a Drained, its own early one or another stream's, has taken
\* it out of its slot, where neither pause nor stop reaches it.
WordHolds == intent # "free" /\ ~excused => Sounding = {}

\* The loop waits for room in the queue of which it is the only reader: when
\* it posts itself, or when it needs the lock of a callback that posts.
Stuck ==
  /\ Len(queue) = QueueCap
  /\ \/ mainPc = "tell"
     \/ callback # Idle /\ (mainPc = "output" \/ (mainPc = "place" /\ StartsAtOnce(job[2])))

\* "Inner event loop - exits on server disconnect" (main.rs:190), whatever the
\* handlers, callbacks, timers and stream threads are in the middle of; the
\* full queue is the one thing that can keep it, and then for good.
LoopExits == gone ~> mainPc = "exit" \/ Stuck

=============================================================================
