------------------------------- MODULE PulseOut -------------------------------
(***************************************************************************)
(* vibe/src/pulse_out.rs: the PulseAudio output, with fill_raw_buffer of   *)
(* decode.rs and the handlers of message.rs that drive the output.         *)
(*                                                                         *)
(* The main thread owns the output and its two slots (playing, next_up).   *)
(* PulseAudio's thread calls on_write and the underflow callback of every  *)
(* connected stream, and posts Drained to the queue that the main thread   *)
(* also takes new decoders from.  Audio is counted in units; a decoded     *)
(* packet has PacketSize of them.  Streams are numbered in the order in    *)
(* which their decoders reach the queue.                                   *)
(*                                                                         *)
(* External, from how the code uses it: the PulseAudio server.  It has a   *)
(* buffer of PulseBuffer units per stream, asks for data when there is     *)
(* room, starts an uncorked stream once Prebuf units are there, and when   *)
(* the stream runs dry reports one underflow and prebuffers again.  Its    *)
(* requests and reports reach the client in order.  The decoder may be     *)
(* slow, so a stream can run dry in mid-track.                             *)
(***************************************************************************)
EXTENDS Integers, Sequences

CONSTANTS
  Streams,     \* bound: streams 1 .. Streams are started
  MaxPackets,  \* bound: most packets in a stream
  PacketSize,  \* units of audio in one packet
  Prefill,     \* units decoded before the stream is connected
  PulseBuffer, \* units the server buffers for a stream
  Prebuf       \* units the server waits for before it plays

ASSUME PulseOutAssumption ==
  /\ Streams \in Nat /\ MaxPackets \in Nat
  /\ PacketSize \in Nat \ {0} /\ Prefill \in Nat \ {0}
  /\ PulseBuffer \in Nat \ {0} /\ Prebuf \in 1 .. PulseBuffer

Ids == 1 .. Streams
NoStream == 0

VARIABLES
  packets,   \* packets[s]: packets the decoder of stream s still delivers
  ends,      \* ends[s]: how the decoder ends after them, "eof" or "error"
  audioBuf,  \* audioBuf[s]: units decoded and not yet given to the server
  wstate,    \* wstate[s]: the WriteState shared by the two callbacks
  link,      \* link[s]: "none", "connected", or "closed" by stop
  corked,    \* corked[s]
  level,     \* level[s]: units the server has still to play
  dry,       \* dry[s]: the server waits for Prebuf units
  posted,    \* posted[s]: the server's requests and reports on their way
  playing, next_up,
  current,   \* the last stream started
  queue,     \* the messages to main that change the output
  \* history
  written,   \* written[s]: units given to the server
  total,     \* total[s]: units the decoder delivers in all
  started, ended, told, \* TrackStarted, EndOfDecode, Drained messages per stream
  shifted    \* <<s, p>>: the Drained message of s took p out of the playing slot

buffers == <<packets, ends, audioBuf, wstate>>
pulse   == <<link, corked, level, dry, posted>>
slots   == <<playing, next_up>>
history == <<written, total, started, ended, told, shifted>>
vars    == <<buffers, pulse, slots, current, queue, history>>

Messages == {"Decoder", "Drained"} \X Ids

Init ==
  /\ packets \in [Ids -> 0 .. MaxPackets]
  /\ ends \in [Ids -> {"eof", "error"}]
  /\ audioBuf = [s \in Ids |-> 0]
  /\ wstate = [s \in Ids |-> "Starting"]
  /\ link = [s \in Ids |-> "none"]
  /\ corked = [s \in Ids |-> TRUE]
  /\ level = [s \in Ids |-> 0]
  /\ dry = [s \in Ids |-> TRUE]
  /\ posted = [s \in Ids |-> <<>>]
  /\ playing = NoStream /\ next_up = NoStream
  /\ current = 0 /\ queue = <<>>
  /\ written = [s \in Ids |-> 0]
  /\ total = [s \in Ids |-> packets[s] * PacketSize]
  /\ started = [s \in Ids |-> 0] /\ ended = [s \in Ids |-> 0] /\ told = [s \in Ids |-> 0]
  /\ shifted = {}

-----------------------------------------------------------------------------
(* VibeDecoder::fill_raw_buffer: decode whole packets until the buffer     *)
(* holds `limit` units or the decoder has no more.                         *)

Smaller(a, b) == IF a <= b THEN a ELSE b

\* Packets decoded to reach the limit.
Decoded(s, limit) ==
  IF audioBuf[s] >= limit THEN 0
  ELSE Smaller(packets[s], (limit - audioBuf[s] + PacketSize - 1) \div PacketSize)

\* Mutant: the end is noticed with the last packet, full or not.
RunsOutEarly(s, limit) == audioBuf[s] + packets[s] * PacketSize <= limit + PacketSize

\* The decoder ran out (end of file or error) before the limit.
RunsOut(s, limit) == audioBuf[s] + packets[s] * PacketSize < limit

-----------------------------------------------------------------------------
(* The main thread                                                         *)

\* The stream-connect thread posts the decoder of the next stream.
StartStream ==
  /\ current < Streams
  /\ current' = current + 1
  /\ queue' = Append(queue, <<"Decoder", current + 1>>)
  /\ UNCHANGED <<buffers, pulse, slots, history>>

\* on_decoder and enqueue_new_stream: prefill; a decoder error gives the
\* stream up; otherwise connect it, corked, and put it into a slot.  With
\* autostart an empty output starts playing at once.
OnDecoder(s, autostart) ==
  LET refused == RunsOut(s, Prefill) /\ ends[s] = "error" IN
  /\ queue # <<>> /\ Head(queue) = <<"Decoder", s>>
  /\ queue' = Tail(queue)
  /\ audioBuf' = [audioBuf EXCEPT ![s] = @ + Decoded(s, Prefill) * PacketSize]
  /\ packets' = [packets EXCEPT ![s] = @ - Decoded(s, Prefill)]
  /\ IF refused
     THEN UNCHANGED <<link, corked, posted, slots>>
     ELSE /\ link' = [link EXCEPT ![s] = "connected"]
          /\ posted' = [posted EXCEPT ![s] = <<"request">>]
          /\ corked' = [corked EXCEPT ![s] = ~(playing = NoStream /\ autostart)]
          /\ playing' = IF playing = NoStream THEN s ELSE playing
          /\ next_up' = IF playing = NoStream THEN next_up ELSE s
  /\ UNCHANGED <<ends, wstate, level, dry, current, history>>

SetCork(flag) ==
  /\ playing # NoStream
  /\ corked' = [corked EXCEPT ![playing] = flag]
  /\ UNCHANGED <<buffers, link, level, dry, posted, slots, current, queue, history>>

Pause == SetCork(TRUE)
Unpause == SetCork(FALSE)

\* Mutant: the playing stream is forgotten, too, and plays on.
StopWithoutDisconnect ==
  /\ playing # NoStream
  /\ playing' = NoStream /\ next_up' = NoStream
  /\ UNCHANGED <<buffers, pulse, current, queue, history>>

\* stop and flush: the playing stream is disconnected, next_up only forgotten.
Stop ==
  /\ playing # NoStream
  /\ link' = [link EXCEPT ![playing] = "closed"]
  /\ playing' = NoStream /\ next_up' = NoStream
  /\ UNCHANGED <<buffers, corked, level, dry, posted, current, queue, history>>

\* on_drained: shift, then unpause what is now playing.
OnDrained(s) ==
  /\ queue # <<>> /\ Head(queue) = <<"Drained", s>>
  /\ queue' = Tail(queue)
  /\ shifted' = IF playing = NoStream THEN shifted ELSE shifted \cup {<<s, playing>>}
  /\ playing' = next_up /\ next_up' = NoStream
  /\ corked' = IF next_up = NoStream THEN corked ELSE [corked EXCEPT ![next_up] = FALSE]
  /\ UNCHANGED <<buffers, link, level, dry, posted, current, written, total, started, ended, told>>

-----------------------------------------------------------------------------
(* PulseAudio's thread in the player: the two callbacks                    *)

\* What on_write gives to the server: at most the `len` units asked for.
Given(s, len) == Smaller(audioBuf[s] + Decoded(s, len) * PacketSize, len)

\* Mutant: on_write does not look at the state first.
NeverFinished(s) == FALSE

\* The early return of on_write.
Finished(s) == wstate[s] = "Drained"

\* on_write: announce the track the first time, decode, write, announce the
\* end of decoding, and settle in Drained once nothing is left.
OnWrite(s) ==
  LET len    == PulseBuffer - level[s]
      active == ~Finished(s) /\ wstate[s] # "Draining"
      n      == IF active THEN Given(s, len) ELSE 0
      more   == IF active THEN Decoded(s, len) ELSE 0
      eod    == active /\ RunsOut(s, len)
      over   == eod \/ wstate[s] = "Draining"
  IN
  /\ link[s] = "connected" /\ posted[s] # <<>> /\ Head(posted[s]) = "request"
  /\ posted' = [posted EXCEPT ![s] = Tail(@)]
  /\ audioBuf' = [audioBuf EXCEPT ![s] = @ + more * PacketSize - n]
  /\ packets' = [packets EXCEPT ![s] = @ - more]
  /\ level' = [level EXCEPT ![s] = @ + n]
  /\ dry' = [dry EXCEPT ![s] = @ /\ level[s] + n < Prebuf]
  /\ written' = [written EXCEPT ![s] = @ + n]
  /\ started' = [started EXCEPT ![s] = IF wstate[s] = "Starting" THEN @ + 1 ELSE @]
  /\ ended' = [ended EXCEPT ![s] = IF eod THEN @ + 1 ELSE @]
  /\ wstate' = [wstate EXCEPT ![s] =
                  CASE Finished(s)                            -> @
                    [] ~Finished(s) /\ ~over                  -> "Running"
                    [] ~Finished(s) /\ over /\ audioBuf'[s] = 0 -> "Drained"
                    [] OTHER                                  -> "Draining"]
  /\ UNCHANGED <<ends, link, corked, slots, current, queue, total, told, shifted>>

\* Mutant: the test waits for Draining, which is never the state between callbacks.
EndOfTrackNever(s) == wstate[s] = "Draining"

\* The test of the underflow callback.
EndOfTrack(s) == wstate[s] = "Drained"

\* The underflow callback: the end of the track if all has been written.  The
\* queue has no bound here; that the callback waits at a full one, with the
\* mainloop's lock, is modelled in Player.
OnUnderflow(s) ==
  /\ link[s] = "connected" /\ posted[s] # <<>> /\ Head(posted[s]) = "underflow"
  /\ posted' = [posted EXCEPT ![s] = Tail(@)]
  /\ IF EndOfTrack(s)
     THEN /\ queue' = Append(queue, <<"Drained", s>>)
          /\ told' = [told EXCEPT ![s] = @ + 1]
     ELSE UNCHANGED <<queue, told>>
  /\ UNCHANGED <<buffers, link, corked, level, dry, slots, current, written, total, started, ended, shifted>>

-----------------------------------------------------------------------------
(* The PulseAudio server (external)                                        *)

Asked(s) == \E i \in 1 .. Len(posted[s]) : posted[s][i] = "request"

\* A unit is played; the room it leaves is asked for unless a request is
\* already on its way.
ServerPlays(s) ==
  /\ link[s] = "connected" /\ ~corked[s] /\ ~dry[s] /\ level[s] > 0
  /\ level' = [level EXCEPT ![s] = @ - 1]
  /\ posted' = [posted EXCEPT ![s] = IF Asked(s) THEN @ ELSE Append(@, "request")]
  /\ UNCHANGED <<buffers, link, corked, dry, slots, current, queue, history>>

\* Nothing left to play: report it once and prebuffer again.
ServerRunsDry(s) ==
  /\ link[s] = "connected" /\ ~corked[s] /\ ~dry[s] /\ level[s] = 0
  /\ dry' = [dry EXCEPT ![s] = TRUE]
  /\ posted' = [posted EXCEPT ![s] = Append(@, "underflow")]
  /\ UNCHANGED <<buffers, link, corked, level, slots, current, queue, history>>

-----------------------------------------------------------------------------

PulseThread(s) == OnWrite(s) \/ OnUnderflow(s)
Server(s) == ServerPlays(s) \/ ServerRunsDry(s)
OwnQueue(s) == OnDrained(s) \/ \E autostart \in BOOLEAN : OnDecoder(s, autostart)

Next ==
  \/ StartStream \/ Pause \/ Unpause \/ Stop
  \/ \E s \in Ids : OwnQueue(s) \/ PulseThread(s) \/ Server(s)

Spec == Init /\ [][Next]_vars

\* Every thread goes on: PulseAudio dispatches what the server posts, the
\* main loop takes what is queued, the server plays.  Pauses, stops and new
\* streams are the server operator's choice.
LiveSpec ==
  /\ Spec
  /\ \A s \in Ids : WF_vars(PulseThread(s)) /\ WF_vars(Server(s)) /\ WF_vars(OwnQueue(s))

-----------------------------------------------------------------------------

\* Types; and on_write never gives the server more than it asked for, so a
\* stream's level stays within the server's buffer.
TypeOK ==
  /\ packets \in [Ids -> 0 .. MaxPackets]
  /\ ends \in [Ids -> {"eof", "error"}]
  /\ audioBuf \in [Ids -> Nat]
  /\ wstate \in [Ids -> {"Starting", "Running", "Draining", "Drained"}]
  /\ link \in [Ids -> {"none", "connected", "closed"}]
  /\ corked \in [Ids -> BOOLEAN]
  /\ level \in [Ids -> 0 .. PulseBuffer]
  /\ dry \in [Ids -> BOOLEAN]
  /\ posted \in [Ids -> Seq({"request", "underflow"})]
  /\ playing \in {NoStream} \cup Ids /\ next_up \in {NoStream} \cup Ids
  /\ current \in 0 .. Streams
  /\ queue \in Seq(Messages)
  /\ written \in [Ids -> Nat] /\ total \in [Ids -> Nat]
  /\ started \in [Ids -> Nat] /\ ended \in [Ids -> Nat] /\ told \in [Ids -> Nat]
  /\ shifted \subseteq Ids \X Ids

\* on_write settles in Drained only when every unit the decoder delivers has
\* been given to PulseAudio, whatever packet sizes and request sizes it met,
\* and it never rests in Draining with audio that no later callback writes.
NothingLeftBehind ==
  \A s \in Ids :
    /\ wstate[s] # "Draining"
    /\ wstate[s] = "Drained" => audioBuf[s] = 0 /\ written[s] = total[s]

\* The comments of on_write: one TrackStarted and one EndOfDecode per stream
\* however often PulseAudio asks again, EndOfDecode exactly for the streams
\* that finished, and Drained only for those.
AnnouncedOnce ==
  \A s \in Ids :
    /\ started[s] <= 1 /\ ended[s] <= started[s]
    /\ ended[s] = 1 <=> wstate[s] = "Drained"
    /\ told[s] > 0 => ended[s] = 1

\* The server holds back a rest that is shorter than it prebuffers: all has
\* been written and some of it is not played, so no underflow can follow.
HeldBack(s) == wstate[s] = "Drained" /\ dry[s] /\ level[s] > 0

\* "Add callback to detect end of track" (pulse_out.rs:348): a track with any
\* audio that keeps playing is taken out of the playing slot at some time, so
\* that the next one starts, and an underflow in mid-track does not hide the
\* real end.  A rest the server holds back, after an underflow or because the
\* whole track is short, is the one exception here: then the slot stays taken.
\* The queue is taken to have room; the callback that waits at a full one with
\* the lock that main needs is a second exception, Stuck in Player.
EndOfTrackDetected ==
  \A s \in Ids :
    playing = s /\ ~corked[s] /\ total[s] > 0 ~> playing # s \/ corked[s] \/ HeldBack(s)

\* on_drained ("End of track") takes the track that ended out of the playing
\* slot, and no other, although Drained names no stream and is queued behind
\* decoders of later ones.  Three cases are left out, in which it does not:
\* the track was stopped while its Drained was queued; an underflow reported
\* before the last write was taken for its end, too, so it was told twice; or
\* the track had itself been taken out by another one's Drained, played on,
\* and its own Drained found a later track in the slot.
RightTrackEnds ==
  \A pair \in shifted :
    \/ pair[1] = pair[2] \/ link[pair[1]] = "closed" \/ told[pair[1]] > 1
    \/ \E by \in Ids \ {pair[1]} : <<by, pair[1]>> \in shifted

=============================================================================
