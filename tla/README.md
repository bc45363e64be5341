# A formal model of vibe and lms-proto

`vibe` is a music player for the Lyrion Music Server; `lms-proto` is the crate
that speaks the Slim protocol for it. This directory models the parts of both
that run concurrently, retry, or translate between bytes and meaning, checks them
with TLC on small instances, and proves the safety of all but one of them with TLAPS
for every size.

Contents: [inventory](#inventory), [modules](#modules-and-code),
[runs](#runs), [bounds](#bounds), [fairness](#fairness),
[proofs](#proofs), [what the runs found](#disagreements-found),
[what is left out](#not-modelled), [plan](#plan).

## Inventory

| Part | Code | State it keeps | Operations |
|---|---|---|---|
| Read-ahead buffer | `lms-proto/src/buffer.rs` | a deque, end and error flags, shutdown flag under a mutex with two condition variables; a staging area of the owner | `fill_loop` (thread), `read`, `fill_buf`, `consume`, `drop` |
| Frames | `lms-proto/src/frames.rs` | the bytes read and not yet decoded | `recv`, `decode`, `send` |
| Messages | `lms-proto/src/messages.rs` | none | parsing of server messages, encoding of client messages |
| Handshake, discovery | `lms-proto/src/proto.rs`, `discovery.rs` | none that lasts | `Hello::connect`, `discover` |
| Status block | `lms-proto/src/status.rs`, `vibe/src/state.rs` | `STATUS`, one mutex-protected record for the process | written by the buffer, the outputs and the handlers, read for every status message |
| Session | `vibe/src/main.rs`, `vibe/src/proto.rs` | the reconnect flag, two channels of capacity one per session | main's reconnect loop, threads `slim-proto` and `slim-write` |
| Event loop | `vibe/src/message.rs`, `vibe/src/main.rs` | `PlayerContext`; a queue of ten player messages | one handler per server message and per player message; threads `stream-connect`, `pause-timer`, `resume-timer` |
| Decoder | `vibe/src/decode.rs` | the audio decoded and not yet written | `make_decoder`, `fill_raw_buffer` |
| PulseAudio output | `vibe/src/pulse_out.rs` | slots `playing` and `next_up`, a `WriteState` and an audio buffer per stream | `enqueue_new_stream`, `pause`, `unpause`, `stop`, `shift`, the write and underflow callbacks |
| PipeWire output | `vibe/src/pipewire_out.rs` | two slots; the elapsed time, its anchor on the graph clock and the skipped time, shared by all streams; a `ProcessState` and an audio buffer per stream | `enqueue_new_stream`, `pause`, `unpause`, `stop`, `shift`; callbacks `on_process`, `on_state_change`, `on_drained` |
| Rodio output | `vibe/src/rodio_out.rs` | an open device with its sink; per source a frame of samples and two flags | the same operations (`shift` does nothing); `DecoderSource::next` on the audio thread |
| Server address | `vibe/src/cli.rs` | a deadline and a delay | `parse_server_addr`, `resolve_with_retry` |
| Selection, options, service file, notifications, capabilities | `audio_out.rs`, `cli.rs`, `startup.rs`, `notify.rs`, `capability.rs` | none | input, output and formatting |

How they interact. `main` starts a `slim-proto` thread for each session.
`slim-proto` finds a server, connects, starts a `slim-write` thread and forwards
messages to `main` over `slim_rx`; `main` answers over `slim_tx`, which
`slim-write` empties. A `strm s` message makes `main` start a `stream-connect`
thread, which connects to the stream, puts a read-ahead buffer on the socket, and
posts the decoder to the queue of player messages. `main` gives the decoder to the
output, whose callbacks, on the sound server's thread, pull audio from it and post
TrackStarted, EndOfDecode and Drained to the same queue.

What is hard here:

- the channels are bounded and every sender blocks: `main` sends with `STATUS`
  locked, and posts to a queue that only `main` reads; a callback posts with the
  output's lock held. Everyone can wait for everyone;
- the fill thread reads its source without the lock and commits what it read
  under it; both threads of the buffer park on condition variables, and drop joins;
- after a Serv message two generations of threads run side by side;
- timers, stream threads and callbacks act on a state that may have changed since
  they were started: a stop, a newer stream, another pause;
- the end of a track is inferred: from an underflow report (PulseAudio), from a
  drain that a pause cancels (PipeWire), from an empty frame (Rodio);
- the outputs' callbacks decode, skip and post while main stops, pauses and drops
  what they work on; a skip may be longer than what is left of the track;
- four nested retry loops with timers of their own lead to a server;
- messages have no field names, only places, and counters that overflow;
- the byte stream is cut anywhere by reads and writes.

The properties that make each part correct are in its module, and the places
where the code is exposed are in `PROJECT.json` under `hazards`, each with the
properties that watch it.

## Modules and code

`SlimBuffer` - `buffer.rs`, at the grain at which the two threads can interleave:
one action per critical section, per notification made after the lock is
released, and per unlocked piece. `fillPc` and `userPc` are the places the two
threads are at; `buf`, `eof`, `error` and `shutdown` are `State`; `staging` and
`pos` the owner's side; `fullness` and `bytesReceived` the two status fields the
file writes. The i-th byte of the source is the number i, so loss, duplication
and reordering can be seen. `AwaitRoom` to `Signal` are one turn of `fill_loop`;
`Read`, `FillBuf`, `Consume` and `DropFlag` begin the owner's calls; spurious
wake-ups are allowed.

`ReadAhead` - what a read-ahead pipe promises, in three actions: take some of the
source in, hand some of it out, tell the end. `SlimBuffer` implements it
(`ImplementsReadAhead`), with the deque and the staging area as its window.

`Session` - main's reconnect loop, `slim-proto`, `slim-write`, the handshake.
A generation is a turn of main's outer loop; `slimTx[g]` and `slimRx[g]` are its
channels, `proto[g]` the locals of its `slim-proto` thread, `conns` all
connections ever made with their writers. The lock on `STATUS` is `StatusFree`:
main holds it exactly while it is in the send of a status message. A message of
the server is reduced to how main answers it (status under `STATUS`, its name
without, or nothing); HELO to its reconnect flag; the search for a server to its
result. `Stuck` is the state in which main and `slim-proto` wait for each other.

`Locate` - that search: `--server` with its lookup and back-off (`cli.rs`),
`discover` with its probe thread (`discovery.rs`), `connect_with_retry`
(`lms-proto/src/proto.rs`), and the loop of `vibe/src/proto.rs` around them. `job` is
the command line, `pc` the place the program is at, `timer` what it waits for there;
timers run down together in `Tick`, and nothing is put off past the moment it is due.
The network comes and goes and loses datagrams; `recv_from` may fail (`RecvError`), and
a session that is lost is looked for anew (`SessionLost`). `threads` are the probe
threads of all calls of `discover`, each with how its call ended (`call`): it runs, has
timed out, or was cut short by an answer or an error.

`Player` - the event loop, its queue, and everything that posts to it: the
`stream-connect` threads (`conn[s]`), the timers, the output's callbacks
(`callback` holds the message of the callback that has the lock). A handler that
works on the output takes two steps, the second of which needs the lock
(`Hold`). Enqueueing is three, because the code posts StreamEstablished in
between: `DoConnect`, `Tell`, `Place`. Messages that only become a status report
are one kind, `Report`. What a stream's callbacks have done is `life[s]`. `Drained` may
come before the last of a stream is heard; the stream then sounds on, whether or not it
still has a slot, and may be told as drained again (`again`).

`PulseOut` - the PulseAudio output with the amounts that `Player` leaves out:
packets, prefill, requests, the `WriteState` of each stream, and the server's
buffer. `OnWrite` is the whole write callback, `OnUnderflow` the underflow
callback; `Decoded` and `RunsOut` are `fill_raw_buffer`. The PulseAudio server is
external and modelled from its documented behaviour as the code relies on it:
it asks for data when there is room; it starts an uncorked stream when `Prebuf`
units are there; when the stream runs dry it reports one underflow and prebuffers
again; requests and reports of a stream reach the client in order. The queue of player
messages always has room here; callbacks that wait at a full one are in `Player`.

`AudioOutput` - what the event loop may expect of any output: which messages each
stream causes, in which order and how often, as a state machine on `told` alone.
`PipewireOut` and `RodioOut` implement it (`ImplementsAudioOutput`), the first with
StreamEstablished and TrackStarted in either order. `PulseOut` is not mapped to it:
its `OnWrite` posts TrackStarted and EndOfDecode in one step.

`PipewireOut` - the PipeWire output. What main is in the middle of is `job`: `Ask` (a
command, a timer, a new stream) and `TakeMessage` set it, and the operation follows when
main has the loop's lock (`LoopFree`). `enqueue_new_stream` is several steps, because it
posts StreamEstablished without the lock (`OpenStream`, `Refuse`, `Establish`,
`Enqueue`); `on_drained` of the event loop is two, `Shift` and `Unpause`. `on_process` is
several, as its skip loop may turn for ever (`BeginProcess`, `TurnAgain`,
`FinishProcess`). A callback that posts keeps the lock until the bounded queue has room
(`sending`, `PostCallback`), and main, which alone reads the queue, posts to it too
(`MainPosts`). The queue tells Drained from other messages; timers and connecting
threads post some of these (`OtherMessage`). `duration`, `start_ticks` and
`skip_offset` are the shared cells, `skip` is `SKIP`. PipeWire follows `set_active` in
its own time, plays what is queued, and drains.

`RodioOut` - the Rodio output. One call of `DecoderSource::next` is a step per message
it posts and per turn of its loop (`Begin` to `Pop`); main's `enqueue_new_stream` is
`OnDecoder`, `Establish`, `AppendSource`, `PauseNew`, and dropping the device is
`Stop`, then `Dropped` when the audio thread has come back.

`Frames` - `LMSRecv` and `LMSSend` on a wire cut anywhere, and the parsing of
server messages as far as it decides between a message, `Error` and a panic.
`ServerSends` puts a frame behind the others in `stream` (`start` says where), `Read`
takes the next bytes of it. Bytes carry the frame and the place they come from, and
a value where the code reads one (the length, of two bytes with 256 values each).

`Messages` - the contents of frames: `From<ClientMessage> for Bytes`, `From<BytesMut>
for ServerMessage`, and the `StatusData` block with the handlers that set its fields.
The code writes field after field (`EncodeStat`, `EncodeHelo`) and splits field after
field off a frame (`StreamFields`, `IntervalFields`, ..., followed by `Cursor`). Both are
checked against tables of places as Lyrion uses them (`StatPlaces`, `HeloPlaces`,
`Places`), which are external: the module's only copy of the protocol's documentation.
`wire` holds the bytes of the messages that Lyrion has not read yet and `meant` what they
were to say; `frame` is the last frame received, out of `ServerFrames`, and `parsed` what
it was taken for.

`*Proofs` - the theorems about a module and the inductive invariant behind them, one
for each module but the abstract `ReadAhead` and `AudioOutput`; `WireProofs` holds those
of `Frames` and of `Messages`. See [proofs](#proofs).

`MC*` instantiate a module for TLC. Definitions marked "Mutant" are plausible
bugs in the definition that follows them, named in `PROJECT.json`; each makes the
property it is listed with fail. They are not part of any specification.

## Runs

Runs that pass:

| Run | Shows |
|---|---|
| `slimbuffer` | In every order of the two threads, the source and drop: the deque keeps its capacity although room is measured before the lock is given up (`CapacityRespected`); bytes arrive in order and once (`InOrder`); the end or the error is told after the last byte, the error once (`HonestEnd`); the threshold callback runs once, and not too early (`CallbackContract`); the abstract pipe is implemented; drop ends wherever the fill thread is (`DropTerminates`); no wake-up is lost (`ReadReturns`). |
| `session` | With failing lookups, broken connections, failing writes and a Serv message: `slim-proto` never ends without main hearing of it (`NeverOrphaned`), every HELO but the first says reconnect (`HeloHonest`), main acts on one connection per session (`MainHearsOneConnection`), writers of the past end (`WritersRetire`), and a session that starts or is lost is followed by one that is served, unless main and `slim-proto` wait for each other in one of the two ways `Stuck` names (`ReconnectsUnlessStuck`). |
| `locate` | Looking up, discovering and connecting, with a network that comes and goes: a lookup passes its deadline by one call at most (`BudgetKept`); a network that is back is noticed within the longest delay (`NoticesInTime`); each probe thread ends within the probe interval of the end of its call and sends at most one more probe, and only calls cut short leave more than one (`ProbersStop`); a server that stays reachable is found, and found again when the session is lost (`Found`). |
| `frames` | Frames come out whole, in order and none twice (`FramesIntact`); `recv` never waits with a whole frame in its buffer (`NothingWaits`); messages go out unbroken (`SentInOrder`). |
| `messages` | Lyrion reads every client message as it was meant, with counters and clocks past their widths (`ServerUnderstands`); every field of every command is read from its place, in its unit (`ParsedAsLaidOut`); no frame with a command name makes the parser panic (`LengthChecksSuffice`). |
| `player` | Server commands, stream starts, a timer and callbacks in every order, with the queue full: the slots stay in order (`SlotsInOrder`); a pause or stop holds unless a timer, an end of track or (for stop) a stream start was already under way, or a stream sounds on after a Drained has taken it out of its slot (`WordHolds`); after a disconnect the loop is left, and only the full queue can keep it from leaving (`LoopExits`). |
| `pulse` | Two streams with pauses, stops and underflows: nothing is left in a buffer when a stream counts as drained (`NothingLeftBehind`), each stream is announced once (`AnnouncedOnce`), an end of track ends the track it is for (`RightTrackEnds`), and the end of a track that keeps playing is noticed (`EndOfTrackDetected`). |
| `pipewire` | Two streams with pauses, stops, skips and failures, and callbacks that wait at the full queue: one sounds at a time (`OneAtATime`); the end is told when all was played (`EndsComplete`); a pause is not counted as playing time (`PauseGapNotCounted`) and nothing but a connecting stream sets the time back (`FallsOnlyOnConnect`); the abstract output is implemented; what plays comes to its end (`PlaybackEnds`). |
| `rodio` | Two sources, a queue of two: no sample is lost (`EndsComplete`); the abstract output is implemented; main comes back from the output (`MainReturns`) and what plays comes to its end (`PlaybackEnds`). |

Several of these hold with an exception, which the property names and which is a
state the code really reaches:

- `ReconnectsUnlessStuck`: main waits for room in `slim_tx` while `slim-proto` waits for
  `STATUS` (the run `session_lookup` is a trace), or, when a write noticed the broken
  connection first and the writer is gone, for room in `slim_rx`;
- `LoopExits`: main posts StreamEstablished to its own full queue, or waits for the
  lock of a callback that posts to it;
- `NothingWaits`: `decode` wants a third byte before it looks at a length, so an empty
  frame waits for the byte after it;
- `RightTrackEnds`: Drained names no stream, so one that is still queued when the track
  is stopped, or that an underflow before the last write caused, ends another track;
  and a track that another's Drained has taken out plays on, with its own still to come;
- `WordHolds`: a Drained, an unpause timer or a stream start that is on its way when the
  word is given acts after it; and neither pause nor stop reaches a stream that a
  Drained, its own early one or another's, has taken out of its slot, as `shift` leaves
  it uncorked. Such a stream is heard, and its next Drained starts the one behind it;
- `EndOfTrackDetected`: a rest shorter than the server prebuffers is held back, never
  underflows, and keeps its slot. The run takes the queue to have room: a callback that
  waits at a full one with the lock is the `Stuck` of `LoopExits`;
- `PauseGapNotCounted`: a callback between a pause and PipeWire's following it;
- `PlaybackEnds`, `MainReturns`: a skip past the end of the track makes `on_process` and
  `next` turn for ever (`Overskipped`). And the full queue may stop everything
  (`StuckOnQueue`): a PipeWire callback posts to it with the loop's lock, for which
  main, its only reader, waits in pause, shift, stop or enqueue; Rodio's audio thread
  posts to it while main waits for that thread; or main itself posts to it. A PipeWire
  stream that fails keeps its slot until it is stopped.

Every module has one `TypeOK`. That of `SlimBuffer` is part of its run; the others are
proved (`TypeCorrect` of each proof module) and not part of the runs. `Frames` has the
name in front of what every module has (`FramesTypeOK`, `FramesSpec`, ...), because
`WireProofs` extends it together with `Messages`.

Runs that end in a violation are described under [disagreements](#disagreements-found).

Deadlock is checked in `slimbuffer` and `messages`. In `session` and `player` the
deadlocks just named are possible, and the liveness properties would notice any
other; the runs of the outputs stop when the bounded input is used up, or at the full
queue where the liveness properties name it; `frames` stops at the end of its input,
and `locate` at the end of the program or when the server is found.

## Bounds

- `slimbuffer`: capacity argument 2 below threshold 3, so the raised capacity of 3
  is used; reads of 2, staging of 2, a source of 5. The deque is full, empty and
  partly filled, a read is cut by the room left, and the source fills deque and
  staging area together. The proofs have no bounds.
- `session`: one server (its identity matters to `session_switch` only, which has
  two), two messages, one loss, one switch, so three generations and four
  connections. Two generations side by side need one switch; a full channel of
  capacity one needs two messages.
- `locate`: delays 1, 2, 4, 5 as in the code; a lookup takes up to 2; discovery waits
  for three probe intervals (six in the code: a multiple, which decides whether a
  thread is gone before the next call times out). Two errors of `recv_from` or lost
  sessions (`MaxTrouble`) leave three threads side by side. `LocateAssumption` has what
  the proofs need: the wait is longer than one interval.
- `player`: two streams fill both slots; a queue of three is met full by every
  poster; one timer; the first stream with or without autostart; one Drained of a stream
  that sounds on (`MaxAgain`).
- `pulse`: two streams of up to two packets of two units, a server buffer of three
  (requests end in the middle of a packet), a prefill of one, prebuffering of two,
  so that a rest of one is held back. Streams may be
  empty, shorter or longer than the buffer, and end with an error.
- `frames`: up to three frames out of eight, among them ones shorter than the parser
  needs and an empty one, reads of up to eight bytes (a length field, several frames, a part of
  one), two messages of two bytes to send.
- `messages`: a byte has three values, so a `u8` wraps after three CRLFs and a `u32` clock
  after 81 ms; the times are one before and one after that. Up to two messages are on the
  wire. Every byte of every frame takes every value up to one more than the longest
  `match` knows, the others being zero, and every frame has every length from 0 to 26. A
  frame is handled before the next step, on a player that has just started: the parser
  sees the frame and nothing else. The proofs have no bounds but these last two.
- `pipewire`: two streams, the first empty or failing after it has filled the buffer, the
  second longer than the buffer; one unit per callback, a skip of one, a clock that stops
  after one tick. The time properties compare two readings, for which one tick is
  enough. The queue holds one message (ten in the code), so that every poster meets it
  full. A waiting stream that is replaced by another needs three streams and is
  outside the bound.
- `rodio`: two sources, a refill of four samples when fewer than two are left, skips of up
  to two, a queue of two that also gets messages from elsewhere.

## Fairness

- `SlimBuffer.LiveSpec`: both threads keep running once they have something to do
  (the operating system's scheduler; a read of the source returns because the
  socket has a read timeout, `decode.rs:361`). Nothing is assumed of the owner's
  next call. `ReadReturns` assumes in addition, as part of the property, that the
  source does not time out for ever.
- `Session.LiveSpec`: threads are scheduled; `select!` picks among ready channels
  at random, so a waiting server message is handled in the end (strong fairness of
  `Handle`); a lookup or connect that is tried again and again succeeds.
- `Player.LiveSpec`: main and a callback that has the lock keep running. Nothing is
  assumed about the server, the network or the timers.
- `Locate.LiveSpec`: the threads run and time passes; of the probes sent again and again
  one is answered and the answer arrives; neither sockets nor connections fail for good
  every time (strong fairness of `ServerAnswers`, `Answered`, `Connected` and
  `DiscoverAgain`). Errors of `recv_from` and lost sessions are finitely many. That the
  network stays up is part of `Found`.
- `PipewireOut.LiveSpec`: callbacks and PipeWire go on; the loop dispatches its events in
  turn, so the drained event comes although `on_process` is called again and again
  (strong fairness of `StreamDrained`). A callback that waits for room gets it when there
  is room again and again (`PostCallback`: crossbeam serves waiting senders in turn), main
  gets the lock it waits for (`Working`), and reads its queue although commands keep
  coming (`TakeMessage`: `Select` is fair).
- `RodioOut.LiveSpec`: both threads go on; crossbeam serves the senders that wait for room
  in turn, and `Select` is fair, so main reads its queue (strong fairness of the posting
  steps and of `HandleMessage`). Pausing, stopping and skipping are nobody's duty.
- `PulseOut.LiveSpec`: PulseAudio dispatches what the server posts, main takes what
  is queued, the server plays what it may.

## Proofs

Every safety property that a run of these modules checks, and each of the three
refinements, is proved for every value of the constants that the module's assumption
allows:

| Module | Theorems (each `Spec =>` the property, always) | For every |
|---|---|---|
| `SlimBufferProofs` | `TypeCorrect`, `CapacityTheorem`, `InOrderTheorem`, `HonestEndTheorem`, `CallbackTheorem`, `InvariantHolds`; `RefinementTheorem` (`ImplementsReadAhead`) | capacity, threshold, chunk, staging and source length |
| `SessionProofs` | `TypeCorrect`, `NeverOrphanedHolds`, `HeloHonestHolds`, `MainHearsOneConnectionHolds` | set of servers, number of messages, losses and Serv messages |
| `LocateProofs` | `TypeCorrect`, `BudgetKeptHolds`, `NoticesInTimeHolds`, `ProbersStopHolds` | delay, budget, duration of a lookup, probe interval and a longer receive timeout, number of errors and lost sessions |
| `WireProofs`, of `Frames` | `FramesTypeCorrect`, `FramesIntactHolds`, `NothingWaitsHolds`, `SentInOrderHolds` | catalogue of frames of up to 65535 bytes, number of frames and messages, size of reads and messages |
| `WireProofs`, of `Messages` | `MessagesTypeCorrect`, `ServerUnderstandsHolds`, `ParsedAsLaidOutHolds`, `LengthChecksSufficeHolds` | number of values of a byte above two (256 in the code), name and capability list whose length fits its field, time and count, content and length of a frame, number of messages on the wire |
| `PlayerProofs` | `TypeCorrect`, `SlotsInOrderHolds`, `WordHoldsHolds` | number of streams and timers, of Drained messages of a stream that sounds on, capacity of the queue |
| `PulseOutProofs` | `TypeCorrect`, `NothingLeftBehindHolds`, `AnnouncedOnceHolds`, `RightTrackEndsHolds` | number of streams and packets, size of packet, prefill, prebuffer and server buffer |
| `PipewireOutProofs` | `TypeCorrect`, `OneAtATimeHolds`, `EndsCompleteHolds`, `PauseGapNotCountedHolds`, `FallsOnlyOnConnectHolds`; `ImplementsAudioOutputHolds` | number of streams, tracks, size of a buffer and of a skip, capacity of the queue |
| `RodioOutProofs` | `TypeCorrect`, `EndsCompleteHolds`; `ImplementsAudioOutputHolds` | number of streams, samples, frame size, skip and queue |

The numbers of messages, losses, streams and so on are bounds of the instances; since
a theorem holds for every value of them, it bounds nothing. Each module's proof has
the same shape: `Init => IInv`, each action preserves each part of `IInv`, and `IInv`
gives the properties. What the invariants say, and why the properties alone would
not do:

`SlimBufferProofs`

- `FlowInv`: the four places a byte can be in (delivered, staging, deque, chunk)
  hold consecutive runs of the source. `InOrder` says so of the delivered bytes only,
  and the next refill would be free to break it;
- `RoomInv`: the room promised to a read in flight is still there when it commits,
  since the other thread only ever takes from the deque. `CapacityRespected` alone
  does not survive `CommitData`;
- `EndInv`: when the flags were set, what the fill thread can still do after them,
  and that a call that waits in `refill` has nothing staged. It is what makes
  "nothing left" in `RefillEnd` mean that everything was delivered;
- `CallbackInv`: `calls` follows `signalled`, and what `reached` means while the
  fill thread is between its commit and the callback.

Lemmas about appending and cutting runs of consecutive numbers (`Bytes`) carry the
sequence reasoning. For the refinement, `CommitData` is taking in, `FinishRead` and
`Consume` are handing out, `CommitEnd` is the end of the source, `RefillEnd` telling the
reader, and all other steps stutter.

`SessionProofs` - the hard one is `MainHearsOneConnection`: after a Serv message the old
thread goes on in the same generation, with a second connection, and could forward
from it to main. What stops it is the None it has sent first: `slim_rx` holds one
message, so nothing follows while None waits, and once main has taken it main reads
that channel no more (`AheadInv`, `ReadInv`, `HeardInv`). `ThreadInv` says what every
thread of every generation is at, and that it carries an honest flag whenever it has
a HELO to build. `CauseInv` and `CountInv` count generations and connections by the
losses and Serv messages that caused them, which is what keeps the tables of
`TypeOK` large enough.

`LocateProofs` - each part sets a timer against what the property counts: a wait so far
and its rest together are within the longest delay (`WaitInv`), the time a lookup is
late and its rest within one lookup (`BudgetInv`). For the probe threads `StopInv`
says that a thread whose call has ended sends what it was about to send and nothing
more, and that the time since the end of the call and the rest of its sleep are within
the probe interval. `CrowdInv` counts them: one of the call that runs, one of those that
timed out, and any number of those cut short. That a second call cannot time out while a
thread of the first is there needs `OldInv`: such a thread has slept for what the present
call has waited, and looks at its flag before that call times out. This is where the
receive timeout must be longer than the probe interval (30 s and 5 s in the code,
`vibe/src/proto.rs:80`, `discovery.rs:64`).

`WireProofs` for `Frames` - `BufInv`: the buffer is the part of the stream between the end of the last
frame taken and the last byte read, so that its first two bytes are a length field;
`StreamInv`: what the stream holds at which place. `FramesIntact` speaks of what was
returned only.

`WireProofs` for `Messages` - `ServerUnderstands` speaks of the first message on the wire,
and `LyrionReads` puts the next one there. `OnWire` therefore says of all of them that
there are offsets which cut the wire into the messages meant, each of the length it
states. `Counted` relates the counters of the block to what was ever added, modulo their
width, and the player's name is the one last given. What a message says is found field
by field: a field is a part of the body at an offset, and parts stay where they are when
something is put behind them and move by its length when something is put before them
(`PartAt`, `Adds`, `Behind`); a number of one to eight bytes is read back as written
(`GetPutU8` to `GetPutU64`). For the parser, each layout has a fixed number of fields, so
that the cursor is followed step by step to each of the places, without induction
(`Laid`, `CursorMoves`); `ParsedAsLaidOut` then is a comparison of two tables, and
`LengthChecksSuffice` of two lengths.

`PlayerProofs` - for the slots, a stream's decoder is in one place at a time, from its
thread through the queue to main's hands, and a stream about to be placed is in no
slot (`FreshInv`, `PlaceInv`). For `WordHolds`, after a word that nothing excuses nothing
that starts the output is queued, held by a callback or asleep, and no stream sounds,
so that none can be told as drained, be it for the first time or again (`QuietInv`); after a
pause some stream keeps the playing slot, so that a new one waits behind it
(`PausedInv`), and after a stop none is on its way (`StoppedInv`).

`PulseOutProofs` - an account of every unit: written, decoded or still to be decoded
(`AccountInv`); what was announced goes with `WriteState` (`StateInv`). For
`RightTrackEnds` a stream is followed from the moment it can be heard: it is in the
playing slot or closed, or some Drained has taken it out (`HeardInv`), and every
Drained, queued or acted on, is counted (`ToldInv`). The attempt without the third
exception of `RightTrackEnds` failed at a state the code reaches with three streams:
a track that is taken out by another's Drained is not corked and drains later.

`PipewireOutProofs` - streams go through the slots in the order of their numbers
(`SlotInv`), and a callback under way is one of the playing stream (`ProcInv`); a
draining stream has nothing left (`AudioInv`, `FinishInv`); the state of a stream goes
with what was told of it (`ToldInv`). `TimeInv` and `DueInv` enclose the elapsed time: it
is never ahead of the time due, and a later report is never behind it. What main does and
what the queue holds is an invariant by itself (`MInv`): a stream is on its way into a
slot only while main enqueues it, and there is one to pause or resume when main does so
(`JobInv`). The action property follows from `TimeInv` and one look at each action.

`RodioOutProofs` - every sample is out, in the frame or still to be decoded (`CountInv`);
what `next` knows of its source at each of its steps, above all that it pops from an
empty frame only after the end (`DevInv`); the sink is in order, and the source main
hands over is the last (`SinkInv`); a flag is down exactly when its message is out or
about to be posted (`ToldInv`).

In the two refinements of `AudioOutput` a step that tells something is the abstract step
of that name for its stream, and all others stutter. They need `SlotInv` and `SinkInv`
for the order among streams: the abstract output lets a stream drain only when those
before it have left.

Only model-checked is liveness: `DropTerminates`, `ReadReturns`, `ReconnectsUnlessStuck`,
`WritersRetire`, `Found`, `LoopExits`, `EndOfTrackDetected`, `PlaybackEnds`, `MainReturns`.
Fairness and ENABLED are beyond the prover. Induction over data is too, which is why no
theorem says what a recursive definition computes for every input: those of `Messages`
are followed over layouts of known length, those of the other modules are not needed.

## Disagreements found

Each has a run that ends in a counterexample, and an entry with the lines that
disagree in `PROJECT.json`.

- `session_lookup`: a lookup or connect fails; main's second timer status waits for
  room in `slim_tx` with `STATUS` locked, and `slim-proto` needs `STATUS` to try
  again. Neither goes on.
- `session_switch`: after a Serv message main starts a new session with the server
  it was configured with or discovers, not with the one that was named.
- `pipewire_elapsed`: the streams of the PipeWire output share the elapsed time, and the
  next track resets it when it gets connected, while the current one plays.

## Not modelled

- Symphonia, the sound servers and the network, other than by what they may answer.
- `decode_tlv` and the capability list: formats whose result is thrown away, or is
  one text. Characters, command names and event codes are opaque in `Messages`.
- Volume (`on_gain` stores square roots, the decoder multiplies by them) and the gains'
  conversion to floating point.
- The rounding of skips: outputs count audio and skips in one unit, so a skip that
  comes out as half a frame of samples is not seen.
- The buffer fullness the outputs store for the server; `get_dur` of Rodio, which is
  Rodio's own count; device listing and selection.
- In the PulseAudio output: `try_new`, the skip offset, and the early returns that leave
  the main loop locked.
- What a panicking thread does to the others. `Frames` has the panic of a frame
  shorter than a command name, `Session` has no dying thread.
- The contents of HELO across retries: `sync_group_id` is taken for a HELO that may
  fail, and is then gone (`vibe/src/proto.rs:57`). The name the server gave is set back at
  every reconnect (`main.rs:151`). Neither contradicts a line of the repository.
- Options, service file, notifications, the choice of the output: parsing by clap, pure
  output, and a constructor.

## Plan

Done: all modules of the inventory that have state of their own, with the safety
properties of all of them proved.

Next: what the PulseAudio output promises the event loop. It does not implement
`AudioOutput` as that stands: an underflow before the last write makes it tell the end of a
track twice, and a track that another's Drained has taken out of its slot tells its own
end later (the exceptions of `RightTrackEnds`). A weaker abstract output that all three
implement would have to allow both.
