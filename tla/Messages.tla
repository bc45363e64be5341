------------------------------- MODULE Messages -------------------------------
(***************************************************************************)
(* What the player and its server write and read: the encoding of          *)
(* ClientMessage and the decoding of ServerMessage (messages.rs), and the  *)
(* StatusData block whose fields go into every STAT (status.rs).           *)
(*                                                                         *)
(* The code writes and reads field after field; the other end, Lyrion      *)
(* (external), knows each field by its place.  The two are checked against *)
(* each other.  A byte has Base values, so that u8 to u64 overflow within  *)
(* reach.  A command name, an event code and a character are one opaque    *)
(* number each; the character that selects an alternative of a match is    *)
(* its place among them.                                                   *)
(***************************************************************************)
EXTENDS Integers, Sequences

CONSTANTS
  Base,          \* values of a byte (256)
  Second,        \* milliseconds of a second (1000)
  KnownFlags,    \* the values that StreamFlags::from_bits accepts
  Texts,         \* names and capability lists, as sequences of characters
  Times,         \* times and durations, in milliseconds
  Counts,        \* CRLFs or bytes received at a time
  Fills,         \* sizes and fullnesses of a buffer
  ServerFrames,  \* what Lyrion may send: a command name and the bytes after it
  MaxCrlfs,      \* bound: CRLFs in all
  MaxBytes,      \* bound: bytes received in all
  MaxOnWire      \* bound: messages Lyrion has not read yet

U8  == Base
U16 == U8 * U8
U32 == U16 * U16
U64 == U32 * U32

\* The length of every message fits the four bytes it has.
ASSUME MessagesAssumption ==
  /\ Base \in Nat /\ Base > 2 /\ Second \in Nat \ {0} /\ KnownFlags \subseteq Nat
  /\ \A t \in Texts : t \in Seq(Nat) /\ Len(t) + 36 < U32
  /\ Times \subseteq Nat /\ Counts \subseteq Nat
  /\ \A f \in Fills : f \in (0 .. U32 - 1) \X (0 .. U32 - 1)
  /\ \A f \in ServerFrames : f.cmd \in STRING /\ f.body \in Seq(Nat)
  /\ MaxCrlfs \in Nat /\ MaxBytes \in Nat /\ MaxOnWire \in Nat

VARIABLES
  now,       \* time since StatusData::start
  block,     \* the StatusData
  name,      \* the player's name
  wire,      \* bytes on their way to Lyrion
  parsed,    \* what the last frame from Lyrion was taken for
  \* history
  added,     \* CRLFs and bytes received in all
  meant,     \* the messages on the wire, as Lyrion should read them
  frame,     \* the last frame from Lyrion
  named      \* the last name Lyrion has given the player

vars == <<now, block, name, wire, parsed, added, meant, frame, named>>

Nothing == [kind |-> "none"]
NoFrame == [cmd |-> "none", body |-> <<>>]

-----------------------------------------------------------------------------
(* Numbers, big endian                                                     *)

PutU8(v)  == <<v % U8>>
PutU16(v) == PutU8(v \div U8) \o PutU8(v)
PutU32(v) == PutU16(v \div U16) \o PutU16(v)
PutU64(v) == PutU32(v \div U32) \o PutU32(v)

\* The number that starts behind `at` bytes.
GetU8(b, at)  == b[at + 1]
GetU16(b, at) == GetU8(b, at) * U8 + GetU8(b, at + 1)
GetU32(b, at) == GetU16(b, at) * U16 + GetU16(b, at + 2)
GetU64(b, at) == GetU32(b, at) * U32 + GetU32(b, at + 4)

\* The number at a place: bytes before it and bytes it has.
At(b, place) ==
  CASE place[2] = 1 -> GetU8(b, place[1])
    [] place[2] = 2 -> GetU16(b, place[1])
    [] place[2] = 4 -> GetU32(b, place[1])
    [] place[2] = 8 -> GetU64(b, place[1])

\* try_into::<u32>().unwrap_or_default()
IntoU32(v) == IF v < U32 THEN v ELSE 0

-----------------------------------------------------------------------------
(* From<ClientMessage> for Bytes                                           *)

HELO == 1001
BYE  == 1002
STAT == 1003
SETD == 1004

\* Mutant: the length includes the command name.
LengthOfAll(body) == Len(body) + 1

\* saturating_sub(4): the length of what follows.
LengthOf(body) == Len(body)

Framed(cmd, body) == <<cmd>> \o PutU32(LengthOf(body)) \o body

EncodeStat(code, data) ==
  Framed(STAT,
    <<code>> \o PutU8(data.crlf) \o PutU16(0) \o PutU32(data.buffer_size) \o PutU32(data.fullness)
    \o PutU64(data.bytes_received) \o PutU16(data.sig_strength) \o PutU32(IntoU32(data.jiffies))
    \o PutU32(data.output_buffer_size) \o PutU32(data.output_buffer_fullness)
    \o PutU32(data.elapsed_seconds) \o PutU16(data.voltage) \o PutU32(data.elapsed_milliseconds)
    \o PutU32(IntoU32(data.timestamp)) \o PutU16(data.error_code))

\* The revision, address, uuid and language are empty.
Blank(n) == [i \in 1 .. n |-> 0]

EncodeHelo(device_id, wlan_channel_list, bytes_received, capabilities) ==
  Framed(HELO,
    PutU8(device_id) \o Blank(1) \o Blank(6) \o Blank(16) \o PutU16(wlan_channel_list)
    \o PutU64(bytes_received) \o Blank(2) \o capabilities)

EncodeBye(val) == Framed(BYE, PutU8(val))

EncodeName(text) == Framed(SETD, PutU8(0) \o text)

-----------------------------------------------------------------------------
(* Lyrion's end of it (external): every field at its place in the body.    *)

\* An event code takes one place here.
StatPlaces ==
  [crlf |-> <<1, 1>>, buffer_size |-> <<4, 4>>, fullness |-> <<8, 4>>, bytes_received |-> <<12, 8>>,
   sig_strength |-> <<20, 2>>, jiffies |-> <<22, 4>>, output_buffer_size |-> <<26, 4>>,
   output_buffer_fullness |-> <<30, 4>>, elapsed_seconds |-> <<34, 4>>, voltage |-> <<38, 2>>,
   elapsed_milliseconds |-> <<40, 4>>, timestamp |-> <<44, 4>>, error_code |-> <<48, 2>>]

HeloPlaces ==
  [device_id |-> <<0, 1>>, wlan_channel_list |-> <<24, 2>>, bytes_received |-> <<26, 8>>]

Fields(body, places) == [f \in DOMAIN places |-> At(body, places[f])]

\* A whole message.
Reading(msg) ==
  LET body == SubSeq(msg, 6, Len(msg)) IN
  CASE msg[1] = STAT -> <<STAT, body[1], Fields(body, StatPlaces)>>
    [] msg[1] = HELO -> <<HELO, Fields(body, HeloPlaces), SubSeq(body, 37, Len(body))>>
    [] msg[1] = BYE  -> <<BYE, body[1]>>
    [] OTHER         -> <<SETD, body[1], Tail(body)>>

\* Where the first message on the wire ends, going by its length.
FirstEnd == 5 + GetU32(wire, 1)

-----------------------------------------------------------------------------
(* StatusData                                                              *)

\* The fields that are sent; Durations have no width.
StatusData ==
  [crlf : 0 .. U8 - 1, buffer_size : 0 .. U32 - 1, fullness : 0 .. U32 - 1,
   bytes_received : 0 .. U64 - 1, sig_strength : 0 .. U16 - 1, jiffies : Nat,
   output_buffer_size : 0 .. U32 - 1, output_buffer_fullness : 0 .. U32 - 1,
   elapsed_seconds : 0 .. U32 - 1, voltage : 0 .. U16 - 1, elapsed_milliseconds : 0 .. U32 - 1,
   timestamp : Nat, error_code : 0 .. U16 - 1]

Zero ==
  [crlf |-> 0, buffer_size |-> 0, fullness |-> 0, bytes_received |-> 0, sig_strength |-> 0,
   jiffies |-> 0, output_buffer_size |-> 0, output_buffer_fullness |-> 0, elapsed_seconds |-> 0,
   voltage |-> 0, elapsed_milliseconds |-> 0, timestamp |-> 0, error_code |-> 0]

\* wrapping_add of u8 and of u64.
AddU8(a, b) == (a + b) % U8
AddU64(a, b) == (a + b) % U64

\* add_crlf(num_crlf as u8)
AddCrlf(n) ==
  /\ added.crlf + n <= MaxCrlfs
  /\ added' = [added EXCEPT !.crlf = @ + n]
  /\ block' = [block EXCEPT !.crlf = AddU8(@, n % U8)]
  /\ UNCHANGED <<now, name, wire, parsed, meant, frame, named>>

AddBytesReceived(n) ==
  /\ added.bytes + n <= MaxBytes
  /\ added' = [added EXCEPT !.bytes = @ + n]
  /\ block' = [block EXCEPT !.bytes_received = AddU64(@, n)]
  /\ UNCHANGED <<now, name, wire, parsed, meant, frame, named>>

\* The setters of size and fullness, of the stream buffer and of the output's.
SetBuffer(fill) ==
  /\ block' = [block EXCEPT !.buffer_size = fill[1], !.fullness = fill[2]]
  /\ UNCHANGED <<now, name, wire, parsed, added, meant, frame, named>>

SetOutputBuffer(fill) ==
  /\ block' = [block EXCEPT !.output_buffer_size = fill[1], !.output_buffer_fullness = fill[2]]
  /\ UNCHANGED <<now, name, wire, parsed, added, meant, frame, named>>

TimePasses ==
  /\ \E t \in Times : t > now /\ now' = t
  /\ UNCHANGED <<block, name, wire, parsed, added, meant, frame, named>>

Send(bytes, meaning) ==
  /\ Len(meant) < MaxOnWire
  /\ wire' = wire \o bytes
  /\ meant' = Append(meant, meaning)

\* What a STAT should tell: the counts modulo their width, the clock until it
\* no longer fits and zero from then on.
StatMeaning(code, data) ==
  <<STAT, code,
    [data EXCEPT !.crlf = added.crlf % U8, !.bytes_received = added.bytes % U64,
                 !.jiffies = IF now < U32 THEN now ELSE 0,
                 !.timestamp = IF @ < U32 THEN @ ELSE 0]>>

\* make_status_message of a block, and the message sent.
SendBlock(code, data) ==
  /\ block' = [data EXCEPT !.jiffies = now]
  /\ Send(EncodeStat(code, block'), StatMeaning(code, data))
  /\ UNCHANGED <<now, name, parsed, added, frame, named>>

SendStat == SendBlock(1, block)

\* on_status: the times are set first, those played cast `as u32`.
OnStatus(play_time, ts) ==
  SendBlock(2, [block EXCEPT !.elapsed_milliseconds = play_time % U32,
                             !.elapsed_seconds = (play_time \div Second) % U32,
                             !.timestamp = ts])

\* A bit of the high byte of the channel list.
ReconnectBit == Base

\* Hello::connect
SendHelo(reconnect, capabilities) ==
  LET wlan == IF reconnect THEN ReconnectBit ELSE 0 IN
  /\ Send(EncodeHelo(1, wlan, block.bytes_received, capabilities),
          <<HELO, [device_id |-> 1, wlan_channel_list |-> wlan, bytes_received |-> added.bytes % U64],
            capabilities>>)
  /\ UNCHANGED <<now, block, name, parsed, added, frame, named>>

SendBye ==
  /\ Send(EncodeBye(0), <<BYE, 0>>)
  /\ UNCHANGED <<now, block, name, parsed, added, frame, named>>

LyrionReads ==
  /\ meant # <<>> /\ FirstEnd <= Len(wire)
  /\ meant' = Tail(meant) /\ wire' = SubSeq(wire, FirstEnd + 1, Len(wire))
  /\ UNCHANGED <<now, block, name, parsed, added, frame, named>>

-----------------------------------------------------------------------------
(* From<BytesMut> for ServerMessage                                        *)

Variants ==
  {"Serv", "Status", "Stream", "Gain", "Enable", "Flush", "Stop", "Pause", "Unpause", "Queryname",
   "Setname", "DisableDac", "Skip", "Unrecognised", "Error"}

\* The length each command is checked for before it is read.
\* Mutant: one byte less for strm.
ChecksLess == [serv |-> 4, strm |-> 23, aude |-> 2, audg |-> 18, setd |-> 1]
Checks == [serv |-> 4, strm |-> 24, aude |-> 2, audg |-> 18, setd |-> 1]

\* The fields of a strm 's' in the order they are split off, after the
\* sub-command; <<"", n>> is skipped.
StreamFields ==
  <<<<"autostart", 1>>, <<"format", 1>>, <<"pcmsamplesize", 1>>, <<"pcmsamplerate", 1>>,
    <<"pcmchannels", 1>>, <<"pcmendian", 1>>, <<"threshold", 1>>, <<"spdif_enable", 1>>,
    <<"trans_period", 1>>, <<"trans_type", 1>>, <<"flags", 1>>, <<"output_threshold", 1>>,
    <<"", 1>>, <<"replay_gain", 4>>, <<"server_port", 2>>, <<"server_ip", 4>>>>

\* Those with one of a few characters: how many the match knows.
Alternatives ==
  [autostart |-> 4, format |-> 7, pcmsamplesize |-> 5, pcmsamplerate |-> 11,
   pcmchannels |-> 3, pcmendian |-> 3, spdif_enable |-> 3, trans_type |-> 5]

\* strm t, p, u and a.
\* Mutant: the interval is taken from one byte too early.
IntervalFieldsEarly == <<<<"", 12>>, <<"interval", 4>>>>
IntervalFields == <<<<"", 13>>, <<"interval", 4>>>>

GainFields == <<<<"", 10>>, <<"left", 4>>, <<"right", 4>>>>
ServFields == <<<<"ip", 4>>>>
EnableFields == <<<<"spdif", 1>>, <<"dac", 1>>>>

\* The bytes split off before field i is.
Cursor(layout) ==
  LET c[i \in 1 .. Len(layout) + 1] == IF i = 1 THEN 0 ELSE c[i - 1] + layout[i - 1][2]
  IN  c

\* Where splitting leads to: the place of each field, and the bytes in all.
SplitAt(layout) ==
  LET index(f) == CHOOSE i \in 1 .. Len(layout) : layout[i][1] = f
  IN  [f \in {layout[i][1] : i \in 1 .. Len(layout)} \ {""} |->
         <<Cursor(layout)[index(f)], layout[index(f)][2]>>]
Needs(layout) == Cursor(layout)[Len(layout) + 1]

\* What becomes of a value: bytes, milliseconds, flags of which an unknown one
\* empties the set, and booleans.  Gains stay in 65536ths.
Converted(f, v) ==
  CASE f = "threshold"          -> v * 1024
    [] f = "trans_period"       -> v * 1000
    [] f = "output_threshold"   -> v * 100
    [] f = "flags"              -> IF v \in KnownFlags THEN v ELSE 0
    [] f \in {"spdif", "dac"}   -> IF v # 0 THEN 1 ELSE 0
    [] OTHER                    -> v

\* split_to and get_uN panic when too little is left; a character that no
\* alternative has is an Error; what is left is the headers or the group.
Parse(kind, layout, body) ==
  LET raw == Fields(body, SplitAt(layout)) IN
  IF Len(body) < Needs(layout) THEN [kind |-> "panic"]
  ELSE IF \E f \in DOMAIN raw \cap DOMAIN Alternatives : raw[f] >= Alternatives[f]
  THEN [kind |-> "Error"]
  ELSE [kind |-> kind, fields |-> [f \in DOMAIN raw |-> Converted(f, raw[f])],
        rest |-> SubSeq(body, Needs(layout) + 1, Len(body))]

\* buf[..len - 1]
WithoutNul(body) == SubSeq(body, 1, Len(body) - 1)

ParseSetd(body) ==
  CASE body[1] = 0 /\ Len(body) = 1 -> [kind |-> "Queryname"]
    [] body[1] = 0 /\ Len(body) > 1 -> [kind |-> "Setname", name |-> WithoutNul(Tail(body))]
    [] body[1] = 4                  -> [kind |-> "DisableDac"]
    [] OTHER                        -> [kind |-> "Unrecognised"]

\* The sub-commands s, t, q, f, p, u and a.
ParseStrm(sub, body) ==
  CASE sub = 0 -> Parse("Stream", StreamFields, body)
    [] sub = 1 -> Parse("Status", IntervalFields, body)
    [] sub = 2 -> [kind |-> "Stop"]
    [] sub = 3 -> [kind |-> "Flush"]
    [] sub = 4 -> Parse("Pause", IntervalFields, body)
    [] sub = 5 -> Parse("Unpause", IntervalFields, body)
    [] sub = 6 -> Parse("Skip", IntervalFields, body)
    [] OTHER   -> [kind |-> "Unrecognised"]

ServerMessage(cmd, body) ==
  IF cmd \in DOMAIN Checks /\ Len(body) < Checks[cmd] THEN [kind |-> "Error"]
  ELSE CASE cmd = "serv" -> Parse("Serv", ServFields, body)
         [] cmd = "strm" -> ParseStrm(body[1], Tail(body))
         [] cmd = "aude" -> Parse("Enable", EnableFields, body)
         [] cmd = "audg" -> Parse("Gain", GainFields, body)
         [] cmd = "setd" -> ParseSetd(body)
         [] OTHER        -> [kind |-> "Unrecognised"]

\* Bound: the parser sees nothing but the frame, so frames are tried on a
\* player that has just started.
Fresh == now = 0 /\ block = Zero /\ meant = <<>>

Receive(f) ==
  /\ parsed' = ServerMessage(f.cmd, f.body) /\ frame' = f
  /\ UNCHANGED <<now, block, name, wire, added, meant, named>>

\* Lyrion names the player: setd 0, the name and a NUL.
ReceiveName(text) ==
  /\ name' = ServerMessage("setd", <<0>> \o text \o <<0>>).name
  /\ named' = text
  /\ UNCHANGED <<now, block, wire, parsed, added, meant, frame>>

\* Lyrion asks for the name, and is answered.
AnswerQuery ==
  /\ ServerMessage("setd", <<0>>).kind = "Queryname"
  /\ Send(EncodeName(name), <<SETD, 0, named>>)
  /\ UNCHANGED <<now, block, name, parsed, added, frame, named>>

\* The event loop is done with what was received.
Handled ==
  /\ parsed.kind # "none"
  /\ parsed' = Nothing /\ frame' = NoFrame
  /\ UNCHANGED <<now, block, name, wire, added, meant, named>>

Init ==
  /\ now = 0 /\ block = Zero /\ wire = <<>>
  /\ name \in Texts /\ named = name
  /\ added = [crlf |-> 0, bytes |-> 0] /\ meant = <<>>
  /\ parsed = Nothing /\ frame = NoFrame

Step ==
  \/ \E n \in Counts : AddCrlf(n) \/ AddBytesReceived(n)
  \/ \E play_time, ts \in Times : OnStatus(play_time, ts)
  \/ \E fill \in Fills : SetBuffer(fill) \/ SetOutputBuffer(fill)
  \/ TimePasses
  \/ SendStat \/ SendBye
  \/ \E reconnect \in BOOLEAN, caps \in Texts : SendHelo(reconnect, caps)
  \/ LyrionReads
  \/ Fresh /\ \E f \in ServerFrames : Receive(f)
  \/ \E text \in Texts : ReceiveName(text)
  \/ AnswerQuery

\* Bound: nothing comes between a frame and its handling.
Next == Handled \/ (parsed.kind = "none" /\ Step)

Spec == Init /\ [][Next]_vars

-----------------------------------------------------------------------------
(* What Lyrion means by a frame (external)                                 *)

\* Where the fields of a frame are, behind the command name.
Interval == [interval |-> <<14, 4>>]
Places ==
  [Stream |->
     [autostart |-> <<1, 1>>, format |-> <<2, 1>>, pcmsamplesize |-> <<3, 1>>, pcmsamplerate |-> <<4, 1>>,
      pcmchannels |-> <<5, 1>>, pcmendian |-> <<6, 1>>, threshold |-> <<7, 1>>, spdif_enable |-> <<8, 1>>,
      trans_period |-> <<9, 1>>, trans_type |-> <<10, 1>>, flags |-> <<11, 1>>, output_threshold |-> <<12, 1>>,
      replay_gain |-> <<14, 4>>, server_port |-> <<18, 2>>, server_ip |-> <<20, 4>>],
   Status |-> Interval, Pause |-> Interval, Unpause |-> Interval, Skip |-> Interval,
   Serv |-> [ip |-> <<0, 4>>], Enable |-> [spdif |-> <<0, 1>>, dac |-> <<1, 1>>],
   Gain |-> [left |-> <<10, 4>>, right |-> <<14, 4>>]]

\* The command, its sub-command, and the length of a frame of a kind.
Heads ==
  [Stream |-> <<"strm", 0, 24>>, Status |-> <<"strm", 1, 24>>, Pause |-> <<"strm", 4, 24>>,
   Unpause |-> <<"strm", 5, 24>>, Skip |-> <<"strm", 6, 24>>,
   Serv |-> <<"serv", 0, 4>>, Enable |-> <<"aude", 0, 2>>, Gain |-> <<"audg", 0, 18>>]

Sent(kind) ==
  /\ frame.cmd = Heads[kind][1] /\ Len(frame.body) >= Heads[kind][3]
  /\ frame.cmd = "strm" => frame.body[1] = Heads[kind][2]

\* Lyrion counts in KiB, seconds and tenths of a second; any byte but 0 enables.
Unit == [threshold |-> 1024, trans_period |-> 1000, output_threshold |-> 100]
Meaning(f, v) ==
  CASE f \in DOMAIN Unit                 -> v * Unit[f]
    [] f \in {"spdif", "dac"} /\ v # 0   -> 1
    [] OTHER                             -> v

-----------------------------------------------------------------------------

\* Types, and the fields of the block stay within their widths.
TypeOK ==
  /\ now \in Nat /\ block \in StatusData /\ added \in [crlf : Nat, bytes : Nat]
  /\ name \in Texts /\ wire \in Seq(Nat) /\ frame \in ServerFrames \cup {NoFrame}
  /\ parsed.kind \in Variants \cup {"none", "panic"}

\* Lyrion, going by the length and the places of the fields, reads each
\* message as it was meant: the messages do not run into each other, every
\* field is where it belongs, the counts are right modulo their width whatever
\* was added in between, times that no longer fit are zero, and the name the
\* player reports is the one Lyrion gave it last.
ServerUnderstands ==
  IF meant = <<>> THEN wire = <<>>
  ELSE FirstEnd <= Len(wire) /\ Reading(SubSeq(wire, 1, FirstEnd)) = Head(meant)

\* What Lyrion put at the place of a field is what the player finds in it, in
\* the unit Lyrion means, for every command and every flag that has a meaning,
\* and the rest is left for the headers; only a character without a meaning is
\* an Error.
ParsedAsLaidOut ==
  \A kind \in DOMAIN Places : Sent(kind) =>
    LET fields == [f \in DOMAIN Places[kind] |-> Meaning(f, At(frame.body, Places[kind][f]))] IN
    IF \E f \in DOMAIN fields \cap DOMAIN Alternatives : fields[f] >= Alternatives[f]
    THEN parsed.kind = "Error"
    ELSE /\ parsed.kind = kind /\ DOMAIN parsed.fields = DOMAIN fields
         /\ \A f \in DOMAIN fields :
              (f = "flags" => fields[f] \in KnownFlags) => parsed.fields[f] = fields[f]
         /\ kind \in {"Stream", "Serv"} =>
              parsed.rest = SubSeq(frame.body, Heads[kind][3] + 1, Len(frame.body))

\* No frame that holds a command name makes the parser panic, however short:
\* the length it is checked for covers everything that is then read.
LengthChecksSuffice == parsed.kind # "panic"

=============================================================================
