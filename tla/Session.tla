------------------------------- MODULE Session -------------------------------
(***************************************************************************)
(* The player's session with its server: the reconnect loop of             *)
(* vibe/src/main.rs, the slim-proto and slim-write threads of              *)
(* vibe/src/proto.rs, and the handshake of lms-proto/src/proto.rs.         *)
(*                                                                         *)
(* Every turn of main's outer loop is a generation with two channels of    *)
(* capacity one (slim_tx to the writer, slim_rx to main) and a slim-proto  *)
(* thread that looks for the server, connects, starts one slim-write       *)
(* thread per connection and forwards what the server says.  The mutex     *)
(* around STATUS is shared by all of them: main keeps it locked while it   *)
(* sends a status message, and slim-proto takes it to build its HELO.      *)
(*                                                                         *)
(* What a message makes main do is reduced to how main answers it: with a  *)
(* status message, sent under STATUS; with its name, sent without it; or   *)
(* not at all.  A lost connection may still have messages to read.         *)
(***************************************************************************)
EXTENDS Integers, Sequences

CONSTANTS
  Servers,        \* the servers on the network
  NoServer,       \* "None" of an optional address
  Configured,     \* --server, or NoServer: find one by discovery
  MaxMessages,    \* bound: messages the servers send in all
  MaxLosses,      \* bound: connections that break
  MaxSwitches,    \* bound: Serv messages the servers send
  LookupMayFail,  \* discovery may time out and connect may fail for good
  WriteMayFail    \* a write on a broken connection may be what notices it

ASSUME SessionAssumption ==
  /\ NoServer \notin Servers
  /\ Configured \in Servers \cup {NoServer}
  /\ MaxMessages \in Nat /\ MaxLosses \in Nat /\ MaxSwitches \in Nat
  /\ LookupMayFail \in BOOLEAN /\ WriteMayFail \in BOOLEAN

VARIABLES
  gen,        \* the generation main is in
  reconnect,  \* main's flag of that name
  mainPc,     \* "select", or the send main is in: "status", "reply", "bye"
  slimTx,     \* slimTx[g]: queue to the writers of generation g
  slimRx,     \* slimRx[g]: queue to main
  proto,      \* proto[g]: the slim-proto thread of generation g
  conns,      \* the connections made so far, with their slim-write threads
  \* history: messages sent, connections lost, Serv messages sent, the
  \* connections main had messages of in this generation, and asked[g]: the
  \* server the connection of generation g named when it told the player to
  \* switch
  sent, losses, switches, heard, asked

mainVars == <<gen, reconnect, mainPc>>
history  == <<sent, losses, switches, heard, asked>>
vars     == <<mainVars, slimTx, slimRx, proto, conns, history>>

\* One generation at the start, one more for each loss or switch.
Gens == 1 .. 1 + MaxLosses + MaxSwitches

Kinds == {"status", "query", "quiet"}

\* None on slim_rx: the connection of this generation is over.
Over == [kind |-> "none", conn |-> 0]

\* A slim-proto thread: where it is, the connection it reads, the address
\* a Serv message left it, its reconnect flag, the flag in the HELO it has
\* built, the address it is connecting to, and the message in its hands.
NewProto(again) ==
  [pc |-> "hello", conn |-> 0, next |-> NoServer, reconnect |-> again,
   helo |-> FALSE, target |-> NoServer, msg |-> Over]

Absent == [NewProto(FALSE) EXCEPT !.pc = "absent"]

Init ==
  /\ gen = 1 /\ reconnect = FALSE /\ mainPc = "select"
  /\ slimTx = [g \in Gens |-> << >>]
  /\ slimRx = [g \in Gens |-> << >>]
  /\ proto = [g \in Gens |-> IF g = 1 THEN NewProto(FALSE) ELSE Absent]
  /\ conns = << >>
  /\ sent = 0 /\ losses = 0 /\ switches = 0 /\ heard = {}
  /\ asked = [g \in Gens |-> NoServer]

-----------------------------------------------------------------------------
(* The channels and the lock                                               *)

Room(queue) == Len(queue) < 1

\* main keeps one sender of slim_tx and the receiver of slim_rx for as long
\* as the generation lasts.
Current(g) == g = gen

\* slim_tx has a receiver in the slim-proto thread and one in every writer.
Listening(g) ==
  \/ proto[g].pc # "done"
  \/ \E c \in DOMAIN conns : conns[c].gen = g /\ conns[c].writer = "waiting"

\* main holds STATUS while it is in the send of a status message.
StatusFree == mainPc # "status"

-----------------------------------------------------------------------------
(* slim-proto                                                              *)

\* Top of the reconnect loop: lock STATUS, build the HELO.
BuildHello(g) ==
  /\ proto[g].pc = "hello"
  /\ StatusFree
  /\ proto' = [proto EXCEPT ![g].pc = "find", ![g].helo = proto[g].reconnect]
  /\ UNCHANGED <<mainVars, slimTx, slimRx, conns, history>>

\* The address to use: the one of a Serv message, the configured one, or
\* whatever discovery finds.
KnownAddress(g) == IF proto[g].next # NoServer THEN proto[g].next ELSE Configured

UseKnownAddress(g) ==
  /\ proto[g].pc = "find"
  /\ KnownAddress(g) # NoServer
  /\ proto' = [proto EXCEPT ![g].pc = "connect", ![g].target = KnownAddress(g),
                            ![g].next = NoServer]
  /\ UNCHANGED <<mainVars, slimTx, slimRx, conns, history>>

\* discover: some server answers, or nobody does for 30 seconds.
DiscoverHit(g) ==
  /\ proto[g].pc = "find"
  /\ KnownAddress(g) = NoServer
  /\ \E s \in Servers : proto' = [proto EXCEPT ![g].pc = "connect", ![g].target = s]
  /\ UNCHANGED <<mainVars, slimTx, slimRx, conns, history>>

DiscoverMiss(g) ==
  /\ LookupMayFail
  /\ proto[g].pc = "find"
  /\ KnownAddress(g) = NoServer
  /\ proto' = [proto EXCEPT ![g].pc = "hello", ![g].helo = FALSE]
  /\ UNCHANGED <<mainVars, slimTx, slimRx, conns, history>>

\* (Locals that are dead are reset, which keeps the states few.)
\* Hello::connect: the HELO is sent, and a writer is started.  Refused and
\* unreachable hosts are retried inside connect_with_retry until they answer.
ConnectOk(g) ==
  /\ proto[g].pc = "connect"
  /\ conns' = Append(conns, [gen |-> g, server |-> proto[g].target, helo |-> proto[g].helo,
                             link |-> "up", writer |-> "waiting"])
  /\ proto' = [proto EXCEPT ![g].pc = "serve", ![g].conn = Len(conns) + 1,
                            ![g].target = NoServer, ![g].helo = FALSE]
  /\ UNCHANGED <<mainVars, slimTx, slimRx, history>>

\* Any other error: sleep, and try the same address again.
ConnectFail(g) ==
  /\ LookupMayFail
  /\ proto[g].pc = "connect"
  /\ proto' = [proto EXCEPT ![g].pc = "hello", ![g].next = proto[g].target,
                            ![g].target = NoServer, ![g].helo = FALSE]
  /\ UNCHANGED <<mainVars, slimTx, slimRx, conns, history>>

\* rx.recv yields a message for main.
ReceiveMessage(g) ==
  /\ proto[g].pc = "serve"
  /\ sent < MaxMessages
  /\ sent' = sent + 1
  /\ \E k \in Kinds :
        proto' = [proto EXCEPT ![g].pc = "forward",
                    ![g].msg = [kind |-> k, conn |-> proto[g].conn]]
  /\ UNCHANGED <<mainVars, slimTx, slimRx, conns, losses, switches, heard, asked>>

\* rx.recv yields a Serv message with a usable address; the rest of the
\* batch is dropped.
ReceiveServ(g) ==
  /\ proto[g].pc = "serve"
  /\ switches < MaxSwitches
  /\ switches' = switches + 1
  /\ \E s \in Servers :
        /\ proto' = [proto EXCEPT ![g].pc = "handover", ![g].next = s, ![g].reconnect = TRUE]
        /\ asked' = IF Current(g) /\ asked[g] = NoServer THEN [asked EXCEPT ![g] = s] ELSE asked
  /\ UNCHANGED <<mainVars, slimTx, slimRx, conns, sent, losses, heard>>

\* rx.recv fails: the connection is gone.
ReceiveError(g) ==
  /\ proto[g].pc = "serve"
  /\ conns[proto[g].conn].link = "down"
  /\ proto' = [proto EXCEPT ![g].pc = "lost"]
  /\ UNCHANGED <<mainVars, slimTx, slimRx, conns, history>>

\* slim_rx_in.send: waits for room, fails at once when main dropped the
\* receiver.
SendToMain(g, msg) ==
  \/ /\ Current(g) /\ Room(slimRx[g])
     /\ slimRx' = [slimRx EXCEPT ![g] = Append(@, msg)]
  \/ /\ ~Current(g)
     /\ UNCHANGED slimRx

Forward(g) ==
  /\ proto[g].pc = "forward"
  /\ SendToMain(g, proto[g].msg)
  /\ proto' = [proto EXCEPT ![g].pc = "serve", ![g].msg = Over]
  /\ UNCHANGED <<mainVars, slimTx, conns, history>>

\* Mutant: main is not told.
HandOverSilently(g) ==
  /\ proto[g].pc = "handover"
  /\ proto' = [proto EXCEPT ![g].pc = "hello"]
  /\ UNCHANGED <<mainVars, slimTx, slimRx, conns, history>>

\* After a Serv message: tell main, and go round the reconnect loop.
HandOver(g) ==
  /\ proto[g].pc = "handover"
  /\ SendToMain(g, Over)
  /\ proto' = [proto EXCEPT ![g].pc = "hello"]
  /\ UNCHANGED <<mainVars, slimTx, conns, history>>

\* Mutant: main is not told.
GiveUpSilently(g) ==
  /\ proto[g].pc = "lost"
  /\ proto' = [proto EXCEPT ![g].pc = "done"]
  /\ UNCHANGED <<mainVars, slimTx, slimRx, conns, history>>

\* After a lost connection: tell main, and end the thread.
GiveUp(g) ==
  /\ proto[g].pc = "lost"
  /\ SendToMain(g, Over)
  /\ proto' = [proto EXCEPT ![g].pc = "done"]
  /\ UNCHANGED <<mainVars, slimTx, conns, history>>

\* The environment: a connection breaks.
LoseLink(c) ==
  /\ conns[c].link = "up"
  /\ losses < MaxLosses
  /\ losses' = losses + 1
  /\ conns' = [conns EXCEPT ![c].link = "down"]
  /\ UNCHANGED <<mainVars, slimTx, slimRx, proto, sent, switches, heard, asked>>

-----------------------------------------------------------------------------
(* slim-write                                                              *)

\* Take the next message and write it.  Bye(1) goes out as Bye(0) and ends the
\* thread, and so does a write error.
Write(c) ==
  LET g == conns[c].gen
  IN  /\ conns[c].writer = "waiting"
      /\ slimTx[g] # << >>
      /\ slimTx' = [slimTx EXCEPT ![g] = Tail(@)]
      /\ \/ conns' = [conns EXCEPT ![c].writer = IF Head(slimTx[g]) = "bye" THEN "done" ELSE @]
         \/ /\ WriteMayFail /\ conns[c].link = "down"
            /\ conns' = [conns EXCEPT ![c].writer = "done"]
      /\ UNCHANGED <<mainVars, slimRx, proto, history>>

\* Mutant: somebody keeps a sender of every generation.
SendersKept(g) == FALSE

\* All senders of slim_tx are gone once main has left the generation (a
\* resume-timer thread may keep a clone until it fires, which it always does).
SendersGone(g) == ~Current(g)

\* recv fails once the channel is empty and has no senders.
WriterEnds(c) ==
  /\ conns[c].writer = "waiting"
  /\ slimTx[conns[c].gen] = << >> /\ SendersGone(conns[c].gen)
  /\ conns' = [conns EXCEPT ![c].writer = "done"]
  /\ UNCHANGED <<mainVars, slimTx, slimRx, proto, history>>

-----------------------------------------------------------------------------
(* main                                                                    *)

\* A message of the server; the handler may have something to send.
HandleMessage ==
  /\ mainPc = "select"
  /\ slimRx[gen] # << >> /\ Head(slimRx[gen]).kind # "none"
  /\ slimRx' = [slimRx EXCEPT ![gen] = Tail(@)]
  /\ heard' = heard \cup {Head(slimRx[gen]).conn}
  /\ mainPc' = CASE Head(slimRx[gen]).kind = "status" -> "status"
                 [] Head(slimRx[gen]).kind = "query"  -> "reply"
                 [] OTHER -> "select"
  /\ UNCHANGED <<gen, reconnect, slimTx, proto, conns, sent, losses, switches, asked>>

\* None: say Bye and start over.
HandleOver ==
  /\ mainPc = "select"
  /\ slimRx[gen] # << >> /\ Head(slimRx[gen]).kind = "none"
  /\ slimRx' = [slimRx EXCEPT ![gen] = Tail(@)]
  /\ mainPc' = "bye"
  /\ UNCHANGED <<gen, reconnect, slimTx, proto, conns, history>>

\* Nothing from the server for a second or more: a timer status.  The timeout
\* is long enough for a new slim-proto thread to build its HELO first.
Tick ==
  /\ mainPc = "select"
  /\ slimRx[gen] = << >>
  /\ proto[gen].pc # "hello"
  /\ mainPc' = "status"
  /\ UNCHANGED <<gen, reconnect, slimTx, slimRx, proto, conns, history>>

\* A handler of a player message sends a status; the decoder and the output
\* only exist once this generation has had a connection.
PlayerStatus ==
  /\ mainPc = "select"
  /\ proto[gen].conn # 0
  /\ mainPc' = "status"
  /\ UNCHANGED <<gen, reconnect, slimTx, slimRx, proto, conns, history>>

\* slim_tx.send: waits for room, fails at once when nobody listens.
SendToServer(msg) ==
  \/ /\ Listening(gen) /\ Room(slimTx[gen])
     /\ slimTx' = [slimTx EXCEPT ![gen] = Append(@, msg)]
  \/ /\ ~Listening(gen)
     /\ UNCHANGED slimTx

\* The end of a handler's send, and of the lock on STATUS if it held it.
FinishSend ==
  /\ mainPc \in {"status", "reply"}
  /\ SendToServer(mainPc)
  /\ mainPc' = "select"
  /\ UNCHANGED <<gen, reconnect, slimRx, proto, conns, history>>

\* Mutant: the reconnect flag is not set.
RestartForgetful ==
  /\ mainPc = "bye"
  /\ SendToServer("bye")
  /\ gen' = gen + 1
  /\ mainPc' = "select"
  /\ proto' = [proto EXCEPT ![gen + 1] = NewProto(reconnect)]
  /\ heard' = {}
  /\ UNCHANGED <<reconnect, slimRx, conns, sent, losses, switches, asked>>

\* The end of a generation: the channels are dropped, the next slim-proto
\* thread is started with the server main was started with.
Restart ==
  /\ mainPc = "bye"
  /\ SendToServer("bye")
  /\ reconnect' = TRUE
  /\ gen' = gen + 1
  /\ mainPc' = "select"
  /\ proto' = [proto EXCEPT ![gen + 1] = NewProto(TRUE)]
  /\ heard' = {}
  /\ UNCHANGED <<slimRx, conns, sent, losses, switches, asked>>

-----------------------------------------------------------------------------
\* What slim-proto does by itself, without waiting for the network.
ProtoStep(g) ==
  \/ BuildHello(g) \/ UseKnownAddress(g) \/ ReceiveError(g)
  \/ Forward(g) \/ HandOver(g) \/ GiveUp(g)

\* What the network decides.
NetworkStep(g) ==
  \/ DiscoverHit(g) \/ DiscoverMiss(g) \/ ConnectOk(g) \/ ConnectFail(g)
  \/ ReceiveMessage(g) \/ ReceiveServ(g)

WriterStep(c) == Write(c) \/ WriterEnds(c)

Handle == HandleMessage \/ HandleOver

MainStep == Handle \/ Tick \/ PlayerStatus \/ FinishSend \/ Restart

Next ==
  \/ \E g \in Gens : ProtoStep(g) \/ NetworkStep(g)
  \/ \E c \in DOMAIN conns : WriterStep(c) \/ LoseLink(c)
  \/ MainStep

Spec == Init /\ [][Next]_vars

(***************************************************************************)
(* Threads are scheduled fairly.  Select picks at random among the ready   *)
(* channels, so a waiting message is handled although player messages keep *)
(* coming (strong fairness of Handle).  The network is good in the long    *)
(* run: a lookup or a connection that is tried again and again succeeds.   *)
(***************************************************************************)
MaxConns == 1 + MaxLosses + 2 * MaxSwitches

Fairness ==
  /\ \A g \in Gens : WF_vars(ProtoStep(g)) /\ SF_vars(DiscoverHit(g)) /\ SF_vars(ConnectOk(g))
  /\ \A c \in 1 .. MaxConns : WF_vars(c \in DOMAIN conns /\ WriterStep(c))
  /\ WF_vars(MainStep) /\ SF_vars(Handle)

LiveSpec == Spec /\ Fairness

-----------------------------------------------------------------------------
(* What must hold                                                          *)

Message == [kind : Kinds \cup {"none"}, conn : 0 .. MaxConns]
Proto ==
  [pc : {"absent", "hello", "find", "connect", "serve", "forward", "handover", "lost", "done"},
   conn : 0 .. MaxConns, next : Servers \cup {NoServer},
   reconnect : BOOLEAN, helo : BOOLEAN, target : Servers \cup {NoServer}, msg : Message]
Connection ==
  [gen : Gens, server : Servers, helo : BOOLEAN, link : {"up", "down"}, writer : {"waiting", "done"}]

\* A channel made by bounded(1).
Channel(S) == {<< >>} \cup {<<m>> : m \in S}

\* Types, and the channels never hold more than bounded(1) allows.
TypeOK ==
  /\ gen \in Gens /\ reconnect \in BOOLEAN /\ mainPc \in {"select", "status", "reply", "bye"}
  /\ slimTx \in [Gens -> Channel({"status", "reply", "bye"})]
  /\ slimRx \in [Gens -> Channel(Message)]
  /\ proto \in [Gens -> Proto]
  /\ conns \in Seq(Connection) /\ Len(conns) <= MaxConns
  /\ sent \in 0 .. MaxMessages /\ losses \in 0 .. MaxLosses /\ switches \in 0 .. MaxSwitches
  /\ heard \subseteq 1 .. MaxConns /\ asked \in [Gens -> Servers \cup {NoServer}]

\* main's receive never fails: a slim-proto thread only ends after its None
\* has been put where main will find it, so main restarts instead of leaving
\* the process with a RecvError (main.rs:201).
NeverOrphaned ==
  proto[gen].pc = "done" => mainPc = "bye" \/ \E i \in DOMAIN slimRx[gen] : slimRx[gen][i] = Over

\* The HELO says "reconnect" on every connection of the process but the first,
\* whoever made it: main after a loss, or slim-proto after a Serv message.
HeloHonest == \A c \in DOMAIN conns : conns[c].helo = (c # 1)

\* main acts only on the first connection of its generation: what a connection
\* opened after a Serv message says never reaches a main loop, neither the one
\* it does not belong to nor a later one.
MainHearsOneConnection ==
  \A c \in heard : conns[c].gen = gen /\ \A b \in 1 .. c - 1 : conns[b].gen # gen

\* "Main reconnect loop -- restarts whenever the server connection is lost"
\* (main.rs:144): a generation that is looking for a server, or has just lost
\* it, is followed by one that is being served.
Reconnects ==
  proto[gen].pc \in {"hello", "lost"} ~> proto[gen].pc \in {"serve", "forward"}

\* main waits for room in slim_tx, nobody is there to make it, and slim-proto,
\* which would start a writer or tell main of the loss, waits for main: either
\* for STATUS, or for room in slim_rx.
Stuck ==
  /\ mainPc # "select" /\ ~Room(slimTx[gen])
  /\ \A c \in DOMAIN conns : conns[c].gen = gen => conns[c].writer = "done"
  /\ \/ mainPc = "status" /\ proto[gen].pc = "hello"
     \/ proto[gen].pc \in {"forward", "handover", "lost"} /\ ~Room(slimRx[gen])

\* The same, with everything allowed to fail: a session is followed by the
\* next one unless main and slim-proto wait for each other in one of these two
\* ways; there is no third.
ReconnectsUnlessStuck ==
  proto[gen].pc \in {"hello", "lost"} ~> proto[gen].pc \in {"serve", "forward"} \/ Stuck

\* The writers of a generation that is over end, so no thread and no socket
\* half is left behind (proto.rs:104).  There are finitely many connections and
\* a writer that has ended stays so: this is one leads-to per connection.
WritersRetire ==
  <>[](\A c \in DOMAIN conns : conns[c].gen < gen => conns[c].writer = "done")

\* "The reconnect loop allows us to reconnect to a different server when a
\* Serv message is received" (proto.rs:34): the connection that main uses
\* after a Serv message is one to the server that was named.
SwitchFollowed ==
  \A c \in DOMAIN conns :
    LET g == conns[c].gen
    IN  (g > 1 /\ g = gen) => asked[g - 1] \in {NoServer, conns[c].server}

=============================================================================
