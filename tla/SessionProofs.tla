---------------------------- MODULE SessionProofs ----------------------------
(***************************************************************************)
(* Proofs about Session, for any servers and any number of messages,       *)
(* losses and hand-overs: main is never left without its None, the HELO is *)
(* honest, and main hears one connection per generation.                   *)
(*                                                                         *)
(* A slim-proto thread that has been handed over goes on beside the thread *)
(* of the next generation, so the invariant is about all threads.  What    *)
(* keeps the late ones from main is the None: while it waits in slim_rx,   *)
(* whose capacity is one, nothing else gets in, and once main has taken it *)
(* main reads that channel no more.                                        *)
(***************************************************************************)
EXTENDS Session, FiniteSetTheorems, SequenceTheorems, TLAPS

\* The connection c is the first one of generation g.
First(c, g) ==
  c \in DOMAIN conns /\ conns[c].gen = g /\ \A b \in 1 .. c - 1 : conns[b].gen # g

\* main has taken the None of its generation, or will as the next message.
Told == mainPc = "bye" \/ slimRx[gen] = <<Over>>

Early   == {"hello", "find", "connect"}
Pending == Early \cup {"handover"}
Late    == {"serve", "forward", "handover", "lost", "done"}

\* The threads that have a connection to make.
Seeking == {g \in Gens : proto[g].pc \in Pending}

\* The generations that had a Serv message, or lost a connection.
Caused ==
  {g \in Gens : \/ asked[g] # NoServer
                \/ \E c \in DOMAIN conns : conns[c].gen = g /\ conns[c].link = "down"}

\* Nothing of a later generation is there yet.
FutureInv ==
  /\ \A g \in Gens : g > gen => proto[g] = Absent /\ slimRx[g] = << >>
  /\ \A c \in DOMAIN conns : conns[c].gen <= gen

\* A slim-proto thread: it serves a connection of its own, forwards what that
\* one said, and builds an honest HELO.
ThreadOK(g, p) ==
  /\ p.pc \in Late => p.conn \in DOMAIN conns /\ conns[p.conn].gen = g
  /\ p.pc = "forward" => p.msg.kind \in Kinds /\ p.msg.conn = p.conn
  /\ p.pc = "lost" => conns[p.conn].link = "down"
  /\ p.pc = "connect" => p.target \in Servers
  /\ p.pc \in {"find", "connect"} => p.helo = p.reconnect
  /\ p.pc \in Pending => (p.reconnect <=> (conns # << >>))
  /\ g = gen /\ p.pc = "handover" => asked[g] # NoServer

ThreadInv == \A g \in Gens : ThreadOK(g, proto[g])

\* Before the first connection.
StartInv == conns = << >> => gen = 1 /\ mainPc # "bye" /\ slimRx[gen] = << >>

\* A generation ends for a cause, and causes are bounded.
CauseInv ==
  /\ Cardinality(Caused) <= losses + switches
  /\ \A g \in Gens : g < gen => g \in Caused
  /\ mainPc = "bye" => gen \in Caused
  /\ slimRx[gen] # << >> /\ Head(slimRx[gen]).kind = "none" => gen \in Caused

\* Each generation makes one connection, and one more for each Serv message.
CountInv == Len(conns) + Cardinality(Seeking) <= gen + switches

\* What main has heard, and what it will read next.
HeardInv == \A c \in heard : First(c, gen)
ReadInv ==
  mainPc # "bye" /\ slimRx[gen] # << >> =>
    Head(slimRx[gen]).kind = "none" \/ First(Head(slimRx[gen]).conn, gen)

\* Until main is told, its thread is at its first connection.
AheadInv ==
  /\ proto[gen].pc \in Early => Told \/ \A c \in DOMAIN conns : conns[c].gen # gen
  /\ proto[gen].pc \in {"serve", "forward", "handover", "lost"} => Told \/ First(proto[gen].conn, gen)
  /\ proto[gen].pc = "done" => Told

IInv ==
  /\ TypeOK
  /\ FutureInv /\ ThreadInv /\ StartInv
  /\ CauseInv /\ CountInv
  /\ HeloHonest
  /\ HeardInv /\ ReadInv /\ AheadInv

-----------------------------------------------------------------------------
(* Channels, generations and connections                                   *)

\* A channel of capacity one is empty or holds one message.
LEMMA ChannelParts ==
  ASSUME NEW S, NEW q \in Channel(S)
  PROVE  /\ q # << >> => q = <<Head(q)>> /\ Head(q) \in S /\ Tail(q) = << >>
         /\ Room(q) => q = << >>
         /\ \A m \in S : <<m>> \in Channel(S)
         /\ << >> \in Channel(S)
<1>1. q = << >> \/ \E m \in S : q = <<m>>
  BY DEF Channel
<1>2. CASE q = << >>
  BY <1>2 DEF Channel
<1>3. CASE \E m \in S : q = <<m>>
  <2>1. PICK m \in S : q = <<m>>
    BY <1>3
  <2>2. Head(q) = m /\ Tail(q) = << >> /\ Len(q) = 1
    BY <2>1
  <2> QED
    BY <2>1, <2>2 DEF Channel, Room
<1> QED
  BY <1>1, <1>2, <1>3

\* A message put into the empty channel.
LEMMA ChannelSend ==
  ASSUME NEW m
  PROVE  /\ Append(<< >>, m) = <<m>> /\ <<m>> # << >> /\ Head(<<m>>) = m
         /\ \A n : <<m>> = <<n>> => m = n
OBVIOUS

\* Generations are numbers, and there are finitely many.
LEMMA GensFacts ==
  /\ IsFiniteSet(Gens) /\ Gens \subseteq Nat /\ 1 \in Gens
  /\ MaxConns \in Nat /\ MaxLosses \in Nat /\ MaxSwitches \in Nat /\ MaxMessages \in Nat
  /\ \A g \in Gens : g \in Nat /\ g >= 1 /\ g <= 1 + MaxLosses + MaxSwitches
<1>1. MaxLosses \in Nat /\ MaxSwitches \in Nat /\ MaxMessages \in Nat
  BY SessionAssumption
<1>2. IsFiniteSet(Gens)
  BY <1>1, FS_Interval DEF Gens
<1> QED
  BY <1>1, <1>2 DEF Gens, MaxConns

\* The sets that are counted are finite.
LEMMA Finite ==
  /\ IsFiniteSet(Caused) /\ IsFiniteSet(Seeking)
  /\ Cardinality(Caused) \in Nat /\ Cardinality(Seeking) \in Nat
<1>1. IsFiniteSet(Caused) /\ IsFiniteSet(Seeking)
  BY GensFacts, FS_Subset DEF Caused, Seeking
<1> QED
  BY <1>1, FS_CardinalityType

\* They are finite after the step, too.
LEMMA FinitePrimed ==
  /\ IsFiniteSet(Caused') /\ IsFiniteSet(Seeking')
  /\ Cardinality(Caused') \in Nat /\ Cardinality(Seeking') \in Nat
<1>1. IsFiniteSet(Caused') /\ IsFiniteSet(Seeking')
  BY GensFacts, FS_Subset DEF Caused, Seeking
<1> QED
  BY <1>1, FS_CardinalityType

\* A finite set that gains at most one element.
LEMMA OneMore ==
  ASSUME NEW S, NEW T, NEW x, IsFiniteSet(S), T \subseteq S \cup {x}
  PROVE  Cardinality(T) <= Cardinality(S) + 1
<1>1. /\ IsFiniteSet(S \cup {x})
      /\ Cardinality(S \cup {x}) = IF x \in S THEN Cardinality(S) ELSE Cardinality(S) + 1
  BY FS_AddElement
<1>2. Cardinality(S) \in Nat
  BY FS_CardinalityType
<1>3. Cardinality(T) \in Nat /\ Cardinality(T) <= Cardinality(S \cup {x})
  BY <1>1, FS_Subset, FS_CardinalityType
<1> QED
  BY <1>1, <1>2, <1>3

\* The connections as a sequence.
LEMMA ConnsFacts ==
  ASSUME IInv
  PROVE  /\ conns \in Seq(Connection) /\ Len(conns) \in Nat /\ DOMAIN conns = 1 .. Len(conns)
         /\ (conns = << >>) <=> (Len(conns) = 0)
         /\ \A c \in DOMAIN conns : conns[c] \in Connection
BY LenProperties, EmptySeq DEF IInv, TypeOK

\* How many connections and generations there can be: a generation that is
\* over, or about to be, has its own cause.
LEMMA GenBound ==
  ASSUME IInv
  PROVE  /\ gen <= 1 + losses + switches
         /\ mainPc = "bye" => gen <= losses + switches
         /\ losses \in 0 .. MaxLosses /\ switches \in 0 .. MaxSwitches
         /\ gen \in Nat /\ gen >= 1 /\ losses \in Nat /\ switches \in Nat
<1>1. /\ losses \in 0 .. MaxLosses /\ switches \in 0 .. MaxSwitches /\ gen \in Gens
      /\ gen \in Nat /\ gen >= 1 /\ losses \in Nat /\ switches \in Nat
  BY GensFacts DEF IInv, TypeOK
<1>2. ASSUME NEW n \in Nat, n <= gen, \A g \in 1 .. n : g \in Caused
      PROVE  n <= losses + switches
  <2>1. 1 .. n \subseteq Caused
    BY <1>2
  <2>2. Cardinality(1 .. n) = n
    BY FS_Interval
  <2>3. Cardinality(1 .. n) <= Cardinality(Caused)
    BY <2>1, Finite, FS_Subset
  <2> QED
    BY <1>1, <2>2, <2>3, Finite DEF IInv, CauseInv
<1>3. gen - 1 \in Nat /\ gen - 1 <= gen /\ \A g \in 1 .. gen - 1 : g \in Gens /\ g < gen
  BY <1>1, GensFacts DEF Gens
<1>4. gen - 1 <= losses + switches
  BY <1>2, <1>3 DEF IInv, CauseInv
<1>5. ASSUME mainPc = "bye" PROVE gen <= losses + switches
  <2>1. \A g \in 1 .. gen : g \in 1 .. gen - 1 \/ g = gen
    BY <1>1
  <2>2. \A g \in 1 .. gen : g \in Caused
    BY <1>3, <1>5, <2>1 DEF IInv, CauseInv
  <2> QED
    BY <1>1, <1>2, <2>2
<1> QED
  BY <1>1, <1>4, <1>5

-----------------------------------------------------------------------------
(* The invariant holds at first                                            *)

\* One slim-proto thread, no connection, nothing in the channels.
LEMMA InitIInv == Init => IInv
<1> SUFFICES ASSUME Init PROVE IInv
  OBVIOUS
<1>1. /\ gen = 1 /\ reconnect = FALSE /\ mainPc = "select"
      /\ slimTx = [g \in Gens |-> << >>] /\ slimRx = [g \in Gens |-> << >>]
      /\ proto = [g \in Gens |-> IF g = 1 THEN NewProto(FALSE) ELSE Absent]
      /\ conns = << >>
      /\ sent = 0 /\ losses = 0 /\ switches = 0 /\ heard = {}
      /\ asked = [g \in Gens |-> NoServer]
  BY DEF Init
<1>2. NewProto(FALSE) \in Proto /\ Absent \in Proto
  <2>1. Over \in Message
    BY GensFacts DEF Message, Over
  <2>2. NewProto(FALSE) \in Proto
    BY <2>1, GensFacts DEF NewProto, Proto
  <2>3. Absent \in Proto
    BY <2>2 DEF Absent, Proto
  <2> QED
    BY <2>2, <2>3
<1>3. DOMAIN conns = {} /\ Len(conns) = 0 /\ conns \in Seq(Connection)
  BY <1>1, EmptySeq
<1>4. TypeOK
  <2>1. slimTx \in [Gens -> Channel({"status", "reply", "bye"})] /\ slimRx \in [Gens -> Channel(Message)]
    BY <1>1 DEF Channel
  <2>2. proto \in [Gens -> Proto]
    BY <1>1, <1>2
  <2>3. asked \in [Gens -> Servers \cup {NoServer}]
    BY <1>1
  <2>4. sent \in 0 .. MaxMessages /\ losses \in 0 .. MaxLosses /\ switches \in 0 .. MaxSwitches
    BY <1>1, GensFacts
  <2>5. gen \in Gens /\ Len(conns) <= MaxConns /\ heard \subseteq 1 .. MaxConns
    BY <1>1, <1>3, GensFacts
  <2> QED
    BY <1>1, <1>3, <2>1, <2>2, <2>3, <2>4, <2>5 DEF TypeOK
<1>5. \A g \in Gens : proto[g].pc = IF g = 1 THEN "hello" ELSE "absent"
  BY <1>1 DEF NewProto, Absent
<1>6. FutureInv
  <2>1. \A g \in Gens : g > gen => g # 1
    BY <1>1, GensFacts
  <2>2. \A g \in Gens : g # 1 => proto[g] = Absent /\ slimRx[g] = << >>
    BY <1>1
  <2> QED
    BY <1>3, <2>1, <2>2 DEF FutureInv
<1>7. ThreadInv
  <2>1. proto[1].reconnect = FALSE
    BY <1>1, GensFacts DEF NewProto
  <2> QED
    BY <1>1, <1>5, <2>1 DEF ThreadInv, ThreadOK, Late, Pending, Early
<1>8. StartInv
  BY <1>1, GensFacts DEF StartInv
<1>9. CauseInv
  <2>1. Caused = {}
    BY <1>1, <1>3 DEF Caused
  <2>2. Cardinality(Caused) = 0
    BY <2>1, FS_EmptySet
  <2> QED
    BY <1>1, <2>2, GensFacts DEF CauseInv
<1>10. CountInv
  <2>1. Seeking \subseteq {} \cup {1}
    BY <1>5 DEF Seeking, Pending, Early
  <2>2. Cardinality(Seeking) <= Cardinality({}) + 1 /\ Cardinality({}) = 0
    BY <2>1, OneMore, FS_EmptySet
  <2> QED
    BY <1>1, <1>3, <2>2, Finite DEF CountInv
<1>11. HeloHonest /\ HeardInv
  BY <1>1, <1>3 DEF HeloHonest, HeardInv
<1>12. ReadInv
  BY <1>1, GensFacts DEF ReadInv
<1>13. AheadInv
  BY <1>1, <1>3, <1>5, GensFacts DEF AheadInv, Early
<1> QED
  BY <1>4, <1>6, <1>7, <1>8, <1>9, <1>10, <1>11, <1>12, <1>13 DEF IInv

-----------------------------------------------------------------------------
(* slim-proto by itself                                                    *)

\* A thread as a record, and one field or another of it changed.
LEMMA ProtoFields ==
  ASSUME NEW p \in Proto
  PROVE  /\ p.pc \in {"absent", "hello", "find", "connect", "serve", "forward", "handover",
                      "lost", "done"}
         /\ p.conn \in 0 .. MaxConns /\ p.next \in Servers \cup {NoServer}
         /\ p.reconnect \in BOOLEAN /\ p.helo \in BOOLEAN
         /\ p.target \in Servers \cup {NoServer} /\ p.msg \in Message
BY DEF Proto

\* The thread of g becomes p and the others stay.
LEMMA OneThread ==
  ASSUME IInv, NEW g \in Gens, NEW p \in Proto, proto' = [proto EXCEPT ![g] = p]
  PROVE  /\ proto' \in [Gens -> Proto]
         /\ \A h \in Gens : proto'[h] = IF h = g THEN p ELSE proto[h]
BY DEF IInv, TypeOK

\* A thread that moves on and stays on the same side of its connection: what
\* BuildHello, finding an address, a failed lookup, a received message and a
\* noticed loss have in common.
LEMMA MoveOn ==
  ASSUME IInv, NEW g \in Gens, NEW p \in Proto, proto' = [proto EXCEPT ![g] = p],
         proto[g].pc \notin {"absent", "done"}, p.pc \notin {"absent", "done", "handover"},
         (p.pc \in Early) <=> (proto[g].pc \in Early), p.conn = proto[g].conn,
         ThreadOK(g, p), sent' \in 0 .. MaxMessages,
         UNCHANGED <<mainVars, slimTx, slimRx, conns, losses, switches, heard, asked>>
  PROVE  IInv'
<1>1. UNCHANGED <<gen, reconnect, mainPc, slimTx, slimRx, conns, losses, switches, heard, asked>>
  BY DEF mainVars
<1>2. /\ proto' \in [Gens -> Proto]
      /\ \A h \in Gens : proto'[h] = IF h = g THEN p ELSE proto[h]
  BY OneThread
<1>3. TypeOK'
  BY <1>1, <1>2 DEF IInv, TypeOK
<1>4. gen \in Gens
  BY DEF IInv, TypeOK
<1>5. FutureInv'
  <2>1. ~(g > gen)
    BY DEF IInv, FutureInv, Absent, NewProto
  <2> QED
    BY <1>1, <1>2, <2>1 DEF IInv, FutureInv
<1>6. ThreadInv'
  BY <1>1, <1>2 DEF IInv, ThreadInv, ThreadOK
<1>7. StartInv' /\ HeloHonest' /\ HeardInv' /\ ReadInv'
  BY <1>1 DEF IInv, StartInv, HeloHonest, HeardInv, ReadInv, First
<1>8. CauseInv'
  <2>1. Caused' = Caused
    BY <1>1 DEF Caused
  <2> QED
    BY <1>1, <2>1 DEF IInv, CauseInv
<1>9. CountInv'
  <2>1. Seeking' \subseteq Seeking
    BY <1>2 DEF Seeking, Pending, Early
  <2>2. Cardinality(Seeking') <= Cardinality(Seeking)
    BY <2>1, Finite, FS_Subset
  <2> QED
    BY <1>1, <2>2, Finite, FinitePrimed, ConnsFacts, GenBound DEF IInv, CountInv
<1>10. AheadInv'
  <2>1. Told' = Told
    BY <1>1 DEF Told
  <2>2. \A c, h : First(c, h)' <=> First(c, h)
    BY <1>1 DEF First
  <2>3. proto[g].pc \in Early \cup {"serve", "forward", "handover", "lost"}
    BY ProtoFields DEF IInv, TypeOK, Early
  <2>4. CASE g = gen
    BY <1>1, <1>2, <1>4, <2>1, <2>2, <2>3, <2>4 DEF IInv, AheadInv, Early
  <2>5. CASE g # gen
    BY <1>1, <1>2, <1>4, <2>1, <2>2, <2>5 DEF IInv, AheadInv
  <2> QED
    BY <2>4, <2>5
<1> QED
  BY <1>3, <1>5, <1>6, <1>7, <1>8, <1>9, <1>10 DEF IInv

\* The HELO carries the thread's reconnect flag.
LEMMA BuildHelloStep ==
  ASSUME IInv, NEW g \in Gens, BuildHello(g)
  PROVE  IInv'
<1> DEFINE p == [proto[g] EXCEPT !.pc = "find", !.helo = proto[g].reconnect]
<1>1. proto[g] \in Proto /\ proto \in [Gens -> Proto] /\ sent \in 0 .. MaxMessages
  BY DEF IInv, TypeOK
<1>2. proto[g].pc = "hello" /\ proto' = [proto EXCEPT ![g] = p]
  BY <1>1 DEF BuildHello
<1>3. UNCHANGED <<mainVars, slimTx, slimRx, conns, sent, losses, switches, heard, asked>>
  BY DEF BuildHello, history
<1>4. /\ p \in Proto /\ p.pc = "find" /\ p.helo = p.reconnect /\ p.conn = proto[g].conn
      /\ p.reconnect = proto[g].reconnect
  BY <1>1 DEF Proto
<1> HIDE DEF p
<1>5. ThreadOK(g, p)
  BY <1>2, <1>4 DEF IInv, ThreadInv, ThreadOK, Early, Pending, Late
<1>6. proto[g].pc \in Early /\ p.pc \in Early
  BY <1>2, <1>4 DEF Early
<1> QED
  BY <1>1, <1>2, <1>3, <1>4, <1>5, <1>6, MoveOn

\* The address is known, or discovery finds one.
LEMMA FindStep ==
  ASSUME IInv, NEW g \in Gens, UseKnownAddress(g) \/ DiscoverHit(g)
  PROVE  IInv'
<1>1. proto[g] \in Proto /\ proto \in [Gens -> Proto] /\ sent \in 0 .. MaxMessages
  BY DEF IInv, TypeOK
<1>2. PICK to \in Servers, next \in Servers \cup {NoServer} :
        proto' = [proto EXCEPT ![g].pc = "connect", ![g].target = to, ![g].next = next]
  <2>1. CASE UseKnownAddress(g)
    <3>1. KnownAddress(g) \in Servers
      BY <1>1, <2>1, SessionAssumption, ProtoFields DEF UseKnownAddress, KnownAddress
    <3> QED
      BY <2>1, <3>1 DEF UseKnownAddress
  <2>2. CASE DiscoverHit(g)
    <3>1. PICK s \in Servers : proto' = [proto EXCEPT ![g].pc = "connect", ![g].target = s]
      BY <2>2 DEF DiscoverHit
    <3>2. [proto EXCEPT ![g].pc = "connect", ![g].target = s] =
            [proto EXCEPT ![g].pc = "connect", ![g].target = s, ![g].next = proto[g].next]
      BY <1>1 DEF Proto
    <3>3. proto[g].next \in Servers \cup {NoServer}
      BY <1>1, ProtoFields
    <3> QED
      BY <3>1, <3>2, <3>3
  <2> QED
    BY <2>1, <2>2
<1> DEFINE p == [proto[g] EXCEPT !.pc = "connect", !.target = to, !.next = next]
<1>3. proto[g].pc = "find" /\ proto' = [proto EXCEPT ![g] = p]
  BY <1>1, <1>2 DEF UseKnownAddress, DiscoverHit
<1>4. UNCHANGED <<mainVars, slimTx, slimRx, conns, sent, losses, switches, heard, asked>>
  BY DEF UseKnownAddress, DiscoverHit, history
<1>5. /\ p \in Proto /\ p.pc = "connect" /\ p.helo = proto[g].helo /\ p.conn = proto[g].conn
      /\ p.reconnect = proto[g].reconnect /\ p.target = to
  BY <1>1 DEF Proto
<1> HIDE DEF p
<1>6. ThreadOK(g, p)
  BY <1>3, <1>5 DEF IInv, ThreadInv, ThreadOK, Early, Pending, Late
<1>7. proto[g].pc \in Early /\ p.pc \in Early
  BY <1>3, <1>5 DEF Early
<1> QED
  BY <1>1, <1>3, <1>4, <1>5, <1>6, <1>7, MoveOn

\* Discovery or connecting fails: round the loop again.
LEMMA FailStep ==
  ASSUME IInv, NEW g \in Gens, DiscoverMiss(g) \/ ConnectFail(g)
  PROVE  IInv'
<1>1. proto[g] \in Proto /\ proto \in [Gens -> Proto] /\ sent \in 0 .. MaxMessages
  BY DEF IInv, TypeOK
<1>2. PICK p \in Proto :
        /\ proto' = [proto EXCEPT ![g] = p]
        /\ p.pc = "hello" /\ p.conn = proto[g].conn /\ p.reconnect = proto[g].reconnect
  <2>1. CASE DiscoverMiss(g)
    <3> DEFINE q == [proto[g] EXCEPT !.pc = "hello", !.helo = FALSE]
    <3>1. proto' = [proto EXCEPT ![g] = q]
      BY <1>1, <2>1 DEF DiscoverMiss
    <3>2. q \in Proto /\ q.pc = "hello" /\ q.conn = proto[g].conn /\ q.reconnect = proto[g].reconnect
      BY <1>1 DEF Proto
    <3> QED
      BY <3>1, <3>2
  <2>2. CASE ConnectFail(g)
    <3> DEFINE q == [proto[g] EXCEPT !.pc = "hello", !.next = proto[g].target,
                                     !.target = NoServer, !.helo = FALSE]
    <3>1. proto' = [proto EXCEPT ![g] = q]
      BY <1>1, <2>2 DEF ConnectFail
    <3>2. q \in Proto /\ q.pc = "hello" /\ q.conn = proto[g].conn /\ q.reconnect = proto[g].reconnect
      BY <1>1 DEF Proto
    <3> QED
      BY <3>1, <3>2
  <2> QED
    BY <2>1, <2>2
<1>3. proto[g].pc \in {"find", "connect"}
  BY DEF DiscoverMiss, ConnectFail
<1>4. UNCHANGED <<mainVars, slimTx, slimRx, conns, sent, losses, switches, heard, asked>>
  BY DEF DiscoverMiss, ConnectFail, history
<1>5. ThreadOK(g, p)
  BY <1>2, <1>3 DEF IInv, ThreadInv, ThreadOK, Early, Pending, Late
<1>6. proto[g].pc \in Early /\ p.pc \in Early
  BY <1>2, <1>3 DEF Early
<1> QED
  BY <1>1, <1>2, <1>3, <1>4, <1>5, <1>6, MoveOn

\* A message of the server is in the thread's hands.
LEMMA ReceiveMessageStep ==
  ASSUME IInv, NEW g \in Gens, ReceiveMessage(g)
  PROVE  IInv'
<1>1. proto[g] \in Proto /\ proto \in [Gens -> Proto]
  BY DEF IInv, TypeOK
<1>2. PICK k \in Kinds :
        proto' = [proto EXCEPT ![g].pc = "forward", ![g].msg = [kind |-> k, conn |-> proto[g].conn]]
  BY DEF ReceiveMessage
<1> DEFINE m == [kind |-> k, conn |-> proto[g].conn]
           p == [proto[g] EXCEPT !.pc = "forward", !.msg = m]
<1>3. proto[g].pc = "serve" /\ proto' = [proto EXCEPT ![g] = p]
  BY <1>1, <1>2 DEF ReceiveMessage
<1>4. m \in Message /\ m.kind = k /\ m.conn = proto[g].conn
  BY <1>1, ProtoFields DEF Message
<1> HIDE DEF m
<1>5. p \in Proto /\ p.pc = "forward" /\ p.conn = proto[g].conn /\ p.msg = m
  BY <1>1, <1>4 DEF Proto
<1> HIDE DEF p
<1>6. UNCHANGED <<mainVars, slimTx, slimRx, conns, losses, switches, heard, asked>>
  BY DEF ReceiveMessage
<1>7. sent' \in 0 .. MaxMessages
  BY GensFacts, SMTT(30) DEF ReceiveMessage, IInv, TypeOK
<1>8. ThreadOK(g, p)
  BY <1>3, <1>4, <1>5 DEF IInv, ThreadInv, ThreadOK, Early, Pending, Late
<1>9. proto[g].pc \notin Early /\ p.pc \notin Early
  BY <1>3, <1>5 DEF Early
<1> QED
  BY <1>3, <1>5, <1>6, <1>7, <1>8, <1>9, MoveOn

\* The loss is noticed.
LEMMA ReceiveErrorStep ==
  ASSUME IInv, NEW g \in Gens, ReceiveError(g)
  PROVE  IInv'
<1> DEFINE p == [proto[g] EXCEPT !.pc = "lost"]
<1>1. proto[g] \in Proto /\ proto \in [Gens -> Proto] /\ sent \in 0 .. MaxMessages
  BY DEF IInv, TypeOK
<1>2. /\ proto[g].pc = "serve" /\ conns[proto[g].conn].link = "down"
      /\ proto' = [proto EXCEPT ![g] = p]
  BY <1>1 DEF ReceiveError
<1>3. UNCHANGED <<mainVars, slimTx, slimRx, conns, sent, losses, switches, heard, asked>>
  BY DEF ReceiveError, history
<1>4. p \in Proto /\ p.pc = "lost" /\ p.conn = proto[g].conn
  BY <1>1 DEF Proto
<1> HIDE DEF p
<1>5. ThreadOK(g, p)
  BY <1>2, <1>4 DEF IInv, ThreadInv, ThreadOK, Early, Pending, Late
<1>6. proto[g].pc \notin Early /\ p.pc \notin Early
  BY <1>2, <1>4 DEF Early
<1> QED
  BY <1>1, <1>2, <1>3, <1>4, <1>5, <1>6, MoveOn

\* A Serv message: the thread will tell main and look for the other server.
LEMMA ReceiveServStep ==
  ASSUME IInv, NEW g \in Gens, ReceiveServ(g)
  PROVE  IInv'
<1>1. proto[g] \in Proto /\ proto \in [Gens -> Proto]
  BY DEF IInv, TypeOK
<1>2. PICK s \in Servers :
        /\ proto' = [proto EXCEPT ![g].pc = "handover", ![g].next = s, ![g].reconnect = TRUE]
        /\ asked' = IF Current(g) /\ asked[g] = NoServer THEN [asked EXCEPT ![g] = s] ELSE asked
  BY DEF ReceiveServ
<1> DEFINE p == [proto[g] EXCEPT !.pc = "handover", !.next = s, !.reconnect = TRUE]
<1>3. proto[g].pc = "serve" /\ proto' = [proto EXCEPT ![g] = p]
  BY <1>1, <1>2 DEF ReceiveServ
<1>4. UNCHANGED <<gen, reconnect, mainPc, slimTx, slimRx, conns, sent, losses, heard>>
  BY DEF ReceiveServ, mainVars
<1>5. switches < MaxSwitches /\ switches' = switches + 1 /\ s # NoServer
  BY SessionAssumption DEF ReceiveServ
<1>6. p \in Proto /\ p.pc = "handover" /\ p.conn = proto[g].conn /\ p.reconnect = TRUE
  BY <1>1 DEF Proto
<1> HIDE DEF p
<1>7. /\ proto' \in [Gens -> Proto]
      /\ \A h \in Gens : proto'[h] = IF h = g THEN p ELSE proto[h]
  BY <1>3, <1>6, OneThread
<1>8. asked \in [Gens -> Servers \cup {NoServer}] /\ gen \in Gens
  BY DEF IInv, TypeOK
<1>9. /\ asked' \in [Gens -> Servers \cup {NoServer}]
      /\ \A h \in Gens : h # g => asked'[h] = asked[h]
      /\ asked[g] # NoServer => asked'[g] # NoServer
      /\ g = gen => asked'[g] # NoServer
  BY <1>2, <1>5, <1>8 DEF Current
<1>10. TypeOK'
  <2>1. switches' \in 0 .. MaxSwitches
    BY <1>5, GensFacts DEF IInv, TypeOK
  <2> QED
    BY <1>4, <1>7, <1>9, <2>1 DEF IInv, TypeOK
<1>11. FutureInv'
  <2>1. ~(g > gen)
    BY <1>3 DEF IInv, FutureInv, Absent, NewProto
  <2> QED
    BY <1>4, <1>7, <2>1 DEF IInv, FutureInv
<1>12. proto[g].conn \in DOMAIN conns /\ conns[proto[g].conn].gen = g
  BY <1>3 DEF IInv, ThreadInv, ThreadOK, Late
<1>13. ThreadInv'
  <2>1. conns # << >>
    BY <1>12, ConnsFacts
  <2>2. \A h \in Gens : h # g => ThreadOK(h, proto[h])'
    BY <1>4, <1>7, <1>9 DEF IInv, ThreadInv, ThreadOK
  <2> QED
    BY <1>4, <1>6, <1>7, <1>9, <1>12, <2>1, <2>2 DEF ThreadInv, ThreadOK, Late
<1>14. StartInv' /\ HeloHonest' /\ HeardInv' /\ ReadInv'
  BY <1>4 DEF IInv, StartInv, HeloHonest, HeardInv, ReadInv, First
<1>15. CauseInv'
  <2>1. Caused' \subseteq Caused \cup {g} /\ Caused \subseteq Caused'
    BY <1>4, <1>9 DEF Caused
  <2>2. Cardinality(Caused') <= Cardinality(Caused) + 1
    BY <2>1, Finite, OneMore
  <2>3. Cardinality(Caused') <= losses' + switches'
    BY <1>4, <1>5, <2>2, Finite, FinitePrimed, GenBound, SMTT(30) DEF IInv, CauseInv
  <2> QED
    BY <1>4, <2>1, <2>3 DEF IInv, CauseInv
<1>16. CountInv'
  <2>1. Seeking' \subseteq Seeking \cup {g}
    BY <1>7 DEF Seeking
  <2>2. Cardinality(Seeking') <= Cardinality(Seeking) + 1
    BY <2>1, Finite, OneMore
  <2> QED
    BY <1>4, <1>5, <2>2, Finite, FinitePrimed, ConnsFacts, GenBound, SMTT(30) DEF IInv, CountInv
<1>17. AheadInv'
  <2>1. Told' = Told
    BY <1>4 DEF Told
  <2>2. \A c, h : First(c, h)' <=> First(c, h)
    BY <1>4 DEF First
  <2> QED
    BY <1>3, <1>4, <1>6, <1>7, <1>8, <2>1, <2>2 DEF IInv, AheadInv, Early
<1> QED
  BY <1>10, <1>11, <1>13, <1>14, <1>15, <1>16, <1>17 DEF IInv

\* The thread has its connection: the first of its generation, unless main
\* knows that this generation is over.
LEMMA ConnectOkStep ==
  ASSUME IInv, NEW g \in Gens, ConnectOk(g)
  PROVE  IInv'
<1> DEFINE n == Len(conns) + 1
           r == [gen |-> g, server |-> proto[g].target, helo |-> proto[g].helo,
                 link |-> "up", writer |-> "waiting"]
           p == [proto[g] EXCEPT !.pc = "serve", !.conn = n, !.target = NoServer, !.helo = FALSE]
<1>1. proto[g] \in Proto /\ proto \in [Gens -> Proto] /\ gen \in Gens
  BY DEF IInv, TypeOK
<1>2. proto[g].pc = "connect" /\ conns' = Append(conns, r) /\ proto' = [proto EXCEPT ![g] = p]
  BY <1>1 DEF ConnectOk
<1>3. UNCHANGED <<gen, reconnect, mainPc, slimTx, slimRx, sent, losses, switches, heard, asked>>
  BY DEF ConnectOk, mainVars, history
<1>4. /\ proto[g].target \in Servers /\ proto[g].helo = proto[g].reconnect
      /\ proto[g].reconnect <=> (conns # << >>)
      /\ proto[g].reconnect \in BOOLEAN
  BY <1>1, <1>2, ProtoFields DEF IInv, ThreadInv, ThreadOK, Pending, Early
<1>5. /\ r \in Connection /\ r.gen = g /\ r.helo = proto[g].helo /\ r.link = "up"
  BY <1>1, <1>4, ProtoFields DEF Connection
<1>6. /\ conns \in Seq(Connection) /\ Len(conns) \in Nat /\ DOMAIN conns = 1 .. Len(conns)
      /\ (conns = << >>) <=> (Len(conns) = 0)
  BY ConnsFacts
<1> HIDE DEF r
<1>7. /\ conns' \in Seq(Connection) /\ Len(conns') = n /\ DOMAIN conns' = 1 .. n
      /\ \A c \in DOMAIN conns : conns'[c] = conns[c] /\ c \in DOMAIN conns' /\ c # n
      /\ \A c \in DOMAIN conns' : c \in DOMAIN conns \/ c = n
      /\ conns'[n] = r /\ n \in DOMAIN conns' /\ conns' # << >>
  <2>1. /\ conns' \in Seq(Connection) /\ Len(conns') = n
        /\ \A i \in 1 .. Len(conns) : conns'[i] = conns[i]
        /\ conns'[n] = r
    BY <1>2, <1>5, <1>6, AppendProperties
  <2>2. DOMAIN conns' = 1 .. n /\ n \in Nat /\ n # 0
    BY <1>6, <2>1, LenProperties
  <2> QED
    BY <1>6, <2>1, <2>2, EmptySeq
<1>8. n <= MaxConns /\ Len(conns) + Cardinality(Seeking) <= gen + switches /\ Cardinality(Seeking) >= 1
  <2>1. g \in Seeking
    BY <1>2 DEF Seeking, Pending, Early
  <2>2. Cardinality(Seeking \ {g}) = Cardinality(Seeking) - 1 /\ IsFiniteSet(Seeking \ {g})
    BY <2>1, Finite, FS_RemoveElement
  <2>3. Cardinality(Seeking) >= 1
    BY <2>2, Finite, FS_CardinalityType
  <2>4. Len(conns) + Cardinality(Seeking) <= gen + switches
    BY DEF IInv, CountInv
  <2>5. n <= gen + switches
    BY <1>6, <2>3, <2>4, Finite, GenBound
  <2>6. gen + switches <= 1 + MaxLosses + 2 * MaxSwitches
    BY GenBound, GensFacts
  <2> QED
    BY <1>6, <2>3, <2>4, <2>5, <2>6, GensFacts, GenBound DEF MaxConns
<1>9. p \in Proto /\ p.pc = "serve" /\ p.conn = n
  <2>1. n \in 0 .. MaxConns
    BY <1>6, <1>8, GensFacts
  <2> QED
    BY <1>1, <2>1 DEF Proto
<1> HIDE DEF p
<1>10. /\ proto' \in [Gens -> Proto]
       /\ \A h \in Gens : proto'[h] = IF h = g THEN p ELSE proto[h]
  BY <1>2, <1>9, OneThread
<1>11. ~(g > gen)
  BY <1>2 DEF IInv, FutureInv, Absent, NewProto
<1> HIDE DEF n
<1>12. TypeOK'
  BY <1>3, <1>7, <1>8, <1>10 DEF IInv, TypeOK
<1>13. FutureInv'
  <2>1. g <= gen
    BY <1>11, <1>1, GensFacts
  <2>2. \A c \in DOMAIN conns' : conns'[c].gen <= gen'
    BY <1>3, <1>5, <1>7, <2>1 DEF IInv, FutureInv
  <2>3. \A h \in Gens : h > gen' => proto'[h] = Absent /\ slimRx'[h] = << >>
    BY <1>3, <1>10, <1>11 DEF IInv, FutureInv
  <2> QED
    BY <2>2, <2>3 DEF FutureInv
<1>14. ThreadInv'
  <2>1. ASSUME NEW h \in Gens PROVE ThreadOK(h, proto[h])'
    <3>1. CASE h = g
      BY <1>5, <1>7, <1>9, <1>10, <3>1 DEF ThreadOK, Late, Pending, Early
    <3>2. CASE h # g
      <4>1. proto'[h] = proto[h] /\ ThreadOK(h, proto[h])
        BY <1>10, <3>2 DEF IInv, ThreadInv
      <4>2. conns = << >> => proto[h].pc = "absent"
        <5>1. ASSUME conns = << >> PROVE proto[h] = Absent
          <6>1. gen = 1 /\ h # 1 /\ h > gen
            BY <1>1, <1>11, <3>2, <5>1, GensFacts DEF IInv, StartInv
          <6> QED
            BY <6>1 DEF IInv, FutureInv
        <5> QED
          BY <5>1 DEF Absent, NewProto
      <4> QED
        BY <1>3, <1>7, <4>1, <4>2 DEF ThreadOK, Pending, Early, Late
    <3> QED
      BY <3>1, <3>2
  <2> QED
    BY <2>1 DEF ThreadInv
<1>15. StartInv'
  BY <1>7 DEF StartInv
<1>16. HeloHonest'
  <2>1. conns'[n].helo = (n # 1)
    BY <1>4, <1>5, <1>6, <1>7 DEF n
  <2>2. \A c \in DOMAIN conns : conns'[c].helo = (c # 1)
    BY <1>7 DEF IInv, HeloHonest
  <2> QED
    BY <1>7, <2>1, <2>2 DEF HeloHonest
<1>17. Caused' = Caused
  BY <1>3, <1>5, <1>7 DEF Caused
<1>18. CauseInv'
  BY <1>3, <1>17 DEF IInv, CauseInv
<1>19. CountInv'
  <2>1. Seeking' \subseteq Seeking \ {g} /\ g \in Seeking
    BY <1>2, <1>9, <1>10 DEF Seeking, Pending, Early
  <2>2. Cardinality(Seeking \ {g}) = Cardinality(Seeking) - 1 /\ IsFiniteSet(Seeking \ {g})
    BY <2>1, Finite, FS_RemoveElement
  <2>3. Cardinality(Seeking') <= Cardinality(Seeking) - 1
    BY <2>1, <2>2, FS_Subset
  <2> QED
    BY <1>3, <1>6, <1>7, <1>8, <2>3, Finite, FinitePrimed, GenBound, SMTT(30) DEF CountInv, n
<1>20. ASSUME NEW c, NEW h, First(c, h) PROVE First(c, h)'
  <2>1. \A b \in 1 .. c - 1 : b \in DOMAIN conns
    BY <1>6, <1>20 DEF First
  <2> QED
    BY <1>7, <1>20, <2>1 DEF First
<1>21. HeardInv' /\ ReadInv'
  BY <1>3, <1>20 DEF IInv, HeardInv, ReadInv
<1>22. AheadInv'
  <2>1. Told' = Told
    BY <1>3 DEF Told
  <2>2. CASE g = gen
    <3>1. ASSUME ~Told
          PROVE  n \in DOMAIN conns' /\ conns'[n].gen = gen' /\ \A b \in 1 .. n - 1 : conns'[b].gen # gen'
      <4>1. \A c \in DOMAIN conns : conns[c].gen # gen
        BY <1>2, <2>2, <3>1 DEF IInv, AheadInv, Early
      <4>2. \A b \in 1 .. n - 1 : b \in DOMAIN conns
        BY <1>6 DEF n
      <4> QED
        BY <1>3, <1>5, <1>7, <2>2, <4>1, <4>2
    <3>2. proto'[gen'].pc = "serve" /\ proto'[gen'].conn = n
      BY <1>1, <1>3, <1>9, <1>10, <2>2
    <3>3. Told' \/ First(proto[gen].conn, gen)'
      BY <2>1, <3>1, <3>2 DEF First
    <3> QED
      BY <3>2, <3>3 DEF AheadInv, Early
  <2>3. CASE g # gen
    <3>1. \A c \in DOMAIN conns' : conns'[c].gen = gen => c \in DOMAIN conns /\ conns[c].gen = gen
      BY <1>5, <1>7, <2>3
    <3>2. proto'[gen] = proto[gen]
      BY <1>1, <1>10, <2>3
    <3> QED
      BY <1>3, <1>20, <2>1, <3>1, <3>2 DEF IInv, AheadInv
  <2> QED
    BY <2>2, <2>3
<1> QED
  BY <1>12, <1>13, <1>14, <1>15, <1>16, <1>18, <1>19, <1>21, <1>22 DEF IInv

-----------------------------------------------------------------------------
(* slim-proto tells main                                                   *)

\* A send to main: into the empty channel of main's generation, or to nobody.
LEMMA SendEffect ==
  ASSUME IInv, NEW g \in Gens, NEW m \in Message, SendToMain(g, m)
  PROVE  /\ slimRx' \in [Gens -> Channel(Message)]
         /\ \A h \in Gens : h # g \/ g # gen => slimRx'[h] = slimRx[h]
         /\ g = gen => slimRx[gen] = << >> /\ slimRx'[gen] = <<m>>
<1>1. slimRx \in [Gens -> Channel(Message)] /\ gen \in Gens
  BY DEF IInv, TypeOK
<1>2. CASE g = gen
  <2>1. Room(slimRx[g]) /\ slimRx' = [slimRx EXCEPT ![g] = Append(slimRx[g], m)]
    BY <1>2 DEF SendToMain, Current
  <2>2. slimRx[g] = << >>
    BY <1>1, <2>1, ChannelParts
  <2>3. slimRx' = [slimRx EXCEPT ![g] = <<m>>]
    BY <2>1, <2>2, ChannelSend
  <2>4. <<m>> \in Channel(Message)
    BY DEF Channel
  <2> QED
    BY <1>1, <1>2, <2>2, <2>3, <2>4
<1>3. CASE g # gen
  BY <1>1, <1>3 DEF SendToMain, Current
<1> QED
  BY <1>2, <1>3

\* A thread passes on a message of its connection, or its None: what Forward,
\* HandOver and GiveUp have in common.
LEMMA PassOn ==
  ASSUME IInv, NEW g \in Gens, NEW p \in Proto, proto' = [proto EXCEPT ![g] = p],
         NEW m \in Message, SendToMain(g, m), ThreadOK(g, p), p.conn = proto[g].conn,
         \/ proto[g].pc = "forward" /\ p.pc = "serve" /\ m.conn = proto[g].conn /\ m.kind \in Kinds
         \/ proto[g].pc = "handover" /\ p.pc = "hello" /\ m = Over
         \/ proto[g].pc = "lost" /\ p.pc = "done" /\ m = Over,
         UNCHANGED <<mainVars, slimTx, conns, history>>
  PROVE  IInv'
<1>1. UNCHANGED <<gen, reconnect, mainPc, slimTx, conns, sent, losses, switches, heard, asked>>
  BY DEF mainVars, history
<1>2. /\ proto' \in [Gens -> Proto]
      /\ \A h \in Gens : proto'[h] = IF h = g THEN p ELSE proto[h]
  BY OneThread
<1>3. /\ slimRx' \in [Gens -> Channel(Message)]
      /\ \A h \in Gens : h # g \/ g # gen => slimRx'[h] = slimRx[h]
      /\ g = gen => slimRx[gen] = << >> /\ slimRx'[gen] = <<m>>
  BY SendEffect
<1>4. /\ gen \in Gens /\ proto[g].conn \in DOMAIN conns /\ conns[proto[g].conn].gen = g
      /\ conns # << >>
  BY ConnsFacts DEF IInv, TypeOK, ThreadInv, ThreadOK, Late
<1>5. TypeOK'
  BY <1>1, <1>2, <1>3 DEF IInv, TypeOK
<1>6. FutureInv'
  <2>1. ~(g > gen)
    BY DEF IInv, FutureInv, Absent, NewProto
  <2> QED
    BY <1>1, <1>2, <1>3, <2>1 DEF IInv, FutureInv
<1>7. ThreadInv'
  BY <1>1, <1>2 DEF IInv, ThreadInv, ThreadOK
<1>8. StartInv' /\ HeloHonest' /\ HeardInv'
  BY <1>1, <1>4 DEF IInv, StartInv, HeloHonest, HeardInv, First
<1>9. m.kind = "none" /\ g = gen => gen \in Caused
  <2>1. m.kind = "none" => proto[g].pc \in {"handover", "lost"}
    BY DEF Kinds
  <2> QED
    BY <1>4, <2>1 DEF IInv, ThreadInv, ThreadOK, Caused
<1>10. CauseInv'
  <2>1. Caused' = Caused
    BY <1>1 DEF Caused
  <2>2. slimRx'[gen] # << >> /\ Head(slimRx'[gen]).kind = "none" => gen \in Caused
    <3>1. CASE g = gen
      BY <1>3, <1>9, <3>1, ChannelSend
    <3>2. CASE g # gen
      BY <1>3, <1>4, <3>2 DEF IInv, CauseInv
    <3> QED
      BY <3>1, <3>2
  <2> QED
    BY <1>1, <2>1, <2>2 DEF IInv, CauseInv
<1>11. CountInv'
  <2>1. Seeking' \subseteq Seeking
    BY <1>2 DEF Seeking, Pending, Early
  <2>2. Cardinality(Seeking') <= Cardinality(Seeking)
    BY <2>1, Finite, FS_Subset
  <2> QED
    BY <1>1, <2>2, Finite, FinitePrimed, ConnsFacts, GenBound DEF IInv, CountInv
<1>12. \A c, h : First(c, h)' <=> First(c, h)
  BY <1>1 DEF First
<1>13. CASE g = gen
  <2>1. Told => mainPc = "bye"
    BY <1>3, <1>13, ChannelSend DEF Told
  <2>2. proto[g].pc = "forward" => Told \/ First(proto[g].conn, gen)
    BY <1>13 DEF IInv, AheadInv
  <2>3. Head(slimRx'[gen]) = m
    BY <1>3, <1>13, ChannelSend
  <2>4. Over.kind = "none"
    BY DEF Over
  <2>5. ReadInv'
    <3> SUFFICES ASSUME mainPc # "bye" PROVE m.kind = "none" \/ First(m.conn, gen)
      BY <1>1, <1>12, <2>3 DEF ReadInv
    <3> QED
      BY <2>1, <2>2, <2>4
  <2>6. AheadInv'
    <3>1. proto'[gen'] = p /\ slimRx'[gen'] = <<m>>
      BY <1>1, <1>2, <1>3, <1>4, <1>13
    <3>2. CASE m = Over
      BY <3>1, <3>2 DEF AheadInv, Told
    <3>3. CASE p.pc = "serve" /\ proto[g].pc = "forward"
      <4>1. Told' \/ First(proto[gen].conn, gen)'
        BY <1>1, <1>12, <2>1, <2>2, <3>1 DEF Told
      <4> QED
        BY <3>1, <3>3, <4>1 DEF AheadInv, Early
    <3> QED
      BY <3>2, <3>3
  <2> QED
    BY <1>5, <1>6, <1>7, <1>8, <1>10, <1>11, <2>5, <2>6 DEF IInv
<1>14. CASE g # gen
  <2>1. slimRx'[gen'] = slimRx[gen] /\ proto'[gen'] = proto[gen]
    BY <1>1, <1>2, <1>3, <1>4, <1>14
  <2>2. Told' = Told
    BY <1>1, <2>1 DEF Told
  <2>3. ReadInv'
    BY <1>1, <1>12, <2>1 DEF IInv, ReadInv
  <2>4. AheadInv'
    BY <1>1, <1>12, <2>1, <2>2 DEF IInv, AheadInv
  <2> QED
    BY <1>5, <1>6, <1>7, <1>8, <1>10, <1>11, <2>3, <2>4 DEF IInv
<1> QED
  BY <1>13, <1>14

\* Over is a message.
LEMMA OverMessage == Over \in Message /\ Over.kind = "none"
BY GensFacts DEF Over, Message

\* A message of the server goes to main.
LEMMA ForwardStep ==
  ASSUME IInv, NEW g \in Gens, Forward(g)
  PROVE  IInv'
<1> DEFINE p == [proto[g] EXCEPT !.pc = "serve", !.msg = Over]
<1>1. proto[g] \in Proto /\ proto \in [Gens -> Proto]
  BY DEF IInv, TypeOK
<1>2. /\ proto[g].pc = "forward" /\ proto' = [proto EXCEPT ![g] = p]
      /\ SendToMain(g, proto[g].msg)
  BY <1>1 DEF Forward
<1>3. UNCHANGED <<mainVars, slimTx, conns, history>>
  BY DEF Forward
<1>4. p \in Proto /\ p.pc = "serve" /\ p.conn = proto[g].conn
  BY <1>1, OverMessage DEF Proto
<1> HIDE DEF p
<1>5. ThreadOK(g, p)
  BY <1>2, <1>4 DEF IInv, ThreadInv, ThreadOK, Early, Pending, Late
<1>6. proto[g].msg \in Message /\ proto[g].msg.conn = proto[g].conn /\ proto[g].msg.kind \in Kinds
  BY <1>1, <1>2, ProtoFields DEF IInv, ThreadInv, ThreadOK
<1> QED
  BY <1>2, <1>3, <1>4, <1>5, <1>6, PassOn

\* The None of a hand-over.
LEMMA HandOverStep ==
  ASSUME IInv, NEW g \in Gens, HandOver(g)
  PROVE  IInv'
<1> DEFINE p == [proto[g] EXCEPT !.pc = "hello"]
<1>1. proto[g] \in Proto /\ proto \in [Gens -> Proto]
  BY DEF IInv, TypeOK
<1>2. proto[g].pc = "handover" /\ proto' = [proto EXCEPT ![g] = p] /\ SendToMain(g, Over)
  BY <1>1 DEF HandOver
<1>3. UNCHANGED <<mainVars, slimTx, conns, history>>
  BY DEF HandOver
<1>4. p \in Proto /\ p.pc = "hello" /\ p.conn = proto[g].conn /\ p.reconnect = proto[g].reconnect
  BY <1>1 DEF Proto
<1> HIDE DEF p
<1>5. ThreadOK(g, p)
  BY <1>2, <1>4 DEF IInv, ThreadInv, ThreadOK, Early, Pending, Late
<1> QED
  BY <1>2, <1>3, <1>4, <1>5, OverMessage, PassOn

\* The None of a lost connection.
LEMMA GiveUpStep ==
  ASSUME IInv, NEW g \in Gens, GiveUp(g)
  PROVE  IInv'
<1> DEFINE p == [proto[g] EXCEPT !.pc = "done"]
<1>1. proto[g] \in Proto /\ proto \in [Gens -> Proto]
  BY DEF IInv, TypeOK
<1>2. proto[g].pc = "lost" /\ proto' = [proto EXCEPT ![g] = p] /\ SendToMain(g, Over)
  BY <1>1 DEF GiveUp
<1>3. UNCHANGED <<mainVars, slimTx, conns, history>>
  BY DEF GiveUp
<1>4. p \in Proto /\ p.pc = "done" /\ p.conn = proto[g].conn
  BY <1>1 DEF Proto
<1> HIDE DEF p
<1>5. ThreadOK(g, p)
  BY <1>2, <1>4 DEF IInv, ThreadInv, ThreadOK, Early, Pending, Late
<1> QED
  BY <1>2, <1>3, <1>4, <1>5, OverMessage, PassOn

-----------------------------------------------------------------------------
(* The connections                                                         *)

\* A connection breaks or its writer ends; who made it and how stays.
LEMMA ConnChange ==
  ASSUME IInv, NEW c \in DOMAIN conns, NEW r \in Connection, conns' = [conns EXCEPT ![c] = r],
         r.gen = conns[c].gen, r.helo = conns[c].helo, conns[c].link = "down" => r.link = "down",
         losses' \in 0 .. MaxLosses,
         losses' = losses + 1 \/ (losses' = losses /\ r.link = conns[c].link),
         slimTx' \in [Gens -> Channel({"status", "reply", "bye"})],
         UNCHANGED <<mainVars, slimRx, proto, sent, switches, heard, asked>>
  PROVE  IInv'
<1>1. UNCHANGED <<gen, reconnect, mainPc, slimRx, proto, sent, switches, heard, asked>>
  BY DEF mainVars
<1>2. /\ conns \in Seq(Connection) /\ Len(conns) \in Nat /\ DOMAIN conns = 1 .. Len(conns)
      /\ (conns = << >>) <=> (Len(conns) = 0)
  BY ConnsFacts
<1>3. /\ conns' \in Seq(Connection) /\ Len(conns') = Len(conns) /\ DOMAIN conns' = DOMAIN conns
      /\ \A d \in DOMAIN conns : conns'[d] = IF d = c THEN r ELSE conns[d]
      /\ (conns' = << >>) <=> (conns = << >>)
  <2>1. /\ conns' \in Seq(Connection) /\ Len(conns') = Len(conns)
        /\ \A d \in 1 .. Len(conns) : conns'[d] = IF d = c THEN r ELSE conns[d]
    BY <1>2, ExceptSeq
  <2>2. DOMAIN conns' = 1 .. Len(conns)
    BY <2>1, LenProperties
  <2>3. (conns' = << >>) <=> (Len(conns') = 0)
    BY <2>1, EmptySeq
  <2> QED
    BY <1>2, <2>1, <2>2, <2>3
<1>4. \A d \in DOMAIN conns : /\ conns'[d].gen = conns[d].gen /\ conns'[d].helo = conns[d].helo
                              /\ conns[d].link = "down" => conns'[d].link = "down"
  BY <1>3
<1>5. TypeOK'
  BY <1>1, <1>3 DEF IInv, TypeOK
<1>6. FutureInv'
  BY <1>1, <1>3, <1>4 DEF IInv, FutureInv
<1>7. ThreadInv'
  <2>1. ASSUME NEW h \in Gens PROVE ThreadOK(h, proto[h])'
    <3>1. ThreadOK(h, proto[h])
      BY DEF IInv, ThreadInv
    <3>2. proto[h].pc = "lost" => proto[h].conn \in DOMAIN conns
      BY <3>1 DEF ThreadOK, Late
    <3> QED
      BY <1>1, <1>3, <1>4, <3>1, <3>2 DEF ThreadOK
  <2> QED
    BY <2>1 DEF ThreadInv
<1>8. StartInv' /\ HeloHonest'
  BY <1>1, <1>3, <1>4 DEF IInv, StartInv, HeloHonest
<1>9. CauseInv'
  <2>1. Caused \subseteq Caused'
    BY <1>1, <1>3, <1>4 DEF Caused
  <2>2. Caused' \subseteq Caused \cup {conns[c].gen}
    BY <1>1, <1>3, <1>4 DEF Caused
  <2>3. CASE losses' = losses + 1
    <3>1. Cardinality(Caused') <= Cardinality(Caused) + 1
      BY <2>2, Finite, OneMore
    <3>2. Cardinality(Caused') <= losses' + switches'
      BY <1>1, <2>3, <3>1, Finite, FinitePrimed, GenBound, SMTT(30) DEF IInv, CauseInv
    <3> QED
      BY <1>1, <2>1, <3>2 DEF IInv, CauseInv
  <2>4. CASE losses' = losses /\ r.link = conns[c].link
    <3>1. Caused' = Caused
      BY <1>1, <1>3, <1>4, <2>4 DEF Caused
    <3> QED
      BY <1>1, <2>4, <3>1 DEF IInv, CauseInv
  <2> QED
    BY <2>3, <2>4
<1>10. CountInv'
  <2>1. Seeking' = Seeking
    BY <1>1 DEF Seeking
  <2> QED
    BY <1>1, <1>3, <2>1 DEF IInv, CountInv
<1>11. \A d, h : First(d, h) => First(d, h)'
  BY <1>2, <1>3, <1>4 DEF First
<1>12. HeardInv' /\ ReadInv'
  BY <1>1, <1>11 DEF IInv, HeardInv, ReadInv
<1>13. AheadInv'
  <2>1. Told' = Told
    BY <1>1 DEF Told
  <2> QED
    BY <1>1, <1>3, <1>4, <1>11, <2>1 DEF IInv, AheadInv
<1> QED
  BY <1>5, <1>6, <1>7, <1>8, <1>9, <1>10, <1>12, <1>13 DEF IInv

\* A connection breaks.
LEMMA LoseLinkStep ==
  ASSUME IInv, NEW c \in DOMAIN conns, LoseLink(c)
  PROVE  IInv'
<1> DEFINE r == [conns[c] EXCEPT !.link = "down"]
<1>1. conns[c] \in Connection
  BY ConnsFacts
<1>2. /\ conns' = [conns EXCEPT ![c] = r] /\ losses < MaxLosses /\ losses' = losses + 1
      /\ UNCHANGED <<mainVars, slimTx, slimRx, proto, sent, switches, heard, asked>>
  BY DEF LoseLink
<1>3. r \in Connection /\ r.gen = conns[c].gen /\ r.helo = conns[c].helo /\ r.link = "down"
  BY <1>1 DEF Connection
<1> HIDE DEF r
<1>4. losses' \in 0 .. MaxLosses /\ slimTx' \in [Gens -> Channel({"status", "reply", "bye"})]
  BY <1>2, GensFacts, SMTT(30) DEF IInv, TypeOK
<1> QED
  BY <1>2, <1>3, <1>4, ConnChange

\* A writer takes a message, or ends.
LEMMA WriterEffect ==
  ASSUME IInv, NEW c \in DOMAIN conns, WriterStep(c)
  PROVE  IInv'
<1>1. conns[c] \in Connection /\ conns[c].gen \in Gens
  BY ConnsFacts DEF Connection
<1>2. UNCHANGED <<mainVars, slimRx, proto, sent, losses, switches, heard, asked>>
  BY DEF WriterStep, Write, WriterEnds, history
<1>3. PICK w \in {"waiting", "done"} : conns' = [conns EXCEPT ![c].writer = w]
  <2>1. conns[c].writer \in {"waiting", "done"}
    BY <1>1 DEF Connection
  <2> QED
    BY <2>1 DEF WriterStep, Write, WriterEnds
<1> DEFINE r == [conns[c] EXCEPT !.writer = w]
<1>4. conns' = [conns EXCEPT ![c] = r]
  BY <1>3
<1>5. r \in Connection /\ r.gen = conns[c].gen /\ r.helo = conns[c].helo /\ r.link = conns[c].link
  BY <1>1 DEF Connection
<1> HIDE DEF r
<1>6. losses' \in 0 .. MaxLosses
  BY <1>2 DEF IInv, TypeOK
<1>7. slimTx' \in [Gens -> Channel({"status", "reply", "bye"})]
  <2>1. slimTx \in [Gens -> Channel({"status", "reply", "bye"})]
    BY DEF IInv, TypeOK
  <2>2. CASE Write(c)
    <3> DEFINE g == conns[c].gen
    <3>1. slimTx[g] # << >> /\ slimTx' = [slimTx EXCEPT ![g] = Tail(slimTx[g])]
      BY <2>2 DEF Write
    <3>2. Tail(slimTx[g]) = << >> /\ << >> \in Channel({"status", "reply", "bye"})
      BY <1>1, <2>1, <3>1, ChannelParts
    <3> QED
      BY <2>1, <3>1, <3>2
  <2>3. CASE WriterEnds(c)
    BY <2>1, <2>3 DEF WriterEnds
  <2> QED
    BY <2>2, <2>3 DEF WriterStep
<1> QED
  BY <1>2, <1>4, <1>5, <1>6, <1>7, ConnChange

-----------------------------------------------------------------------------
(* main                                                                    *)

\* A send of main to the writers, whoever listens.
LEMMA ServerSend ==
  ASSUME IInv, NEW m \in {"status", "reply", "bye"}, SendToServer(m)
  PROVE  slimTx' \in [Gens -> Channel({"status", "reply", "bye"})]
<1>1. slimTx \in [Gens -> Channel({"status", "reply", "bye"})] /\ gen \in Gens
  BY DEF IInv, TypeOK
<1>2. CASE Room(slimTx[gen]) /\ slimTx' = [slimTx EXCEPT ![gen] = Append(slimTx[gen], m)]
  <2>1. slimTx[gen] = << >>
    BY <1>1, <1>2, ChannelParts
  <2>2. slimTx' = [slimTx EXCEPT ![gen] = <<m>>]
    BY <1>2, <2>1, ChannelSend
  <2>3. <<m>> \in Channel({"status", "reply", "bye"})
    BY DEF Channel
  <2> QED
    BY <1>1, <2>2, <2>3
<1> QED
  BY <1>1, <1>2 DEF SendToServer

\* main goes from its select into a send and back: nobody else is concerned.
LEMMA SendingStep ==
  ASSUME IInv, Tick \/ PlayerStatus \/ FinishSend
  PROVE  IInv'
<1>1. UNCHANGED <<gen, reconnect, slimRx, proto, conns, sent, losses, switches, heard, asked>>
  BY DEF Tick, PlayerStatus, FinishSend, history
<1>2. mainPc # "bye" /\ mainPc' # "bye" /\ mainPc' \in {"select", "status"}
  BY DEF Tick, PlayerStatus, FinishSend
<1>3. slimTx' \in [Gens -> Channel({"status", "reply", "bye"})]
  <2>1. CASE UNCHANGED slimTx
    BY <2>1 DEF IInv, TypeOK
  <2>2. CASE FinishSend
    BY <2>2, ServerSend DEF FinishSend
  <2> QED
    BY <2>1, <2>2 DEF Tick, PlayerStatus
<1>4. TypeOK'
  BY <1>1, <1>2, <1>3 DEF IInv, TypeOK
<1>5. FutureInv' /\ HeloHonest' /\ HeardInv'
  BY <1>1 DEF IInv, FutureInv, HeloHonest, HeardInv, First
<1>6. ThreadInv'
  BY <1>1 DEF IInv, ThreadInv, ThreadOK
<1>7. StartInv' /\ ReadInv'
  BY <1>1, <1>2 DEF IInv, StartInv, ReadInv, First
<1>8. CauseInv' /\ CountInv'
  <2>1. Caused' = Caused /\ Seeking' = Seeking
    BY <1>1 DEF Caused, Seeking
  <2> QED
    BY <1>1, <1>2, <2>1 DEF IInv, CauseInv, CountInv
<1>9. AheadInv'
  BY <1>1, <1>2 DEF IInv, AheadInv, Told, First
<1> QED
  BY <1>4, <1>5, <1>6, <1>7, <1>8, <1>9 DEF IInv

\* main takes what is in its channel; the channel is then empty.
LEMMA TakeEffect ==
  ASSUME IInv, slimRx[gen] # << >>, slimRx' = [slimRx EXCEPT ![gen] = Tail(slimRx[gen])]
  PROVE  /\ slimRx' \in [Gens -> Channel(Message)] /\ slimRx'[gen] = << >>
         /\ \A h \in Gens : h # gen => slimRx'[h] = slimRx[h]
         /\ slimRx[gen] = <<Head(slimRx[gen])>> /\ Head(slimRx[gen]) \in Message
<1>1. slimRx \in [Gens -> Channel(Message)] /\ gen \in Gens
  BY DEF IInv, TypeOK
<1>2. slimRx[gen] \in Channel(Message)
  BY <1>1
<1>3. /\ slimRx[gen] = <<Head(slimRx[gen])>> /\ Head(slimRx[gen]) \in Message
      /\ Tail(slimRx[gen]) = << >> /\ << >> \in Channel(Message)
  BY <1>2, ChannelParts
<1> QED
  BY <1>1, <1>3

\* A message is heard: it is of the first connection, for main was not told
\* that the generation is over.
LEMMA HandleMessageStep ==
  ASSUME IInv, HandleMessage
  PROVE  IInv'
<1> DEFINE m == Head(slimRx[gen])
<1>1. /\ mainPc = "select" /\ slimRx[gen] # << >> /\ m.kind # "none"
      /\ slimRx' = [slimRx EXCEPT ![gen] = Tail(slimRx[gen])]
      /\ heard' = heard \cup {m.conn}
      /\ mainPc' \in {"select", "status", "reply"}
  BY DEF HandleMessage
<1>2. UNCHANGED <<gen, reconnect, slimTx, proto, conns, sent, losses, switches, asked>>
  BY DEF HandleMessage
<1>3. /\ slimRx' \in [Gens -> Channel(Message)] /\ slimRx'[gen] = << >>
      /\ \A h \in Gens : h # gen => slimRx'[h] = slimRx[h]
      /\ slimRx[gen] = <<m>> /\ m \in Message
  BY <1>1, TakeEffect
<1> HIDE DEF m
<1>4. ~Told
  BY <1>1, <1>3, ChannelSend, OverMessage DEF Told
<1>5. First(m.conn, gen)
  BY <1>1 DEF IInv, ReadInv, m
<1>6. gen \in Gens /\ mainPc' # "bye"
  BY <1>1 DEF IInv, TypeOK
<1>7. TypeOK'
  <2>1. m.conn \in 1 .. MaxConns
    <3>1. m.conn \in 1 .. Len(conns) /\ Len(conns) <= MaxConns
      BY <1>5, ConnsFacts DEF First, IInv, TypeOK
    <3> QED
      BY <3>1, ConnsFacts, GensFacts
  <2>2. heard' \subseteq 1 .. MaxConns
    BY <1>1, <2>1 DEF IInv, TypeOK
  <2> QED
    BY <1>1, <1>2, <1>3, <2>2 DEF IInv, TypeOK
<1>8. FutureInv' /\ HeloHonest'
  BY <1>2, <1>3, <1>6, GensFacts DEF IInv, FutureInv, HeloHonest
<1>9. ThreadInv'
  BY <1>2 DEF IInv, ThreadInv, ThreadOK
<1>10. \A c, h : First(c, h)' <=> First(c, h)
  BY <1>2 DEF First
<1>11. HeardInv'
  BY <1>1, <1>2, <1>5, <1>10 DEF IInv, HeardInv
<1>12. StartInv' /\ ReadInv'
  BY <1>2, <1>3, <1>6 DEF IInv, StartInv, ReadInv
<1>13. CauseInv' /\ CountInv'
  <2>1. Caused' = Caused /\ Seeking' = Seeking
    BY <1>2 DEF Caused, Seeking
  <2> QED
    BY <1>2, <1>3, <1>6, <2>1 DEF IInv, CauseInv, CountInv
<1>14. AheadInv'
  BY <1>2, <1>4, <1>10 DEF IInv, AheadInv
<1> QED
  BY <1>7, <1>8, <1>9, <1>11, <1>12, <1>13, <1>14 DEF IInv

\* The None is taken.
LEMMA HandleOverStep ==
  ASSUME IInv, HandleOver
  PROVE  IInv'
<1>1. /\ slimRx[gen] # << >> /\ Head(slimRx[gen]).kind = "none"
      /\ slimRx' = [slimRx EXCEPT ![gen] = Tail(slimRx[gen])]
      /\ mainPc' = "bye"
  BY DEF HandleOver
<1>2. UNCHANGED <<gen, reconnect, slimTx, proto, conns, sent, losses, switches, heard, asked>>
  BY DEF HandleOver, history
<1>3. /\ slimRx' \in [Gens -> Channel(Message)] /\ slimRx'[gen] = << >>
      /\ \A h \in Gens : h # gen => slimRx'[h] = slimRx[h]
  BY <1>1, TakeEffect
<1>4. gen \in Gens
  BY DEF IInv, TypeOK
<1>5. TypeOK'
  BY <1>1, <1>2, <1>3 DEF IInv, TypeOK
<1>6. FutureInv' /\ HeloHonest'
  BY <1>2, <1>3, <1>4, GensFacts DEF IInv, FutureInv, HeloHonest
<1>7. ThreadInv'
  BY <1>2 DEF IInv, ThreadInv, ThreadOK
<1>8. HeardInv'
  BY <1>2 DEF IInv, HeardInv, First
<1>9. StartInv' /\ ReadInv'
  BY <1>1, <1>2 DEF IInv, StartInv, ReadInv
<1>10. CauseInv' /\ CountInv'
  <2>1. Caused' = Caused /\ Seeking' = Seeking
    BY <1>2 DEF Caused, Seeking
  <2>2. gen \in Caused
    BY <1>1 DEF IInv, CauseInv
  <2> QED
    BY <1>2, <2>1, <2>2 DEF IInv, CauseInv, CountInv
<1>11. AheadInv'
  BY <1>1 DEF AheadInv, Told
<1> QED
  BY <1>5, <1>6, <1>7, <1>8, <1>9, <1>10, <1>11 DEF IInv

\* The next generation: its thread starts with an empty channel, and says
\* "reconnect" because there has been a connection.
LEMMA RestartStep ==
  ASSUME IInv, Restart
  PROVE  IInv'
<1> DEFINE p == NewProto(TRUE)
<1>1. /\ mainPc = "bye" /\ reconnect' = TRUE /\ gen' = gen + 1 /\ mainPc' = "select"
      /\ proto' = [proto EXCEPT ![gen + 1] = p] /\ heard' = {}
      /\ SendToServer("bye")
  BY DEF Restart
<1>2. UNCHANGED <<slimRx, conns, sent, losses, switches, asked>>
  BY DEF Restart
<1>3. slimTx' \in [Gens -> Channel({"status", "reply", "bye"})]
  BY <1>1, ServerSend
<1>4. gen \in Nat /\ gen >= 1 /\ gen' \in Gens /\ gen \in Gens
  BY <1>1, GenBound, GensFacts DEF Gens, IInv, TypeOK
<1>5. /\ p \in Proto /\ p.pc = "hello" /\ p.reconnect = TRUE
  BY GensFacts, OverMessage DEF NewProto, Proto
<1> HIDE DEF p
<1>6. /\ proto' \in [Gens -> Proto]
      /\ \A h \in Gens : proto'[h] = IF h = gen' THEN p ELSE proto[h]
  BY <1>1, <1>4, <1>5, OneThread
<1>7. TypeOK'
  BY <1>1, <1>2, <1>3, <1>4, <1>6 DEF IInv, TypeOK
<1>8. slimRx[gen'] = << >> /\ \A c \in DOMAIN conns : conns[c].gen # gen'
  <2>1. gen' > gen
    BY <1>1, <1>4
  <2>2. \A c \in DOMAIN conns : conns[c].gen \in Nat
    BY ConnsFacts, GensFacts DEF Connection
  <2> QED
    BY <1>1, <1>4, <2>1, <2>2 DEF IInv, FutureInv
<1>9. FutureInv'
  <2>1. \A c \in DOMAIN conns : conns[c].gen <= gen + 1
    <3>1. \A c \in DOMAIN conns : conns[c].gen \in Nat /\ conns[c].gen <= gen
      BY ConnsFacts, GensFacts DEF Connection, IInv, FutureInv
    <3> QED
      BY <1>4, <3>1
  <2>2. \A h \in Gens : h > gen' => h > gen /\ h # gen'
    BY <1>1, <1>4, GensFacts
  <2> QED
    BY <1>1, <1>2, <1>6, <2>1, <2>2 DEF IInv, FutureInv
<1>10. conns # << >>
  BY <1>1 DEF IInv, StartInv
<1>11. ThreadInv'
  <2>1. ASSUME NEW h \in Gens PROVE ThreadOK(h, proto[h])'
    <3>1. CASE h = gen'
      <4>1. proto'[h] = p
        BY <1>6, <3>1
      <4> QED
        BY <1>2, <1>5, <1>10, <4>1 DEF ThreadOK, Late, Pending, Early
    <3>2. CASE h # gen'
      <4>1. proto'[h] = proto[h] /\ ThreadOK(h, proto[h])
        BY <1>6, <3>2 DEF IInv, ThreadInv
      <4> QED
        BY <1>2, <3>2, <4>1 DEF ThreadOK
    <3> QED
      BY <3>1, <3>2
  <2> QED
    BY <2>1 DEF ThreadInv
<1>12. StartInv' /\ HeloHonest' /\ HeardInv' /\ ReadInv'
  BY <1>1, <1>2, <1>8, <1>10 DEF IInv, StartInv, HeloHonest, HeardInv, ReadInv
<1>13. CauseInv'
  <2>1. Caused' = Caused
    BY <1>2 DEF Caused
  <2>2. \A h \in Gens : h < gen' => h < gen \/ h = gen
    BY <1>1, <1>4, GensFacts
  <2> QED
    BY <1>1, <1>2, <1>8, <2>1, <2>2 DEF IInv, CauseInv
<1>14. CountInv'
  <2>1. Seeking' \subseteq Seeking \cup {gen'}
    BY <1>6 DEF Seeking
  <2>2. Cardinality(Seeking') <= Cardinality(Seeking) + 1
    BY <2>1, Finite, OneMore
  <2>3. Len(conns) + Cardinality(Seeking) <= gen + switches
    BY DEF IInv, CountInv
  <2>4. /\ Len(conns) \in Nat /\ gen \in Nat /\ switches \in Nat
        /\ Cardinality(Seeking) \in Nat /\ Cardinality(Seeking') \in Nat
    BY Finite, FinitePrimed, ConnsFacts, GenBound
  <2>5. conns' = conns /\ gen' = gen + 1 /\ switches' = switches
    BY <1>1, <1>2
  <2> QED
    BY <2>2, <2>3, <2>4, <2>5 DEF CountInv
<1>15. AheadInv'
  <2>1. proto'[gen'].pc = "hello"
    BY <1>4, <1>5, <1>6
  <2> QED
    BY <1>2, <1>8, <2>1 DEF AheadInv, Early
<1> QED
  BY <1>7, <1>9, <1>11, <1>12, <1>13, <1>14, <1>15 DEF IInv

-----------------------------------------------------------------------------
(* The theorems                                                            *)

\* Every step keeps the invariant.
LEMMA StepIInv == IInv /\ [Next]_vars => IInv'
<1> SUFFICES ASSUME IInv, [Next]_vars PROVE IInv'
  OBVIOUS
<1>1. CASE \E g \in Gens : ProtoStep(g)
  BY <1>1, BuildHelloStep, FindStep, ReceiveErrorStep, ForwardStep, HandOverStep, GiveUpStep
     DEF ProtoStep
<1>2. CASE \E g \in Gens : NetworkStep(g)
  BY <1>2, FindStep, FailStep, ConnectOkStep, ReceiveMessageStep, ReceiveServStep DEF NetworkStep
<1>3. CASE \E c \in DOMAIN conns : WriterStep(c) \/ LoseLink(c)
  BY <1>3, WriterEffect, LoseLinkStep
<1>4. CASE MainStep
  BY <1>4, HandleMessageStep, HandleOverStep, SendingStep, RestartStep DEF MainStep, Handle
<1>5. CASE UNCHANGED vars
  <2>1. UNCHANGED <<gen, reconnect, mainPc, slimTx, slimRx, proto, conns,
                    sent, losses, switches, heard, asked>>
    BY <1>5 DEF vars, mainVars, history
  <2>2. TypeOK'
    BY <2>1 DEF IInv, TypeOK
  <2>3. FutureInv' /\ StartInv' /\ HeloHonest'
    BY <2>1 DEF IInv, FutureInv, StartInv, HeloHonest
  <2>4. ThreadInv'
    BY <2>1 DEF IInv, ThreadInv, ThreadOK
  <2>5. CauseInv' /\ CountInv'
    <3>1. Caused' = Caused /\ Seeking' = Seeking
      BY <2>1 DEF Caused, Seeking
    <3> QED
      BY <2>1, <3>1 DEF IInv, CauseInv, CountInv
  <2>6. HeardInv' /\ ReadInv' /\ AheadInv'
    BY <2>1 DEF IInv, HeardInv, ReadInv, AheadInv, First, Told
  <2> QED
    BY <2>2, <2>3, <2>4, <2>5, <2>6 DEF IInv
<1> QED
  BY <1>1, <1>2, <1>3, <1>4, <1>5 DEF Next

\* The invariant holds throughout.
LEMMA Invariant == Spec => []IInv
BY InitIInv, StepIInv, PTL DEF Spec

\* Types: the channels never hold more than one message, a generation starts
\* only after a loss or a Serv message, and there are no more connections than
\* generations and Serv messages account for.
THEOREM TypeCorrect == Spec => []TypeOK
<1>1. IInv => TypeOK
  BY DEF IInv
<1> QED
  BY Invariant, <1>1, PTL

\* The receive of main never fails: the slim-proto thread of its generation
\* ends only after main has been told, or is about to be.
THEOREM NeverOrphanedHolds == Spec => []NeverOrphaned
<1>1. IInv => NeverOrphaned
  <2> SUFFICES ASSUME IInv, proto[gen].pc = "done", mainPc # "bye"
               PROVE  \E i \in DOMAIN slimRx[gen] : slimRx[gen][i] = Over
    BY DEF NeverOrphaned
  <2>1. slimRx[gen] = <<Over>>
    BY DEF IInv, AheadInv, Told
  <2> QED
    BY <2>1
<1> QED
  BY Invariant, <1>1, PTL

\* Every connection of the process but the first says "reconnect" in its HELO,
\* whichever thread of whichever generation made it.
THEOREM HeloHonestHolds == Spec => []HeloHonest
<1>1. IInv => HeloHonest
  BY DEF IInv
<1> QED
  BY Invariant, <1>1, PTL

\* main acts only on the first connection of its generation, although threads
\* of earlier generations go on and open connections of their own.
THEOREM MainHearsOneConnectionHolds == Spec => []MainHearsOneConnection
<1>1. IInv => MainHearsOneConnection
  BY DEF IInv, HeardInv, First, MainHearsOneConnection
<1> QED
  BY Invariant, <1>1, PTL
=============================================================================
