-------------------------------- MODULE Locate --------------------------------
(***************************************************************************)
(* How the player gets to a server: the name given with --server is        *)
(* resolved (vibe/src/cli.rs, from main.rs), or a server is discovered by  *)
(* broadcast (lms-proto/src/discovery.rs, from the loop of vibe/src/       *)
(* proto.rs), and then connected to (connect_with_retry of lms-proto/src/  *)
(* proto.rs).  Each is a retry loop with its own timers.                   *)
(*                                                                         *)
(* There is no clock: timers count down together, in Tick, and no step is  *)
(* put off past the moment it is due.  The network is up or not; while it  *)
(* is up a probe may be answered, and any datagram may be lost.  A session *)
(* that is lost is looked for anew, by the thread main starts then.        *)
(***************************************************************************)
EXTENDS Integers, FiniteSets

CONSTANTS
  InitialDelay, MaxDelay,  \* of the back-off, when resolving and connecting
  MaxLookup,               \* bound: the longest a lookup takes
  Budget,                  \* timeout of --create-service
  RecvTimeout,             \* of discover (30 s)
  ProbeInterval,           \* of the probe thread (5 s)
  ConnectPause,            \* after a connection failed for good (5 s)
  MaxTrouble               \* bound: calls of recv_from that fail and sessions lost

ASSUME LocateAssumption ==
  /\ InitialDelay \in Nat \ {0} /\ MaxDelay >= InitialDelay /\ MaxDelay \in Nat /\ MaxLookup \in Nat
  /\ Budget \in Nat /\ ConnectPause \in Nat /\ MaxTrouble \in Nat
  /\ ProbeInterval \in Nat \ {0} /\ RecvTimeout \in Nat /\ RecvTimeout > ProbeInterval

Never == -1

VARIABLES
  job,       \* the command line: task, "run" or "create_service", and server,
             \* an "address", a "name" or "none"
  pc,        \* "start", "lookup", "retry", "recv", "restart", "connect", "refused",
             \* "pause", "served", or the end of the program: "created", "unknown"
  timer,     \* of what pc waits for
  budget,    \* what is left until the deadline, or Never: no deadline
  delay,     \* of the back-off
  threads,   \* the probe threads; call: the call of discover that started one
             \* runs, timed out, or was cut short by an answer or an error
  probe,     \* a probe, or its answer, is under way: "none", "probe", "answer"
  up,        \* the network
  \* history
             \* (in threads: old, the time since the call ended, and late, the
             \* probes sent since then)
  over,      \* time spent after the deadline
  waited,    \* time the network has been up since the last attempt
  trouble    \* calls of recv_from that failed, and sessions lost

vars == <<job, pc, timer, budget, delay, threads, probe, up, over, waited, trouble>>

Smaller(a, b) == IF a <= b THEN a ELSE b

Exited == {"created", "unknown"}
Over == {"served"} \cup Exited

Init ==
  /\ job \in [task : {"run", "create_service"}, server : {"address", "name", "none"}]
  /\ pc = "start"
  /\ timer = 0 /\ budget = Never /\ delay = InitialDelay
  /\ threads = {} /\ probe = "none" /\ up \in BOOLEAN
  /\ over = 0 /\ waited = 0 /\ trouble = 0

\* A step of the main path: from one place to another, with a new timer there.
\* An attempt begins with a fresh count of the time the network was up.
Go(from, to, t) ==
  /\ pc = from /\ pc' = to /\ timer' = t
  /\ waited' = IF to \in {"lookup", "connect"} THEN 0 ELSE waited
  /\ UNCHANGED <<job, up, over>>

Rest == <<threads, probe, trouble>>

-----------------------------------------------------------------------------
(* --server: parse_server_addr and resolve_with_retry                      *)

\* Where a server that is known is used: connected to, or written to the file.
Known == IF job.task = "run" THEN "connect" ELSE "created"

\* An address needs no lookup; a name does, within a budget when only a
\* service file is written, and a service file needs no server at all.
NothingToResolve ==
  /\ \/ job.server = "address"
     \/ job.server = "none" /\ job.task = "create_service"
  /\ Go("start", Known, 0)
  /\ UNCHANGED <<budget, delay, Rest>>

ServerIsName ==
  /\ job.server = "name"
  /\ \E t \in 0 .. MaxLookup : Go("start", "lookup", t)
  /\ budget' = IF job.task = "run" THEN Never ELSE Budget
  /\ UNCHANGED <<delay, Rest>>

\* lookup_host finds an IPv4 address, or fails for good, or finds none.
Resolved ==
  /\ up /\ timer = 0
  /\ Go("lookup", Known, 0)
  /\ delay' = InitialDelay
  /\ UNCHANGED <<budget, Rest>>

LookupError ==
  /\ timer = 0
  /\ Go("lookup", "unknown", 0)
  /\ UNCHANGED <<budget, delay, Rest>>

\* Mutant: the deadline is not minded.
SleepForDelay == delay

\* "Never sleep past the deadline."
SleepFor == IF budget = Never THEN delay ELSE Smaller(delay, budget)

Doubled == Smaller(2 * delay, MaxDelay)

\* remaining.is_zero()
Spent == budget = 0

\* EAI_AGAIN: sleep, or give up if the budget is spent.
LookupAgain ==
  /\ ~up /\ timer = 0 /\ ~Spent
  /\ Go("lookup", "retry", SleepFor)
  /\ delay' = Doubled
  /\ UNCHANGED <<budget, Rest>>

LookupTimedOut ==
  /\ ~up /\ timer = 0 /\ Spent
  /\ Go("lookup", "unknown", 0)
  /\ UNCHANGED <<budget, delay, Rest>>

Retry ==
  /\ timer = 0
  /\ \E t \in 0 .. MaxLookup : Go("retry", "lookup", t)
  /\ UNCHANGED <<budget, delay, Rest>>

-----------------------------------------------------------------------------
(* discover                                                                *)

\* Mutant: the flag is not set when the thread starts.
StartedIdle(all) ==
  all \cup {[call |-> "cut", at |-> "check", timer |-> 0, old |-> 0, late |-> 0,
             nr |-> Cardinality(all) + 1]}

\* The probe thread of a call.  (nr tells threads apart.)
Started(all) ==
  all \cup {[call |-> "runs", at |-> "check", timer |-> 0, old |-> 0, late |-> 0,
             nr |-> CHOOSE n \in 1 .. Cardinality(all) + 1 : \A th \in all : th.nr # n]}

\* running.store(false): the thread of the call that runs is told how it ends.
Told(all, how) == {IF th.call = "runs" THEN [th EXCEPT !.call = how] ELSE th : th \in all}

\* No --server: discover is called and waits for an answer.
MustDiscover == job.task = "run" /\ job.server = "none"

Discover ==
  /\ MustDiscover
  /\ Go("start", "recv", RecvTimeout)
  /\ threads' = Started(threads) /\ probe' = "none"
  /\ UNCHANGED <<budget, delay, trouble>>

\* An answer: any datagram will do.
Answered ==
  /\ probe = "answer"
  /\ Go("recv", "connect", 0)
  /\ threads' = Told(threads, "cut") /\ probe' = "none"
  /\ UNCHANGED <<budget, delay, trouble>>

\* WouldBlock: no server found, and once more round the loop.
RecvTimedOut ==
  /\ timer = 0
  /\ Go("recv", "restart", 0)
  /\ threads' = Told(threads, "timedout") /\ probe' = "none"
  /\ UNCHANGED <<budget, delay, trouble>>

\* Any other error of recv_from: the same at once, with the thread started.
RecvError ==
  /\ trouble < MaxTrouble
  /\ Go("recv", "restart", 0)
  /\ threads' = Told(threads, "cut") /\ probe' = "none" /\ trouble' = trouble + 1
  /\ UNCHANGED <<budget, delay>>

\* An error before the thread is started (bind, try_clone, spawn).
DiscoverError ==
  /\ MustDiscover
  /\ Go("start", "restart", 0) \/ Go("restart", "restart", 0)
  /\ UNCHANGED <<budget, delay, Rest>>

DiscoverAgain ==
  /\ Go("restart", "recv", RecvTimeout)
  /\ threads' = Started(threads) /\ probe' = "none"
  /\ UNCHANGED <<budget, delay, trouble>>

\* The probe thread: check the flag, send, sleep.  The flag may change
\* between the check and the send.
Move(th, to) == threads' = (threads \ {th}) \cup {to}

\* Mutant: the thread never looks at the flag.
LoopsFreely(th) == TRUE

\* while is_running.load()
Loops(th) == th.call = "runs"

ProbeCheck(th) ==
  /\ th.at = "check"
  /\ IF Loops(th) THEN Move(th, [th EXCEPT !.at = "send"]) ELSE threads' = threads \ {th}
  /\ UNCHANGED <<job, pc, timer, budget, delay, probe, up, over, waited, trouble>>

\* What an old call's socket sends is answered to that socket, and lost.
ProbeSend(th) ==
  /\ th.at = "send"
  /\ Move(th, [th EXCEPT !.at = "sleep", !.timer = ProbeInterval,
                         !.late = IF th.call = "runs" THEN @ ELSE @ + 1])
  /\ probe' = IF th.call = "runs" /\ up /\ probe = "none" THEN "probe" ELSE probe
  /\ UNCHANGED <<job, pc, timer, budget, delay, up, over, waited, trouble>>

ProbeWake(th) ==
  /\ th.at = "sleep" /\ th.timer = 0
  /\ Move(th, [th EXCEPT !.at = "check"])
  /\ UNCHANGED <<job, pc, timer, budget, delay, probe, up, over, waited, trouble>>

\* External: the server answers, or a datagram is lost.
ServerAnswers ==
  /\ probe = "probe" /\ up /\ probe' = "answer"
  /\ UNCHANGED <<job, pc, timer, budget, delay, threads, up, over, waited, trouble>>

DatagramLost ==
  /\ probe # "none" /\ probe' = "none"
  /\ UNCHANGED <<job, pc, timer, budget, delay, threads, up, over, waited, trouble>>

-----------------------------------------------------------------------------
(* connect_with_retry, and slim-proto around it                            *)

Connected ==
  /\ up
  /\ Go("connect", "served", 0)
  /\ UNCHANGED <<budget, delay, Rest>>

\* Mutant: doubled before it is bounded.
RefusedForUncapped == 2 * delay

RefusedFor == delay

\* Refused or unreachable: back off, again and again.
Refused ==
  /\ ~up
  /\ Go("connect", "refused", RefusedFor)
  /\ delay' = Doubled
  /\ UNCHANGED <<budget, Rest>>

ConnectAgain ==
  /\ timer = 0
  /\ Go("refused", "connect", 0)
  /\ UNCHANGED <<budget, delay, Rest>>

\* Any other error: pause, and connect to the same address anew.
ConnectError ==
  /\ Go("connect", "pause", ConnectPause)
  /\ delay' = InitialDelay
  /\ UNCHANGED <<budget, Rest>>

AfterPause ==
  /\ timer = 0
  /\ Go("pause", "connect", 0)
  /\ UNCHANGED <<budget, delay, Rest>>

\* The session is over: main starts slim-proto again, with the server of the
\* command line or with none.
SessionLost ==
  /\ trouble < MaxTrouble
  /\ Go("served", IF job.server = "none" THEN "restart" ELSE "connect", 0)
  /\ delay' = InitialDelay /\ trouble' = trouble + 1
  /\ UNCHANGED <<budget, threads, probe>>

-----------------------------------------------------------------------------
(* Time and the network (external)                                         *)

Down(t) == IF t > 0 THEN t - 1 ELSE t

\* Something is due now.
Due ==
  \/ pc \in {"start", "restart", "connect"}
  \/ pc \in {"lookup", "retry", "recv", "refused", "pause"} /\ timer = 0
  \/ \E th \in threads : th.at \in {"check", "send"} \/ th.timer = 0

Older(th) == IF th.call = "runs" THEN 0 ELSE th.old + 1

Resolving == pc \in {"lookup", "retry"}

Tick ==
  /\ pc \notin Exited /\ ~Due
  /\ timer' = Down(timer)
  /\ budget' = IF Resolving THEN Down(budget) ELSE budget
  /\ over' = IF Resolving /\ budget = 0 THEN over + 1 ELSE over
  /\ waited' = IF up /\ pc \in {"retry", "refused", "pause"} THEN waited + 1 ELSE waited
  /\ threads' = {[th EXCEPT !.timer = Down(th.timer), !.old = Older(th)] : th \in threads}
  /\ UNCHANGED <<job, pc, delay, probe, up, trouble>>

\* waited counts from the last time the network came up.
NetworkChanges ==
  /\ pc \notin Exited
  /\ up' = ~up /\ waited' = 0
  /\ probe' = "none"
  /\ UNCHANGED <<job, pc, timer, budget, delay, threads, over, trouble>>

-----------------------------------------------------------------------------

Resolve == ServerIsName \/ Resolved \/ LookupError \/ LookupAgain \/ LookupTimedOut \/ Retry
Probing == \E th \in threads : ProbeCheck(th) \/ ProbeSend(th) \/ ProbeWake(th)
Program ==
  \/ NothingToResolve \/ Resolve \/ Discover \/ Answered \/ RecvTimedOut \/ DiscoverError \/ DiscoverAgain
  \/ Connected \/ Refused \/ ConnectAgain \/ ConnectError \/ AfterPause

Next ==
  \/ Program \/ Probing \/ RecvError \/ SessionLost
  \/ ServerAnswers \/ DatagramLost \/ Tick \/ NetworkChanges

Spec == Init /\ [][Next]_vars

\* The threads run and time passes; of probes sent again and again one is
\* answered and the answer arrives; neither sockets nor connections fail for
\* good every time (errors of recv_from and lost sessions are bounded).
LiveSpec ==
  /\ Spec
  /\ WF_vars(Program) /\ WF_vars(Probing) /\ WF_vars(Tick)
  /\ SF_vars(ServerAnswers) /\ SF_vars(Answered) /\ SF_vars(Connected) /\ SF_vars(DiscoverAgain)

-----------------------------------------------------------------------------

Thread ==
  [call : {"runs", "timedout", "cut"}, at : {"check", "send", "sleep"},
   timer : 0 .. ProbeInterval, old : Nat, late : Nat, nr : Nat]

TypeOK ==
  /\ job \in [task : {"run", "create_service"}, server : {"address", "name", "none"}]
  /\ pc \in Over \cup {"start", "lookup", "retry", "recv", "restart", "connect", "refused", "pause"}
  /\ timer \in Nat /\ budget \in {Never} \cup 0 .. Budget /\ delay \in InitialDelay .. MaxDelay
  /\ threads \subseteq Thread /\ probe \in {"none", "probe", "answer"} /\ up \in BOOLEAN
  /\ over \in Nat /\ waited \in Nat /\ trouble \in Nat

\* "The budget is checked between attempts, so a single lookup call that blocks
\* for a long time can push the total past `timeout`" (cli.rs:87): a single
\* call, and nothing else.
BudgetKept == over <= MaxLookup

\* Once the network is back, the next attempt comes within the longest delay,
\* however long it was away.
NoticesInTime == waited <= IF MaxDelay >= ConnectPause THEN MaxDelay ELSE ConnectPause

\* Probe threads are told to stop and not waited for.  Of the calls of discover
\* that timed out at most one has left a thread, as it is gone before the next
\* call times out, and at most one belongs to the call that runs.  Calls that
\* end sooner, with an answer to a session that is lost at once or with an error
\* of recv_from, each leave one more: it goes within the interval of the probes,
\* and sends the probe it was about to send, but never another.
ProbersStop ==
  /\ \A x, y \in threads : x.call = y.call /\ x.call # "cut" => x = y
  /\ \A th \in threads : th.old <= ProbeInterval /\ th.late <= 1

\* A server that stays reachable is found and connected to, and found again when
\* the session is lost, whatever was lost, refused or timed out before, unless
\* the name turned out not to exist.
Found == <>[]up => <>[](pc \in Over)

=============================================================================
