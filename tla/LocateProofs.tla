----------------------------- MODULE LocateProofs -----------------------------
(***************************************************************************)
(* Proofs about Locate: the budget of a lookup is exceeded by one call at  *)
(* most, the network is tried again within the longest delay, and probe    *)
(* threads that are told to stop are soon gone, whatever the timers are    *)
(* set to, as long as discover waits for longer than a probe thread        *)
(* sleeps, and however often recv_from fails or a session is lost.         *)
(*                                                                         *)
(* Each part of the invariant relates a timer to what the property counts: *)
(* what has been used up and what is still to be waited for stay within    *)
(* the bound together.                                                     *)
(***************************************************************************)
EXTENDS Locate, FiniteSetTheorems, FunctionTheorems, TLAPS

Waiting == {"retry", "refused", "pause"}

Longest == IF MaxDelay >= ConnectPause THEN MaxDelay ELSE ConnectPause

\* The deadline is passed in a lookup only, and a sleep ends before it.
BudgetInv ==
  /\ pc \in {"start", "retry"} => over = 0
  /\ pc = "retry" => budget = Never \/ timer <= budget
  /\ pc = "lookup" => over + timer <= MaxLookup
  /\ over > 0 => budget = 0
  /\ over <= MaxLookup

\* The wait so far and the rest of it together are no longer than the longest.
WaitInv ==
  /\ pc \in Waiting => waited + timer <= Longest
  /\ pc \notin Waiting => waited = 0

\* A thread that has been told to stop sends what it was about to send, sleeps
\* for an interval at most, and then looks at its flag.
StopInv(T) ==
  \A x \in T :
    /\ x.late <= 1
    /\ x.call = "runs" \/ x.at = "send" => x.late = 0 /\ x.old = 0
    /\ x.at = "check" => x.old <= ProbeInterval
    /\ x.at = "sleep" => x.old + x.timer <= ProbeInterval

\* One thread of the call that runs, and one of those that timed out.
CrowdInv(T, p) ==
  /\ IsFiniteSet(T)
  /\ \A x, y \in T : x.call = y.call /\ x.call # "cut" => x = y
  /\ p # "recv" => \A x \in T : x.call # "runs"

\* A thread of a call before looks at its flag before the next call times out:
\* it has slept for what discover has waited.
OldInv(T, p, t) ==
  p = "recv" =>
    \A x \in T : x.call # "runs" =>
      /\ x.at = "send" => t = RecvTimeout
      /\ x.at = "check" => RecvTimeout <= ProbeInterval + t
      /\ x.at = "sleep" => x.timer + RecvTimeout <= ProbeInterval + t

ThreadsInv == StopInv(threads) /\ CrowdInv(threads, pc) /\ OldInv(threads, pc, timer)

IInv == TypeOK /\ BudgetInv /\ WaitInv /\ ThreadsInv

-----------------------------------------------------------------------------
(* The parameters and the timers                                           *)

\* What the proofs use of the constants.
LEMMA Sizes ==
  /\ InitialDelay \in Nat /\ MaxDelay \in Nat /\ InitialDelay <= MaxDelay /\ MaxLookup \in Nat
  /\ Budget \in Nat /\ ConnectPause \in Nat /\ MaxTrouble \in Nat /\ ProbeInterval \in Nat /\ RecvTimeout \in Nat
  /\ RecvTimeout > ProbeInterval
  /\ Longest \in Nat /\ MaxDelay <= Longest /\ ConnectPause <= Longest
BY LocateAssumption DEF Longest

\* The back-off stays within its limits, and no sleep is longer than it or than
\* what is left of the budget.
LEMMA DelayFacts ==
  ASSUME TypeOK
  PROVE  /\ delay \in Nat /\ delay <= MaxDelay
         /\ Doubled \in InitialDelay .. MaxDelay
         /\ SleepFor \in Nat /\ SleepFor <= delay
         /\ budget = Never \/ SleepFor <= budget
<1>1. delay \in InitialDelay .. MaxDelay /\ budget \in {Never} \cup 0 .. Budget
  BY DEF TypeOK
<1>2. Doubled \in InitialDelay .. MaxDelay
  BY <1>1, Sizes DEF Doubled, Smaller
<1> QED
  BY <1>1, <1>2, Sizes DEF SleepFor, Smaller, Never

\* A timer counts down to zero and stays there.
LEMMA DownFacts ==
  /\ \A t \in Nat : Down(t) \in Nat /\ Down(t) <= t /\ (t > 0 => Down(t) = t - 1)
  /\ Down(Never) = Never
BY DEF Down, Never

\* What has gone wrong is counted.
LEMMA Nats == IInv => trouble \in Nat /\ trouble + 1 \in Nat
BY DEF IInv, TypeOK

-----------------------------------------------------------------------------
(* The invariant holds at first                                            *)

\* Nothing has been tried and no thread has been started.
LEMMA InitIInv == Init => IInv
<1> SUFFICES ASSUME Init PROVE IInv
  OBVIOUS
<1>1. TypeOK
  BY Sizes DEF Init, TypeOK
<1>2. BudgetInv /\ WaitInv
  BY Sizes DEF Init, BudgetInv, WaitInv, Waiting
<1>3. ThreadsInv
  BY FS_EmptySet DEF Init, ThreadsInv, StopInv, CrowdInv, OldInv
<1> QED
  BY <1>1, <1>2, <1>3 DEF IInv

-----------------------------------------------------------------------------
(* Resolving a name, and connecting                                        *)

\* The steps that leave the threads alone are none of discover's.
LEMMA SameThreads ==
  ASSUME IInv, UNCHANGED threads, pc # "recv", pc' # "recv"
  PROVE  ThreadsInv'
<1>1. StopInv(threads')
  BY DEF IInv, ThreadsInv
<1>2. CrowdInv(threads', pc')
  BY DEF IInv, ThreadsInv, CrowdInv
<1>3. OldInv(threads', pc', timer')
  BY DEF OldInv
<1> QED
  BY <1>1, <1>2, <1>3 DEF ThreadsInv

\* Going somewhere and not sleeping there: an attempt, or the end.
LEMMA GoOn ==
  ASSUME IInv, NEW from, NEW to \in Over \cup {"connect", "restart"}, Go(from, to, 0),
         from \in {"start", "restart", "lookup", "connect", "refused", "pause", "served"},
         from \in {"refused", "pause"} => to = "connect",
         UNCHANGED <<budget, threads, probe>>, delay' \in {delay, InitialDelay}, trouble' \in Nat
  PROVE  IInv'
<1>1. /\ pc = from /\ pc' = to /\ timer' = 0
      /\ waited' = IF to \in {"lookup", "connect"} THEN 0 ELSE waited
      /\ UNCHANGED <<job, up, over>>
  BY DEF Go
<1>2. TypeOK'
  <2>1. delay' \in InitialDelay .. MaxDelay
    BY Sizes DEF IInv, TypeOK
  <2> QED
    BY <1>1, <2>1 DEF IInv, TypeOK, Over, Exited
<1>3. BudgetInv'
  BY <1>1 DEF IInv, BudgetInv, Over, Exited
<1>4. WaitInv'
  BY <1>1 DEF IInv, WaitInv, Waiting, Over, Exited
<1>5. ThreadsInv'
  BY <1>1, SameThreads DEF Over, Exited
<1> QED
  BY <1>2, <1>3, <1>4, <1>5 DEF IInv

\* An attempt to resolve begins.
LEMMA LookUp ==
  ASSUME IInv, NEW from \in {"start", "retry"}, NEW t \in 0 .. MaxLookup, Go(from, "lookup", t),
         UNCHANGED <<delay, threads, probe, trouble>>,
         budget' \in {Never} \cup 0 .. Budget
  PROVE  IInv'
<1>1. /\ pc = from /\ pc' = "lookup" /\ timer' = t /\ waited' = 0
      /\ UNCHANGED <<job, up, over>>
  BY DEF Go
<1>2. t \in Nat /\ t <= MaxLookup /\ over = 0
  BY <1>1, Sizes DEF IInv, BudgetInv
<1>3. TypeOK'
  BY <1>1, <1>2 DEF IInv, TypeOK
<1>4. BudgetInv'
  BY <1>1, <1>2, Sizes DEF BudgetInv
<1>5. WaitInv'
  BY <1>1 DEF WaitInv, Waiting
<1>6. ThreadsInv'
  BY <1>1, SameThreads
<1> QED
  BY <1>3, <1>4, <1>5, <1>6 DEF IInv

\* A sleep after an attempt that failed, no longer than the longest and, for a
\* lookup, than what is left of the budget.
LEMMA Sleep ==
  ASSUME IInv, NEW from \in {"lookup", "connect"}, NEW to \in Waiting, NEW t \in Nat,
         Go(from, to, t), t <= Longest,
         to = "retry" => budget # 0 /\ (budget = Never \/ t <= budget),
         delay' \in InitialDelay .. MaxDelay, UNCHANGED <<budget, threads, probe, trouble>>
  PROVE  IInv'
<1>1. /\ pc = from /\ pc' = to /\ timer' = t /\ waited' = waited
      /\ UNCHANGED <<job, up, over>>
  BY DEF Go, Waiting
<1>2. waited = 0 /\ over \in Nat
  BY <1>1 DEF IInv, TypeOK, WaitInv, Waiting
<1>3. TypeOK'
  BY <1>1 DEF IInv, TypeOK, Waiting
<1>4. BudgetInv'
  BY <1>1, <1>2 DEF IInv, BudgetInv, Waiting
<1>5. WaitInv'
  BY <1>1, <1>2 DEF WaitInv, Waiting
<1>6. ThreadsInv'
  BY <1>1, SameThreads DEF Waiting
<1> QED
  BY <1>3, <1>4, <1>5, <1>6 DEF IInv

\* Resolving: every step is one of the three above.
LEMMA ResolveStep ==
  ASSUME IInv, Resolve
  PROVE  IInv'
<1>1. CASE ServerIsName
  <2>1. PICK t \in 0 .. MaxLookup : Go("start", "lookup", t)
    BY <1>1 DEF ServerIsName
  <2>2. budget' \in {Never} \cup 0 .. Budget
    BY <1>1, Sizes DEF ServerIsName
  <2> QED
    BY <1>1, <2>1, <2>2, LookUp DEF ServerIsName, Rest
<1>2. CASE Retry
  <2>1. PICK t \in 0 .. MaxLookup : Go("retry", "lookup", t)
    BY <1>2 DEF Retry
  <2>2. budget' \in {Never} \cup 0 .. Budget
    BY <1>2 DEF Retry, IInv, TypeOK
  <2> QED
    BY <1>2, <2>1, <2>2, LookUp DEF Retry, Rest
<1>3. CASE Resolved
  BY <1>3, Nats, GoOn DEF Resolved, Rest, Over, Exited, Known
<1>4. CASE LookupError
  BY <1>4, Nats, GoOn DEF LookupError, Rest, Over, Exited
<1>5. CASE LookupTimedOut
  BY <1>5, Nats, GoOn DEF LookupTimedOut, Rest, Over, Exited
<1>6. CASE LookupAgain
  <2>1. /\ Go("lookup", "retry", SleepFor) /\ budget # 0 /\ delay' = Doubled
        /\ UNCHANGED <<budget, threads, probe, trouble>>
    BY <1>6 DEF LookupAgain, Spent, Rest
  <2>2. /\ SleepFor \in Nat /\ SleepFor <= Longest /\ Doubled \in InitialDelay .. MaxDelay
        /\ budget = Never \/ SleepFor <= budget
    <3>1. /\ delay \in Nat /\ delay <= MaxDelay /\ SleepFor \in Nat /\ SleepFor <= delay
          /\ Doubled \in InitialDelay .. MaxDelay /\ (budget = Never \/ SleepFor <= budget)
      BY DelayFacts DEF IInv
    <3> QED
      BY <3>1, Sizes
  <2> QED
    BY <2>1, <2>2, Sleep DEF Waiting
<1> QED
  BY <1>1, <1>2, <1>3, <1>4, <1>5, <1>6 DEF Resolve

\* Connecting: likewise.
LEMMA ConnectStep ==
  ASSUME IInv, NothingToResolve \/ Connected \/ Refused \/ ConnectAgain \/ ConnectError \/ AfterPause
  PROVE  IInv'
<1>1. CASE NothingToResolve
  BY <1>1, Nats, GoOn DEF NothingToResolve, Rest, Over, Exited, Known
<1>2. CASE Connected
  BY <1>2, Nats, GoOn DEF Connected, Rest, Over, Exited
<1>3. CASE ConnectAgain
  BY <1>3, Nats, GoOn DEF ConnectAgain, Rest, Over, Exited
<1>4. CASE AfterPause
  BY <1>4, Nats, GoOn DEF AfterPause, Rest, Over, Exited
<1>5. CASE Refused
  <2>1. delay \in Nat /\ delay <= Longest /\ Doubled \in InitialDelay .. MaxDelay
    <3>1. delay \in Nat /\ delay <= MaxDelay /\ Doubled \in InitialDelay .. MaxDelay
      BY DelayFacts DEF IInv
    <3> QED
      BY <3>1, Sizes
  <2>2. Go("connect", "refused", delay) /\ delay' = Doubled
        /\ UNCHANGED <<budget, threads, probe, trouble>>
    BY <1>5 DEF Refused, RefusedFor, Rest
  <2> QED
    BY <2>1, <2>2, Sleep DEF Waiting
<1>6. CASE ConnectError
  <2>1. /\ Go("connect", "pause", ConnectPause) /\ delay' = InitialDelay
        /\ UNCHANGED <<budget, threads, probe, trouble>>
    BY <1>6 DEF ConnectError, Rest
  <2>2. delay' \in InitialDelay .. MaxDelay
    BY <2>1, Sizes
  <2> QED
    BY <2>1, <2>2, Sleep, Sizes DEF Waiting
<1> QED
  BY <1>1, <1>2, <1>3, <1>4, <1>5, <1>6

-----------------------------------------------------------------------------
(* Discovery                                                               *)

\* The image of a finite set is finite.
LEMMA ImageFinite ==
  ASSUME NEW S, IsFiniteSet(S), NEW f, f = [x \in S |-> f[x]],
         NEW T, T = {f[x] : x \in S}
  PROVE  IsFiniteSet(T)
<1>1. f \in [S -> T]
  OBVIOUS
<1>2. \A t \in T : \E x \in S : f[x] = t
  OBVIOUS
<1>3. f \in Surjection(S, T)
  BY <1>1, <1>2, Fun_IsSurj
<1> QED
  BY <1>3, FS_Surjection

\* There is always a number left for one more thread.
LEMMA NumberLeft ==
  ASSUME NEW T, IsFiniteSet(T)
  PROVE  \E n \in 1 .. Cardinality(T) + 1 : \A th \in T : th.nr # n
<1> DEFINE N == 1 .. Cardinality(T) + 1
           f == [n \in N |-> CHOOSE th \in T : th.nr = n]
<1>1. Cardinality(T) \in Nat
  BY FS_CardinalityType
<1>2. IsFiniteSet(N) /\ Cardinality(N) = Cardinality(T) + 1
  <2>1. PICK k \in Nat : k = Cardinality(T) + 1 /\ k >= 1
    BY <1>1
  <2>2. IsFiniteSet(1 .. k) /\ Cardinality(1 .. k) = IF 1 > k THEN 0 ELSE k - 1 + 1
    BY FS_Interval
  <2> QED
    BY <2>1, <2>2
<1> SUFFICES ASSUME \A n \in N : \E th \in T : th.nr = n
             PROVE  FALSE
  OBVIOUS
<1>3. \A n \in N : f[n] \in T /\ f[n].nr = n
  OBVIOUS
<1>4. f \in [N -> T]
  BY <1>3
<1> HIDE DEF N, f
<1>5. Cardinality(T) < Cardinality(N)
  BY <1>1, <1>2
<1>6. \E x, y \in N : x # y /\ f[x] = f[y]
  BY <1>2, <1>4, <1>5, FS_PigeonHole
<1> QED
  BY <1>3, <1>6

\* discover starts where no call runs; its thread is told apart from those of
\* calls before by its number.
LEMMA StartedFacts ==
  ASSUME IInv, pc \in {"start", "restart"}
  PROVE  /\ Started(threads) \subseteq Thread
         /\ StopInv(Started(threads)) /\ CrowdInv(Started(threads), "recv")
         /\ OldInv(Started(threads), "recv", RecvTimeout)
<1> DEFINE k == CHOOSE n \in 1 .. Cardinality(threads) + 1 : \A th \in threads : th.nr # n
           new == [call |-> "runs", at |-> "check", timer |-> 0, old |-> 0, late |-> 0, nr |-> k]
<1>1. /\ threads \subseteq Thread /\ IsFiniteSet(threads) /\ \A x \in threads : x.call # "runs"
  BY DEF IInv, TypeOK, ThreadsInv, CrowdInv
<1>2. k \in Nat
  <2>1. k \in 1 .. Cardinality(threads) + 1
    BY <1>1, NumberLeft
  <2>2. Cardinality(threads) \in Nat
    BY <1>1, FS_CardinalityType
  <2> HIDE DEF k
  <2> QED
    BY <2>1, <2>2
<1>3. Started(threads) = threads \cup {new}
  BY DEF Started
<1> HIDE DEF k
<1>4. /\ new \in Thread /\ new.call = "runs" /\ new.at = "check" /\ new.late = 0 /\ new.old = 0
  BY <1>2, Sizes DEF Thread
<1> HIDE DEF new
<1>5. StopInv(threads) /\ CrowdInv(threads, pc)
  BY DEF IInv, ThreadsInv
<1>6. StopInv(Started(threads))
  BY <1>3, <1>4, <1>5, Sizes DEF StopInv
<1>7. CrowdInv(Started(threads), "recv")
  <2>1. \A x, y \in Started(threads) : x.call = y.call /\ x.call # "cut" => x = y
    BY <1>1, <1>3, <1>4, <1>5 DEF CrowdInv
  <2>2. IsFiniteSet(Started(threads))
    BY <1>1, <1>3, FS_AddElement
  <2> QED
    BY <2>1, <2>2 DEF CrowdInv
<1>8. OldInv(Started(threads), "recv", RecvTimeout)
  <2> SUFFICES ASSUME NEW x \in Started(threads), x.call # "runs"
               PROVE  /\ x.at = "send" => RecvTimeout = RecvTimeout
                      /\ x.at = "check" => RecvTimeout <= ProbeInterval + RecvTimeout
                      /\ x.at = "sleep" => x.timer + RecvTimeout <= ProbeInterval + RecvTimeout
    BY DEF OldInv
  <2>1. x \in Thread
    BY <1>1, <1>3, <1>4
  <2>2. x.timer \in 0 .. ProbeInterval
    BY <2>1 DEF Thread
  <2> QED
    BY <2>2, Sizes
<1> QED
  BY <1>1, <1>3, <1>4, <1>6, <1>7, <1>8

\* The flag is cleared: no thread is of a call that runs.
LEMMA ToldFacts ==
  ASSUME NEW T, T \subseteq Thread, StopInv(T), IsFiniteSet(T), NEW how \in {"timedout", "cut"}
  PROVE  /\ Told(T, how) \subseteq Thread /\ StopInv(Told(T, how)) /\ IsFiniteSet(Told(T, how))
         /\ \A x \in Told(T, how) : x.call # "runs"
         /\ \A x \in Told(T, how) :
              \/ x \in T
              \/ x.call = how /\ \E th \in T : th.call = "runs" /\ x = [th EXCEPT !.call = how]
<1> DEFINE f == [th \in T |-> IF th.call = "runs" THEN [th EXCEPT !.call = how] ELSE th]
<1>1. Told(T, how) = {f[th] : th \in T}
  BY DEF Told
<1>2. f = [th \in T |-> f[th]]
  OBVIOUS
<1>3. ASSUME NEW x \in Told(T, how)
      PROVE  /\ x \in Thread /\ x.call # "runs" /\ x.late <= 1
             /\ x.at = "send" => x.late = 0 /\ x.old = 0
             /\ x.at = "check" => x.old <= ProbeInterval
             /\ x.at = "sleep" => x.old + x.timer <= ProbeInterval
             /\ \/ x \in T
                \/ x.call = how /\ \E th \in T : th.call = "runs" /\ x = [th EXCEPT !.call = how]
  <2>1. PICK th \in T : x = IF th.call = "runs" THEN [th EXCEPT !.call = how] ELSE th
    BY DEF Told
  <2>2. /\ th \in Thread /\ th.late <= 1
        /\ th.call = "runs" \/ th.at = "send" => th.late = 0 /\ th.old = 0
        /\ th.at = "check" => th.old <= ProbeInterval
        /\ th.at = "sleep" => th.old + th.timer <= ProbeInterval
    BY DEF StopInv
  <2>3. CASE th.call = "runs"
    <3>1. /\ x \in Thread /\ x.call = how /\ x.at = th.at /\ x.late = th.late /\ x.old = th.old
          /\ x.timer = th.timer /\ x = [th EXCEPT !.call = how]
      BY <2>1, <2>2, <2>3 DEF Thread
    <3> QED
      BY <2>2, <2>3, <3>1
  <2>4. CASE th.call # "runs"
    BY <2>1, <2>2, <2>4
  <2> QED
    BY <2>3, <2>4
<1> HIDE DEF f
<1>4. IsFiniteSet(Told(T, how))
  BY <1>1, <1>2, ImageFinite
<1> QED
  BY <1>3, <1>4 DEF StopInv

\* discover is called.
LEMMA DiscoverStep ==
  ASSUME IInv, Discover \/ DiscoverAgain
  PROVE  IInv'
<1>1. /\ pc \in {"start", "restart"} /\ pc' = "recv" /\ timer' = RecvTimeout /\ waited' = waited
      /\ threads' = Started(threads) /\ probe' = "none"
      /\ UNCHANGED <<job, up, over, budget, delay, trouble>>
  BY DEF Discover, DiscoverAgain, Go
<1>2. /\ threads' \subseteq Thread /\ StopInv(threads') /\ CrowdInv(threads', "recv")
      /\ OldInv(threads', "recv", RecvTimeout)
  BY <1>1, StartedFacts
<1>3. TypeOK'
  BY <1>1, <1>2, Sizes DEF IInv, TypeOK
<1>4. BudgetInv' /\ WaitInv'
  BY <1>1 DEF IInv, BudgetInv, WaitInv, Waiting
<1>5. ThreadsInv'
  BY <1>1, <1>2 DEF ThreadsInv
<1> QED
  BY <1>3, <1>4, <1>5 DEF IInv

\* discover returns before its time, with an answer or an error: its thread
\* joins those of the calls cut short.
LEMMA CutStep ==
  ASSUME IInv, pc = "recv", NEW to \in {"connect", "restart"}, Go("recv", to, 0),
         threads' = Told(threads, "cut"), probe' = "none", trouble' \in Nat,
         UNCHANGED <<budget, delay>>
  PROVE  IInv'
<1>1. /\ pc = "recv" /\ pc' = to /\ timer' = 0 /\ waited' \in {0, waited}
      /\ UNCHANGED <<job, up, over>>
  BY DEF Go
<1>2. /\ threads \subseteq Thread /\ StopInv(threads) /\ IsFiniteSet(threads)
      /\ \A x, y \in threads : x.call = y.call /\ x.call # "cut" => x = y
  BY DEF IInv, TypeOK, ThreadsInv, CrowdInv
<1>3. /\ threads' \subseteq Thread /\ StopInv(threads') /\ IsFiniteSet(threads')
      /\ \A x \in threads' : x.call # "runs" /\ (x \in threads \/ x.call = "cut")
  BY <1>2, ToldFacts
<1>4. TypeOK'
  <2>1. waited' \in Nat
    BY <1>1 DEF IInv, TypeOK
  <2> QED
    BY <1>1, <1>3, <2>1 DEF IInv, TypeOK
<1>5. BudgetInv' /\ WaitInv'
  BY <1>1 DEF IInv, BudgetInv, WaitInv, Waiting
<1>6. CrowdInv(threads', pc')
  BY <1>2, <1>3 DEF CrowdInv
<1>7. ThreadsInv'
  BY <1>1, <1>3, <1>6 DEF ThreadsInv, OldInv
<1> QED
  BY <1>4, <1>5, <1>7 DEF IInv

\* discover times out: the threads of all calls before are gone by now, so the
\* one there is is the only one that is left.
LEMMA RecvTimedOutStep ==
  ASSUME IInv, RecvTimedOut
  PROVE  IInv'
<1>1. /\ pc = "recv" /\ timer = 0 /\ pc' = "restart" /\ timer' = 0 /\ waited' = waited
      /\ threads' = Told(threads, "timedout") /\ probe' = "none"
      /\ UNCHANGED <<job, up, over, budget, delay, trouble>>
  BY DEF RecvTimedOut, Go
<1>2. /\ threads \subseteq Thread /\ StopInv(threads) /\ IsFiniteSet(threads)
      /\ \A x, y \in threads : x.call = y.call /\ x.call # "cut" => x = y
  BY DEF IInv, TypeOK, ThreadsInv, CrowdInv
<1>3. \A x \in threads : x.call = "runs"
  <2> SUFFICES ASSUME NEW x \in threads, x.call # "runs" PROVE FALSE
    OBVIOUS
  <2>1. /\ x.at = "send" => 0 = RecvTimeout
        /\ x.at = "check" => RecvTimeout <= ProbeInterval + 0
        /\ x.at = "sleep" => x.timer + RecvTimeout <= ProbeInterval + 0
    BY <1>1 DEF IInv, ThreadsInv, OldInv
  <2>2. x \in Thread
    BY <1>2
  <2>3. x.at \in {"check", "send", "sleep"} /\ x.timer \in 0 .. ProbeInterval
    BY <2>2 DEF Thread
  <2> QED
    BY <2>1, <2>3, Sizes
<1>4. /\ threads' \subseteq Thread /\ StopInv(threads') /\ IsFiniteSet(threads')
      /\ \A x \in threads' : x.call # "runs"
      /\ \A x \in threads' : \E th \in threads : x = [th EXCEPT !.call = "timedout"]
  <2>1. /\ threads' \subseteq Thread /\ StopInv(threads') /\ IsFiniteSet(threads')
        /\ \A x \in threads' : x.call # "runs"
        /\ \A x \in threads' :
             x \in threads \/ \E th \in threads : x = [th EXCEPT !.call = "timedout"]
    BY <1>1, <1>2, ToldFacts
  <2> QED
    BY <1>3, <2>1
<1>5. \A x, y \in threads : x = y
  BY <1>2, <1>3
<1>6. \A x, y \in threads' : x = y
  BY <1>4, <1>5
<1>7. TypeOK'
  BY <1>1, <1>4 DEF IInv, TypeOK
<1>8. BudgetInv' /\ WaitInv'
  BY <1>1 DEF IInv, BudgetInv, WaitInv, Waiting
<1>9. CrowdInv(threads', pc')
  BY <1>4, <1>6 DEF CrowdInv
<1>10. ThreadsInv'
  BY <1>1, <1>4, <1>9 DEF ThreadsInv, OldInv
<1> QED
  BY <1>7, <1>8, <1>10 DEF IInv

\* An answer, an error of recv_from, and an error of the socket before.
LEMMA EndsEarlyStep ==
  ASSUME IInv, Answered \/ RecvError \/ DiscoverError
  PROVE  IInv'
<1>1. CASE Answered
  <2>1. pc = "recv"
    BY <1>1 DEF Answered, Go
  <2>2. trouble' \in Nat
    BY <1>1, Nats DEF Answered
  <2> QED
    BY <1>1, <2>1, <2>2, CutStep DEF Answered
<1>2. CASE RecvError
  <2>1. pc = "recv"
    BY <1>2 DEF RecvError, Go
  <2>2. trouble' \in Nat
    BY <1>2, Nats DEF RecvError
  <2> QED
    BY <1>2, <2>1, <2>2, CutStep DEF RecvError
<1>3. CASE DiscoverError
  <2>1. UNCHANGED <<budget, delay, threads, probe>> /\ trouble' \in Nat
    BY <1>3, Nats DEF DiscoverError, Rest
  <2>2. CASE Go("start", "restart", 0)
    BY <2>1, <2>2, GoOn
  <2>3. CASE Go("restart", "restart", 0)
    BY <2>1, <2>3, GoOn
  <2> QED
    BY <1>3, <2>2, <2>3 DEF DiscoverError
<1> QED
  BY <1>1, <1>2, <1>3

\* A session is lost: back to discovery or to the server of the command line.
LEMMA SessionLostStep ==
  ASSUME IInv, SessionLost
  PROVE  IInv'
<1> DEFINE to == IF job.server = "none" THEN "restart" ELSE "connect"
<1>1. /\ Go("served", to, 0) /\ delay' = InitialDelay /\ UNCHANGED <<budget, threads, probe>>
      /\ trouble' \in Nat
  BY Nats DEF SessionLost
<1>2. to \in {"connect", "restart"}
  OBVIOUS
<1> HIDE DEF to
<1> QED
  BY <1>1, <1>2, GoOn

-----------------------------------------------------------------------------
(* The probe threads                                                       *)

\* One thread moves on and stays who it is.
LEMMA MoveStep ==
  ASSUME IInv, NEW th \in threads, NEW to \in Thread, to.call = th.call,
         StopInv({to}), OldInv({to}, pc, timer),
         Move(th, to), probe' \in {"none", "probe", "answer"},
         UNCHANGED <<job, pc, timer, budget, delay, up, over, waited, trouble>>
  PROVE  IInv'
<1>1. threads' = (threads \ {th}) \cup {to}
  BY DEF Move
<1>2. TypeOK'
  BY <1>1 DEF IInv, TypeOK
<1>3. BudgetInv' /\ WaitInv'
  BY DEF IInv, BudgetInv, WaitInv
<1>4. StopInv(threads')
  BY <1>1 DEF IInv, ThreadsInv, StopInv
<1>5. OldInv(threads', pc', timer')
  BY <1>1 DEF IInv, ThreadsInv, OldInv
<1>6. CrowdInv(threads', pc')
  <2>1. CrowdInv(threads, pc)
    BY DEF IInv, ThreadsInv
  <2>2. IsFiniteSet(threads \ {th})
    BY <2>1, FS_RemoveElement DEF CrowdInv
  <2>3. IsFiniteSet(threads')
    BY <1>1, <2>2, FS_AddElement
  <2> QED
    BY <1>1, <2>1, <2>3 DEF CrowdInv
<1> QED
  BY <1>2, <1>3, <1>4, <1>5, <1>6 DEF IInv, ThreadsInv

\* A thread that finds its flag cleared ends.
LEMMA ThreadEnds ==
  ASSUME IInv, NEW th \in threads, threads' = threads \ {th},
         UNCHANGED <<job, pc, timer, budget, delay, probe, up, over, waited, trouble>>
  PROVE  IInv'
<1>1. TypeOK'
  BY DEF IInv, TypeOK
<1>2. BudgetInv' /\ WaitInv'
  BY DEF IInv, BudgetInv, WaitInv
<1>3. StopInv(threads') /\ OldInv(threads', pc', timer')
  BY DEF IInv, ThreadsInv, StopInv, OldInv
<1>4. CrowdInv(threads', pc')
  <2>1. CrowdInv(threads, pc)
    BY DEF IInv, ThreadsInv
  <2>2. IsFiniteSet(threads')
    BY <2>1, FS_RemoveElement DEF CrowdInv
  <2> QED
    BY <2>1, <2>2 DEF CrowdInv
<1> QED
  BY <1>1, <1>2, <1>3, <1>4 DEF IInv, ThreadsInv

\* The steps of a probe thread.
LEMMA ProbingStep ==
  ASSUME IInv, Probing
  PROVE  IInv'
<1>1. PICK th \in threads : ProbeCheck(th) \/ ProbeSend(th) \/ ProbeWake(th)
  BY DEF Probing
<1>2. /\ th \in Thread /\ th.late <= 1
      /\ th.call = "runs" \/ th.at = "send" => th.late = 0 /\ th.old = 0
      /\ th.at = "check" => th.old <= ProbeInterval
      /\ th.at = "sleep" => th.old + th.timer <= ProbeInterval
      /\ probe \in {"none", "probe", "answer"} /\ timer \in Nat
  BY DEF IInv, TypeOK, ThreadsInv, StopInv
<1>3. /\ th.late \in Nat /\ th.old \in Nat /\ th.timer \in 0 .. ProbeInterval
  BY <1>2 DEF Thread
<1>4. pc = "recv" /\ th.call # "runs" =>
        /\ th.at = "send" => timer = RecvTimeout
        /\ th.at = "check" => RecvTimeout <= ProbeInterval + timer
        /\ th.at = "sleep" => th.timer + RecvTimeout <= ProbeInterval + timer
  BY DEF IInv, ThreadsInv, OldInv
<1>5. CASE ProbeCheck(th) /\ th.call = "runs"
  <2> DEFINE to == [th EXCEPT !.at = "send"]
  <2>1. /\ Move(th, to) /\ UNCHANGED <<job, pc, timer, budget, delay, probe, up, over, waited, trouble>>
    BY <1>5 DEF ProbeCheck, Loops
  <2>2. /\ to \in Thread /\ to.call = th.call /\ to.late = th.late /\ to.old = th.old
        /\ to.at = "send"
    BY <1>2 DEF Thread
  <2> HIDE DEF to
  <2>3. OldInv({to}, pc, timer)
    BY <1>5, <2>2 DEF OldInv
  <2>4. StopInv({to})
    BY <1>2, <1>5, <2>2 DEF StopInv
  <2> QED
    BY <1>2, <2>1, <2>2, <2>3, <2>4, MoveStep
<1>6. CASE ProbeCheck(th) /\ th.call # "runs"
  BY <1>6, ThreadEnds DEF ProbeCheck, Loops
<1>7. CASE ProbeSend(th)
  <2> DEFINE late == IF th.call = "runs" THEN th.late ELSE th.late + 1
             to == [th EXCEPT !.at = "sleep", !.timer = ProbeInterval, !.late = late]
  <2>1. /\ th.at = "send" /\ Move(th, to) /\ probe' \in {"none", "probe", "answer"}
        /\ UNCHANGED <<job, pc, timer, budget, delay, up, over, waited, trouble>>
    BY <1>2, <1>7 DEF ProbeSend
  <2>2. late \in Nat /\ late <= 1 /\ (th.call = "runs" => late = 0) /\ ProbeInterval \in 0 .. ProbeInterval
    BY <1>2, <1>3, <2>1, Sizes
  <2> HIDE DEF late
  <2>3. /\ to \in Thread /\ to.call = th.call /\ to.at = "sleep" /\ to.timer = ProbeInterval
        /\ to.late = late /\ to.old = th.old
    BY <1>2, <2>2 DEF Thread
  <2> HIDE DEF to
  <2>4. OldInv({to}, pc, timer)
    <3>1. pc = "recv" /\ to.call # "runs" => to.timer + RecvTimeout <= ProbeInterval + timer
      BY <1>2, <1>4, <2>1, <2>3, Sizes
    <3> QED
      BY <2>3, <3>1 DEF OldInv
  <2>5. StopInv({to})
    <3>1. to.old = 0 /\ to.old + to.timer <= ProbeInterval
      BY <1>2, <2>1, <2>3, Sizes
    <3> QED
      BY <2>2, <2>3, <3>1 DEF StopInv
  <2> QED
    BY <2>1, <2>3, <2>4, <2>5, MoveStep
<1>8. CASE ProbeWake(th)
  <2> DEFINE to == [th EXCEPT !.at = "check"]
  <2>1. /\ th.at = "sleep" /\ th.timer = 0 /\ Move(th, to)
        /\ UNCHANGED <<job, pc, timer, budget, delay, probe, up, over, waited, trouble>>
    BY <1>8 DEF ProbeWake
  <2>2. /\ to \in Thread /\ to.call = th.call /\ to.late = th.late /\ to.old = th.old
        /\ to.at = "check"
    BY <1>2 DEF Thread
  <2> HIDE DEF to
  <2>3. OldInv({to}, pc, timer)
    <3>1. pc = "recv" /\ to.call # "runs" => RecvTimeout <= ProbeInterval + timer
      BY <1>2, <1>4, <2>1, <2>2, Sizes
    <3> QED
      BY <2>2, <3>1 DEF OldInv
  <2>4. StopInv({to})
    <3>1. to.old <= ProbeInterval
      BY <1>2, <1>3, <2>1, <2>2
    <3> QED
      BY <1>2, <2>2, <3>1 DEF StopInv
  <2> QED
    BY <1>2, <2>1, <2>2, <2>3, <2>4, MoveStep
<1> QED
  BY <1>1, <1>5, <1>6, <1>7, <1>8

-----------------------------------------------------------------------------
(* Time, the network, and the theorems                                     *)

\* A moment passes for everyone, and for nobody who has something to do.
LEMMA TickStep ==
  ASSUME IInv, Tick
  PROVE  IInv'
<1>1. /\ pc \notin Exited /\ timer' = Down(timer)
      /\ budget' = IF Resolving THEN Down(budget) ELSE budget
      /\ over' = IF Resolving /\ budget = 0 THEN over + 1 ELSE over
      /\ waited' = IF up /\ pc \in Waiting THEN waited + 1 ELSE waited
      /\ UNCHANGED <<job, pc, delay, probe, up, trouble>>
  BY DEF Tick, Waiting
<1>0. threads' = {[th EXCEPT !.timer = Down(th.timer), !.old = Older(th)] : th \in threads}
  BY DEF Tick
<1>2. /\ pc \notin {"start", "restart", "connect"}
      /\ pc \in {"lookup", "retry", "recv", "refused", "pause"} => timer # 0
      /\ \A th \in threads : th.at \notin {"check", "send"} /\ th.timer # 0
  BY DEF Tick, Due
<1>3. /\ timer \in Nat /\ over \in Nat /\ waited \in Nat /\ budget \in {Never} \cup 0 .. Budget
      /\ threads \subseteq Thread
      /\ pc \in Over \cup {"start", "lookup", "retry", "recv", "restart", "connect", "refused", "pause"}
  BY DEF IInv, TypeOK
<1>4. /\ timer' \in Nat
      /\ pc # "served" => timer > 0 /\ timer' = timer - 1
  BY <1>1, <1>2, <1>3 DEF Down, Over, Exited
<1>5. /\ budget' \in {Never} \cup 0 .. Budget
      /\ budget = Never => budget' = Never
      /\ budget \in Nat /\ Resolving => budget' = Down(budget)
      /\ ~Resolving => budget' = budget
  BY <1>1, <1>3, Sizes DEF Down, Never
<1>6. ASSUME NEW x \in threads'
      PROVE  \E th \in threads :
               /\ x = [th EXCEPT !.timer = Down(th.timer), !.old = Older(th)]
               /\ x \in Thread /\ x.call = th.call /\ x.late = th.late
               /\ x.at = "sleep" /\ th.at = "sleep" /\ x.timer = th.timer - 1 /\ th.timer \in Nat
               /\ th.old \in Nat /\ x.old = IF th.call = "runs" THEN 0 ELSE th.old + 1
  <2>1. PICK th \in threads : x = [th EXCEPT !.timer = Down(th.timer), !.old = Older(th)]
    BY <1>0
  <2>2. th \in Thread
    BY <1>3
  <2>3. /\ th.at = "sleep" /\ th.timer \in 0 .. ProbeInterval /\ th.timer # 0 /\ th.old \in Nat
    BY <1>2, <2>2 DEF Thread
  <2>4. /\ Down(th.timer) = th.timer - 1 /\ th.timer - 1 \in 0 .. ProbeInterval /\ th.timer \in Nat
        /\ Older(th) \in Nat
    BY <2>3, Sizes DEF Down, Older
  <2>5. /\ x \in Thread /\ x.call = th.call /\ x.late = th.late /\ x.at = th.at
        /\ x.timer = th.timer - 1 /\ x.old = Older(th)
    BY <2>1, <2>2, <2>4 DEF Thread
  <2> QED
    BY <2>1, <2>3, <2>4, <2>5 DEF Older
<1>7. TypeOK'
  <2>1. over' \in Nat /\ waited' \in Nat /\ timer' \in Nat
    BY <1>1, <1>3, <1>4
  <2>2. threads' \subseteq Thread
    BY <1>6
  <2> QED
    BY <1>1, <1>5, <2>1, <2>2 DEF IInv, TypeOK
<1>8. BudgetInv'
  <2>1. BudgetInv
    BY DEF IInv
  <2>2. CASE pc = "lookup"
    <3>1. Resolving /\ over + timer <= MaxLookup /\ (over > 0 => budget = 0)
      BY <2>1, <2>2 DEF BudgetInv, Resolving
    <3>2. CASE budget = 0
      <4>1. over' = over + 1 /\ budget' = 0
        BY <1>1, <1>5, <3>1, <3>2 DEF Down
      <4> QED
        BY <1>1, <1>3, <1>4, <2>2, <3>1, <4>1, Sizes DEF BudgetInv
    <3>3. CASE budget # 0
      <4>1. over' = over /\ over = 0
        BY <1>1, <1>3, <3>1, <3>3
      <4> QED
        BY <1>1, <1>3, <1>4, <2>2, <3>1, <4>1, Sizes DEF BudgetInv
    <3> QED
      BY <3>2, <3>3
  <2>3. CASE pc = "retry"
    <3>1. Resolving /\ over = 0 /\ (budget = Never \/ timer <= budget)
      BY <2>1, <2>3 DEF BudgetInv, Resolving
    <3>2. budget # 0
      BY <1>3, <1>4, <2>3, <3>1 DEF Never
    <3>3. over' = 0
      BY <1>1, <3>1, <3>2
    <3>4. budget' = Never \/ timer' <= budget'
      <4>1. CASE budget = Never
        BY <1>5, <4>1
      <4>2. CASE budget # Never
        <5>1. budget \in Nat /\ budget # 0
          BY <1>3, <3>2, <4>2, Sizes
        <5>2. budget' = budget - 1
          BY <1>5, <3>1, <5>1 DEF Down
        <5> QED
          BY <1>3, <1>4, <2>3, <3>1, <4>2, <5>1, <5>2
      <4> QED
        BY <4>1, <4>2
    <3> QED
      BY <1>1, <2>3, <3>3, <3>4, Sizes DEF BudgetInv
  <2>4. CASE pc \notin {"lookup", "retry"}
    BY <1>1, <2>1, <2>4 DEF BudgetInv, Resolving
  <2> QED
    BY <2>2, <2>3, <2>4
<1>9. WaitInv'
  <2>1. CASE pc \in Waiting
    <3>1. waited + timer <= Longest /\ (waited' = waited \/ waited' = waited + 1)
      BY <1>1, <2>1 DEF IInv, WaitInv
    <3>2. waited' + timer' <= Longest
      BY <1>3, <1>4, <2>1, <3>1, Sizes DEF Waiting
    <3> QED
      BY <1>1, <2>1, <3>2 DEF WaitInv
  <2>2. CASE pc \notin Waiting
    BY <1>1, <2>2 DEF IInv, WaitInv
  <2> QED
    BY <2>1, <2>2
<1>10. StopInv(threads')
  <2> SUFFICES ASSUME NEW x \in threads'
               PROVE  /\ x.late <= 1 /\ x.at = "sleep" /\ x.old + x.timer <= ProbeInterval
                      /\ x.call = "runs" => x.late = 0 /\ x.old = 0
    BY DEF StopInv
  <2>1. PICK th \in threads :
          /\ x.call = th.call /\ x.late = th.late /\ x.at = "sleep" /\ th.at = "sleep"
          /\ x.timer = th.timer - 1 /\ th.timer \in Nat /\ th.old \in Nat
          /\ x.old = IF th.call = "runs" THEN 0 ELSE th.old + 1
    BY <1>6
  <2>2. /\ th.late <= 1 /\ th.old + th.timer <= ProbeInterval
        /\ th.call = "runs" => th.late = 0 /\ th.old = 0
    BY <2>1 DEF IInv, ThreadsInv, StopInv
  <2> QED
    BY <2>1, <2>2, Sizes
<1>11. CrowdInv(threads', pc')
  <2>1. CrowdInv(threads, pc)
    BY DEF IInv, ThreadsInv
  <2>2. IsFiniteSet(threads')
    <3> DEFINE f == [th \in threads |-> [th EXCEPT !.timer = Down(th.timer), !.old = Older(th)]]
    <3>1. threads' = {f[th] : th \in threads} /\ f = [th \in threads |-> f[th]]
      BY <1>0
    <3>2. IsFiniteSet(threads)
      BY <2>1 DEF CrowdInv
    <3> HIDE DEF f
    <3> QED
      BY <3>1, <3>2, ImageFinite
  <2>3. ASSUME NEW x \in threads', NEW y \in threads'
        PROVE  /\ x.call = y.call /\ x.call # "cut" => x = y
               /\ pc # "recv" => x.call # "runs"
    <3>1. PICK a \in threads :
            x = [a EXCEPT !.timer = Down(a.timer), !.old = Older(a)] /\ x.call = a.call
      BY <1>6
    <3>2. PICK b \in threads :
            y = [b EXCEPT !.timer = Down(b.timer), !.old = Older(b)] /\ y.call = b.call
      BY <1>6
    <3> QED
      BY <2>1, <3>1, <3>2 DEF CrowdInv
  <2> QED
    BY <1>1, <2>2, <2>3 DEF CrowdInv
<1>12. OldInv(threads', pc', timer')
  <2>1. ASSUME NEW x \in threads', pc = "recv", x.call # "runs"
        PROVE  x.at = "sleep" /\ x.timer + RecvTimeout <= ProbeInterval + timer'
    <3>1. PICK th \in threads : /\ x.call = th.call /\ th.at = "sleep" /\ x.at = "sleep"
                                /\ x.timer = th.timer - 1 /\ th.timer \in Nat
      BY <1>6
    <3>2. th.timer + RecvTimeout <= ProbeInterval + timer
      BY <2>1, <3>1 DEF IInv, ThreadsInv, OldInv
    <3> QED
      BY <1>3, <1>4, <2>1, <3>1, <3>2, Sizes
  <2> QED
    BY <1>1, <2>1 DEF OldInv
<1> QED
  BY <1>7, <1>8, <1>9, <1>10, <1>11, <1>12 DEF IInv, ThreadsInv

\* The network changes, an answer is sent, a datagram is lost: a wait starts
\* anew at most.
LEMMA OutsideStep ==
  ASSUME IInv, NetworkChanges \/ ServerAnswers \/ DatagramLost \/ UNCHANGED vars
  PROVE  IInv'
<1>1. /\ UNCHANGED <<job, pc, timer, budget, delay, threads, over, trouble>>
      /\ waited' = 0 \/ waited' = waited
      /\ probe' = "none" \/ probe' = "answer" \/ probe' = probe
      /\ (up' = up) \/ (up' = ~up)
  BY DEF NetworkChanges, ServerAnswers, DatagramLost, vars
<1>2. /\ waited \in Nat /\ timer \in Nat /\ up \in BOOLEAN /\ probe \in {"none", "probe", "answer"}
  BY DEF IInv, TypeOK
<1>3. up' \in BOOLEAN /\ waited' \in Nat /\ probe' \in {"none", "probe", "answer"}
  <2>1. up' \in BOOLEAN
    BY <1>1, <1>2, Zenon
  <2> QED
    BY <1>1, <1>2, <2>1
<1>4. TypeOK'
  BY <1>1, <1>3 DEF IInv, TypeOK
<1>5. BudgetInv'
  BY <1>1 DEF IInv, BudgetInv
<1>6. WaitInv'
  BY <1>1, <1>2, Sizes DEF IInv, WaitInv
<1>7. ThreadsInv'
  BY <1>1 DEF IInv, ThreadsInv
<1> QED
  BY <1>4, <1>5, <1>6, <1>7 DEF IInv

\* Every step keeps the invariant.
LEMMA StepIInv == IInv /\ [Next]_vars => IInv'
<1> SUFFICES ASSUME IInv, [Next]_vars PROVE IInv'
  OBVIOUS
<1>1. CASE Program
  <2>1. CASE Resolve
    BY <2>1, ResolveStep
  <2>2. CASE Discover \/ DiscoverAgain
    BY <2>2, DiscoverStep
  <2>3. CASE RecvTimedOut
    BY <2>3, RecvTimedOutStep
  <2>4. CASE Answered \/ DiscoverError
    BY <2>4, EndsEarlyStep
  <2>5. CASE NothingToResolve \/ Connected \/ Refused \/ ConnectAgain \/ ConnectError \/ AfterPause
    BY <2>5, ConnectStep
  <2> QED
    BY <1>1, <2>1, <2>2, <2>3, <2>4, <2>5 DEF Program
<1>2. CASE Probing
  BY <1>2, ProbingStep
<1>3. CASE Tick
  BY <1>3, TickStep
<1>4. CASE NetworkChanges \/ ServerAnswers \/ DatagramLost \/ UNCHANGED vars
  BY <1>4, OutsideStep
<1>5. CASE RecvError
  BY <1>5, EndsEarlyStep
<1>6. CASE SessionLost
  BY <1>6, SessionLostStep
<1> QED
  BY <1>1, <1>2, <1>3, <1>4, <1>5, <1>6 DEF Next

\* The invariant holds throughout.
LEMMA Invariant == Spec => []IInv
BY InitIInv, StepIInv, PTL DEF Spec

\* Types; the back-off stays between the first and the longest delay.
THEOREM TypeCorrect == Spec => []TypeOK
<1>1. IInv => TypeOK
  BY DEF IInv
<1> QED
  BY Invariant, <1>1, PTL

\* Only a single call of lookup_host takes --create-service past its timeout,
\* whatever the timeout and the delays are.
THEOREM BudgetKeptHolds == Spec => []BudgetKept
<1>1. IInv => BudgetKept
  BY DEF IInv, BudgetInv, BudgetKept
<1> QED
  BY Invariant, <1>1, PTL

\* Once the network is back the next attempt comes within the longest delay of
\* the back-off or the pause, however long it was away.
THEOREM NoticesInTimeHolds == Spec => []NoticesInTime
<1>1. IInv => NoticesInTime
  <2> SUFFICES ASSUME IInv PROVE waited <= Longest
    BY DEF NoticesInTime, Longest
  <2>1. waited \in Nat /\ timer \in Nat
    BY DEF IInv, TypeOK
  <2> QED
    BY <2>1, Sizes DEF IInv, WaitInv
<1> QED
  BY Invariant, <1>1, PTL

\* Calls of discover that time out never leave more than one probe thread beside
\* that of the call that runs; every thread that is told to stop is gone within
\* the interval of the probes and sends one more at most, however often recv_from
\* fails or a session is lost, for all timers with which discover waits for
\* longer than a probe thread sleeps.
THEOREM ProbersStopHolds == Spec => []ProbersStop
<1>1. IInv => ProbersStop
  <2> SUFFICES ASSUME IInv, NEW th \in threads
               PROVE  th.old <= ProbeInterval /\ th.late <= 1
    BY DEF IInv, ThreadsInv, CrowdInv, ProbersStop
  <2>1. th \in Thread
    BY DEF IInv, TypeOK
  <2>2. th.at \in {"check", "send", "sleep"} /\ th.timer \in 0 .. ProbeInterval /\ th.old \in Nat
    BY <2>1 DEF Thread
  <2>3. /\ th.late <= 1
        /\ th.at = "send" => th.old = 0
        /\ th.at = "check" => th.old <= ProbeInterval
        /\ th.at = "sleep" => th.old + th.timer <= ProbeInterval
    BY DEF IInv, ThreadsInv, StopInv
  <2> QED
    BY <2>2, <2>3, Sizes
<1> QED
  BY Invariant, <1>1, PTL
=============================================================================
