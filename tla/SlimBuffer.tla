------------------------------ MODULE SlimBuffer ------------------------------
(***************************************************************************)
(* lms-proto/src/buffer.rs: a reader that a background thread keeps        *)
(* filled.  Two threads share a VecDeque under a mutex with two condition  *)
(* variables:                                                              *)
(*                                                                         *)
(*   - the fill thread (fill_loop) waits for room, reads from the source   *)
(*     WITHOUT the lock, and appends what it read under the lock;          *)
(*   - the owner calls read, fill_buf, consume and finally drops the       *)
(*     buffer, which sets the shutdown flag and joins the fill thread.     *)
(*                                                                         *)
(* One action is one stretch of code between two points at which the other *)
(* thread can run: a critical section, a notification made after the lock  *)
(* was released, or an unlocked piece.  The i-th byte of the source is the *)
(* number i.  A Condvar may wake its waiter spuriously.                    *)
(***************************************************************************)
EXTENDS Integers, Sequences

CONSTANTS
  Capacity,     \* capacity argument of with_capacity
  Threshold,    \* threshold argument of with_capacity
  ReadChunk,    \* READ_CHUNK: size of one read of the source
  StagingSize,  \* STAGING_SIZE: most bytes moved to the owner's side at once
  MaxRead,      \* bound: largest slice the owner passes to read
  MaxSource     \* bound: longest source considered

ASSUME SlimBufferAssumption ==
  /\ Capacity \in Nat /\ Threshold \in Nat /\ MaxSource \in Nat
  /\ ReadChunk \in Nat \ {0} /\ StagingSize \in Nat \ {0} /\ MaxRead \in Nat \ {0}

VARIABLES
  \* State, under the mutex
  buf, eof, error, shutdown,
  \* the owner's side of SlimBuffer
  staging, pos,
  \* the two fields of the shared StatusData this file writes
  fullness, bytesReceived,
  \* locals of fill_loop
  fillPc, want, kind, chunk, reached, signalled,
  \* the owner's call in progress: where it is, which call, slice length
  userPc, op, slice,
  \* history: bytes the source has produced, bytes handed to the owner,
  \* calls of threshold_cb, whether a fatal error was recorded, the errors
  \* the owner was given and whether it was told the end of file
  produced, delivered, calls, failed, errors, ended

shared  == <<buf, eof, error, shutdown>>
owner   == <<staging, pos>>
status  == <<fullness, bytesReceived>>
fill    == <<fillPc, want, kind, chunk, reached, signalled>>
user    == <<userPc, op, slice>>
history == <<produced, delivered, calls, failed, errors, ended>>
vars    == <<shared, owner, status, fill, user, history>>

Larger(a, b)  == IF a >= b THEN a ELSE b
Smaller(a, b) == IF a <= b THEN a ELSE b

\* The capacity the buffer is built with: never below the threshold, never 0.
Cap == Larger(Larger(Capacity, Threshold), 1)

\* The n source bytes that follow the first m.
Bytes(m, n) == [i \in 1 .. n |-> m + i]

-----------------------------------------------------------------------------
(* SlimBuffer::with_capacity                                               *)

Init ==
  /\ buf = << >> /\ eof = FALSE /\ error = FALSE /\ shutdown = FALSE
  /\ staging = << >> /\ pos = 0
  /\ fullness = 0 /\ bytesReceived = 0
  /\ fillPc = "room" /\ want = 0 /\ kind = "none" /\ chunk = << >>
  /\ reached = FALSE /\ signalled = FALSE
  /\ userPc = "idle" /\ op = "none" /\ slice = 0
  /\ produced = 0 /\ delivered = << >> /\ calls = 0 /\ failed = FALSE
  /\ errors = 0 /\ ended = FALSE

-----------------------------------------------------------------------------
(* The fill thread                                                         *)

\* Mutant: a read ignores the room that is left.
WantedIgnoringRoom == ReadChunk

\* How much one read asks for: the room seen under the lock, at most a chunk.
Wanted == Smaller(Cap - Len(buf), ReadChunk)

\* Top of the loop, under the lock: stop, park on `writable`, or go and read.
AwaitRoom ==
  /\ fillPc = "room"
  /\ \/ /\ shutdown
        /\ fillPc' = "exited"
        /\ UNCHANGED want
     \/ /\ ~shutdown /\ Len(buf) >= Cap
        /\ fillPc' = "parked"
        /\ UNCHANGED want
     \/ /\ ~shutdown /\ Len(buf) < Cap
        /\ fillPc' = "read"
        /\ want' = Wanted
  /\ UNCHANGED <<shared, owner, status, kind, chunk, reached, signalled, user, history>>

\* source.read, without the lock: some bytes, end of file, a fatal error, or
\* one of the error kinds that are retried (Interrupted, WouldBlock, TimedOut).
ReadData ==
  /\ fillPc = "read"
  /\ \E n \in 1 .. Smaller(want, MaxSource - produced) :
        /\ chunk' = Bytes(produced, n)
        /\ produced' = produced + n
  /\ kind' = "data"
  /\ fillPc' = "commit"
  /\ UNCHANGED <<shared, owner, status, want, reached, signalled, user,
                 delivered, calls, failed, errors, ended>>

ReadEnd ==
  /\ fillPc = "read"
  /\ kind' \in {"eof", "fatal"}
  /\ fillPc' = "commit"
  /\ UNCHANGED <<shared, owner, status, want, chunk, reached, signalled, user, history>>

ReadRetry ==
  /\ fillPc = "read"
  /\ kind' = "retry"
  /\ fillPc' = "commit"
  /\ UNCHANGED <<shared, owner, status, want, chunk, reached, signalled, user, history>>

\* The result is recorded under the lock, unless the owner is shutting down.
CommitShutdown ==
  /\ fillPc = "commit" /\ shutdown
  /\ fillPc' = "exited"
  /\ UNCHANGED <<shared, owner, status, want, kind, chunk, reached, signalled, user, history>>

CommitData ==
  /\ fillPc = "commit" /\ ~shutdown /\ kind = "data"
  /\ buf' = buf \o chunk
  /\ chunk' = << >>
  /\ fullness' = Len(buf')
  /\ reached' = (Len(buf') >= Threshold)
  /\ fillPc' = "signal"
  /\ UNCHANGED <<eof, error, shutdown, owner, bytesReceived, want, kind, signalled, user, history>>

CommitEnd ==
  /\ fillPc = "commit" /\ ~shutdown /\ kind \in {"eof", "fatal"}
  /\ eof' = TRUE
  /\ error' = (error \/ kind = "fatal")
  /\ failed' = (failed \/ kind = "fatal")
  /\ reached' = TRUE
  /\ fillPc' = "signal"
  /\ UNCHANGED <<buf, shutdown, owner, status, want, kind, chunk, signalled, user,
                 produced, delivered, calls, errors, ended>>

CommitRetry ==
  /\ fillPc = "commit" /\ ~shutdown /\ kind = "retry"
  /\ fillPc' = "room"
  /\ UNCHANGED <<shared, owner, status, want, kind, chunk, reached, signalled, user, history>>

\* Mutant: the reader is not notified.
WakeUserForgotten == userPc

\* readable.notify_all
WakeUser == IF userPc = "parked" THEN "refill" ELSE userPc

\* Mutant: the callback is not remembered.
CallbackEveryTime == reached

\* The callback runs the first time the threshold or the end is reached.
CallbackDue == reached /\ ~signalled

\* After the lock is released: wake the reader, run the callback the first
\* time the threshold (or the end) is reached, and leave once finished.
Signal ==
  /\ fillPc = "signal"
  /\ userPc' = WakeUser
  /\ signalled' = (signalled \/ reached)
  /\ calls' = IF CallbackDue THEN calls + 1 ELSE calls
  /\ fillPc' = IF eof THEN "exited" ELSE "room"
  /\ UNCHANGED <<shared, owner, status, want, kind, chunk, reached, op, slice,
                 produced, delivered, failed, errors, ended>>

-----------------------------------------------------------------------------
(* The owner                                                               *)

\* read and fill_buf begin in refill: staged bytes are used up first,
\* otherwise the staging area is emptied and the lock is taken.
BeginCall(call, n) ==
  /\ userPc = "idle"
  /\ op' = call
  /\ slice' = n
  /\ \/ /\ pos < Len(staging)
        /\ userPc' = "copy"
        /\ UNCHANGED owner
     \/ /\ pos >= Len(staging)
        /\ staging' = << >> /\ pos' = 0
        /\ userPc' = "refill"
  /\ UNCHANGED <<shared, status, fill, history>>

Read(n) == BeginCall("read", n)

FillBuf == BeginCall("fill_buf", 0)

\* refill, under the lock: nothing there and more may come, so park on
\* `readable`.
RefillWait ==
  /\ userPc = "refill"
  /\ buf = << >> /\ ~eof
  /\ userPc' = "parked"
  /\ UNCHANGED <<shared, owner, status, fill, op, slice, history>>

\* Mutant: the end is told with bytes still in the buffer.
ExhaustedAtOnce == eof

\* Nothing left to hand out: the source ended and the buffer is drained.
Exhausted == buf = << >> /\ eof

\* refill with nothing left to hand out: the recorded error, once, and the
\* end of file ever after.
RefillEnd ==
  /\ userPc = "refill"
  /\ Exhausted
  /\ errors' = IF error THEN errors + 1 ELSE errors
  /\ ended' = (ended \/ ~error)
  /\ error' = FALSE
  /\ userPc' = "idle"
  /\ UNCHANGED <<buf, eof, shutdown, owner, status, fill, op, slice,
                 produced, delivered, calls, failed>>

\* Mutant: one byte too few is drained.
UndrainedByOne(n) == SubSeq(buf, Larger(n, 1), Len(buf))

\* What is left in the shared buffer when n bytes have been drained from it.
Undrained(n) == SubSeq(buf, n + 1, Len(buf))

\* refill with data: move up to StagingSize bytes to the owner's side.
RefillTake ==
  /\ userPc = "refill"
  /\ buf # << >>
  /\ LET n == Smaller(Len(buf), StagingSize)
     IN  /\ staging' = staging \o SubSeq(buf, 1, n)
         /\ buf' = Undrained(n)
  /\ fullness' = Len(buf')
  /\ userPc' = "notify"
  /\ UNCHANGED <<eof, error, shutdown, pos, bytesReceived, fill, op, slice, history>>

\* writable.notify_all
WakeFill == IF fillPc = "parked" THEN "room" ELSE fillPc

\* refill after the lock is released: the fill thread may have room again.
RefillNotify ==
  /\ userPc = "notify"
  /\ fillPc' = WakeFill
  /\ userPc' = "copy"
  /\ UNCHANGED <<shared, owner, status, want, kind, chunk, reached, signalled,
                 op, slice, history>>

\* advance: n staged bytes pass to the owner and are counted.
Advance(n) ==
  /\ pos' = pos + n
  /\ bytesReceived' = bytesReceived + n
  /\ delivered' = delivered \o SubSeq(staging, pos + 1, pos + n)
  /\ UNCHANGED <<staging, fullness>>

\* The end of read (copy and advance) and of fill_buf (lend the slice).
FinishRead ==
  /\ userPc = "copy" /\ op = "read"
  /\ Advance(Smaller(Len(staging) - pos, slice))
  /\ userPc' = "idle"
  /\ UNCHANGED <<shared, fill, op, slice, produced, calls, failed, errors, ended>>

FinishFillBuf ==
  /\ userPc = "copy" /\ op = "fill_buf"
  /\ userPc' = "idle"
  /\ UNCHANGED <<shared, owner, status, fill, op, slice, history>>

\* Mutant: the amount is not limited to what is staged.
ConsumeUnclamped(amt) ==
  /\ userPc = "idle"
  /\ pos' = pos + amt
  /\ bytesReceived' = bytesReceived + amt
  /\ delivered' = delivered \o SubSeq(staging, pos + 1, Smaller(pos + amt, Len(staging)))
  /\ UNCHANGED <<staging, fullness, shared, fill, user, produced, calls, failed, errors, ended>>

\* BufRead::consume never passes the end of the staging area.
Consume(amt) ==
  /\ userPc = "idle"
  /\ Advance(Smaller(amt, Len(staging) - pos))
  /\ UNCHANGED <<shared, fill, user, produced, calls, failed, errors, ended>>

-----------------------------------------------------------------------------
(* Drop: set the flag under the lock, notify, join                         *)

DropFlag ==
  /\ userPc = "idle"
  /\ shutdown' = TRUE
  /\ userPc' = "dropping"
  /\ UNCHANGED <<buf, eof, error, owner, status, fill, op, slice, history>>

\* Mutant: drop does not notify.
DropSilently ==
  /\ userPc = "dropping"
  /\ userPc' = "joining"
  /\ UNCHANGED <<shared, owner, status, fill, op, slice, history>>

DropNotify ==
  /\ userPc = "dropping"
  /\ fillPc' = WakeFill
  /\ userPc' = "joining"
  /\ UNCHANGED <<shared, owner, status, want, kind, chunk, reached, signalled,
                 op, slice, history>>

Join ==
  /\ userPc = "joining" /\ fillPc = "exited"
  /\ userPc' = "dropped"
  /\ UNCHANGED <<shared, owner, status, fill, op, slice, history>>

\* A Condvar may wake a waiter without a notification.
SpuriousFill ==
  /\ fillPc = "parked"
  /\ fillPc' = "room"
  /\ UNCHANGED <<shared, owner, status, want, kind, chunk, reached, signalled, user, history>>

SpuriousUser ==
  /\ userPc = "parked"
  /\ userPc' = "refill"
  /\ UNCHANGED <<shared, owner, status, fill, op, slice, history>>

\* The buffer is gone and so is its thread.
Done == userPc = "dropped" /\ UNCHANGED vars

-----------------------------------------------------------------------------
SourceEvent == ReadData \/ ReadEnd

FillStep ==
  \/ AwaitRoom \/ ReadRetry \/ SourceEvent
  \/ CommitShutdown \/ CommitData \/ CommitEnd \/ CommitRetry
  \/ Signal

CallStep ==
  \/ RefillWait \/ RefillEnd \/ RefillTake \/ RefillNotify
  \/ FinishRead \/ FinishFillBuf
  \/ DropNotify \/ Join

CallBegin ==
  \/ \E n \in 1 .. MaxRead : Read(n) \/ Consume(n)
  \/ FillBuf
  \/ DropFlag

Next == FillStep \/ CallStep \/ CallBegin \/ SpuriousFill \/ SpuriousUser \/ Done

Spec == Init /\ [][Next]_vars

(***************************************************************************)
(* Both threads are scheduled fairly, and source.read returns (the socket  *)
(* has a 200 ms read timeout, decode.rs:361), so each keeps taking steps.  *)
(* Nothing is assumed about when the owner makes its next call, nor about  *)
(* the source: it may time out for ever.                                   *)
(***************************************************************************)
ThreadFairness == WF_vars(FillStep) /\ WF_vars(CallStep)

LiveSpec == Spec /\ ThreadFairness

\* A source that is asked again and again ends up producing data, end of file
\* or an error, instead of timing out for ever.
SourceFairness == SF_vars(SourceEvent)

-----------------------------------------------------------------------------
(* What must hold                                                          *)

FillPcs == {"room", "parked", "read", "commit", "signal", "exited"}
UserPcs == {"idle", "refill", "parked", "notify", "copy", "dropping", "joining", "dropped"}

\* Every variable keeps its type; the read position of SlimBuffer never
\* passes the end of the staging area (the slice index in read and fill_buf).
TypeOK ==
  /\ buf \in Seq(Nat) /\ staging \in Seq(Nat) /\ chunk \in Seq(Nat) /\ delivered \in Seq(Nat)
  /\ eof \in BOOLEAN /\ error \in BOOLEAN /\ shutdown \in BOOLEAN
  /\ pos \in 0 .. Len(staging)
  /\ fullness \in Nat /\ bytesReceived \in Nat
  /\ fillPc \in FillPcs /\ want \in 0 .. ReadChunk
  /\ kind \in {"none", "data", "eof", "fatal", "retry"}
  /\ reached \in BOOLEAN /\ signalled \in BOOLEAN
  /\ userPc \in UserPcs /\ op \in {"none", "read", "fill_buf"} /\ slice \in 0 .. MaxRead
  /\ produced \in 0 .. MaxSource /\ calls \in Nat /\ errors \in Nat
  /\ failed \in BOOLEAN /\ ended \in BOOLEAN

\* The number of staged bytes the owner has not been given yet.
Staged == Len(staging) - pos

\* fill_loop decides how much to read under the lock, reads without it, and
\* appends under it again: the shared buffer never outgrows its capacity,
\* although the reader drains it in between.
CapacityRespected == Len(buf) <= Cap

\* The owner gets the source's bytes in order, each exactly once, through two
\* hand-overs (fill thread to deque, deque to staging area) and any mix of
\* read, fill_buf and consume; a byte that was read and not yet delivered is
\* in the chunk, the deque or the staging area, nowhere else.
InOrder ==
  /\ delivered = Bytes(0, Len(delivered))
  /\ produced = Len(delivered) + Staged + Len(buf) + Len(chunk)

\* read and fill_buf report the end of file or the source's error only when
\* every byte the source produced has been delivered; a fatal error of the
\* source is reported exactly once, and before any end of file.
HonestEnd ==
  /\ (errors > 0 \/ ended) => eof /\ Len(delivered) = produced
  /\ errors <= (IF failed THEN 1 ELSE 0)
  /\ (failed /\ ended) => errors = 1

\* threshold_cb runs at most once, never before the threshold was reached or
\* the source ended, and a fill thread that left without calling it was told
\* to shut down.
CallbackContract ==
  /\ calls <= 1
  /\ calls = 1 => eof \/ produced >= Threshold
  /\ fillPc = "exited" => calls = 1 \/ shutdown

\* Dropping the buffer terminates: join never waits for ever, whatever the
\* fill thread was doing when the flag was set.
DropTerminates == userPc = "dropping" ~> userPc = "dropped"

\* No wake-up of `readable` or `writable` is lost: a read that found the
\* buffer empty returns, although both threads may park, provided the source
\* does not time out for ever.
ReadReturns ==
  SourceFairness => (userPc \in {"refill", "parked"} ~> userPc = "idle")

\* What the detailed buffer implements: a read-ahead pipe whose window is the
\* deque and the staging area together.
Pipe == INSTANCE ReadAhead WITH
  Window   <- Cap + StagingSize,
  accepted <- delivered \o SubSeq(staging, pos + 1, Len(staging)) \o buf,
  handed   <- delivered,
  end      <- IF ~eof THEN "open" ELSE IF failed THEN "error" ELSE "eof"

\* Every step of the two threads is a step of the pipe or invisible to it.
ImplementsReadAhead == Pipe!Spec

-----------------------------------------------------------------------------
(* The inductive invariant behind those properties                         *)

\* The four places a byte can be in hold consecutive runs of the source.
FlowInv ==
  /\ delivered = Bytes(0, Len(delivered))
  /\ pos <= Len(delivered)
  /\ staging = Bytes(Len(delivered) - pos, Len(staging))
  /\ buf = Bytes(Len(delivered) + Staged, Len(buf))
  /\ chunk = Bytes(Len(delivered) + Staged + Len(buf), Len(chunk))
  /\ produced = Len(delivered) + Staged + Len(buf) + Len(chunk)

\* The room promised to a read in flight is still there when it commits, and
\* a chunk is only held between the read and its commit.
RoomInv ==
  /\ Len(buf) <= Cap
  /\ Len(staging) <= StagingSize
  /\ fillPc = "read" => Len(buf) + want <= Cap
  /\ Len(buf) + Len(chunk) <= Cap
  /\ fillPc \in {"room", "parked", "read", "signal"} => Len(chunk) = 0
  /\ (fillPc = "commit" /\ kind # "data") => Len(chunk) = 0

\* What the owner has heard agrees with what fill_loop recorded.
EndInv ==
  /\ eof => fillPc \in {"signal", "exited"} /\ Len(chunk) = 0
  /\ error => failed
  /\ failed => eof
  /\ errors = IF failed /\ ~error THEN 1 ELSE 0
  /\ ended => eof /\ ~error
  /\ (errors > 0 \/ ended) => Len(buf) = 0 /\ Staged = 0
  /\ userPc \in {"refill", "parked"} => Len(staging) = 0

\* The callback's bookkeeping in fill_loop.
CallbackInv ==
  /\ calls = IF signalled THEN 1 ELSE 0
  /\ (signalled \/ (fillPc = "signal" /\ reached)) => eof \/ produced >= Threshold
  /\ (fillPc = "signal" /\ eof) => reached
  /\ fillPc = "exited" => signalled \/ shutdown
  /\ fillPc = "commit" => kind # "none"

IInv == TypeOK /\ FlowInv /\ RoomInv /\ EndInv /\ CallbackInv

=============================================================================
