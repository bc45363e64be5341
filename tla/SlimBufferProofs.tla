-------------------------- MODULE SlimBufferProofs --------------------------
(***************************************************************************)
(* SlimBuffer keeps its promises for every capacity, threshold, chunk and  *)
(* staging size, and for sources of every length.  One inductive invariant *)
(* carries all the safety properties and the refinement of ReadAhead.      *)
(***************************************************************************)
EXTENDS SlimBuffer, SequenceTheorems, TLAPS

-----------------------------------------------------------------------------
(* Runs of consecutive source bytes                                        *)

\* A run of n bytes is a sequence of naturals of length n.
LEMMA BytesType ==
  ASSUME NEW m \in Nat, NEW n \in Nat
  PROVE  Bytes(m, n) \in Seq(Nat) /\ Len(Bytes(m, n)) = n
BY DEF Bytes

\* The empty run is the empty sequence, wherever it starts.
LEMMA BytesEmpty ==
  ASSUME NEW m \in Nat
  PROVE  Bytes(m, 0) = << >>
BY DEF Bytes

\* An empty sequence has length 0, and only it has.
LEMMA EmptyLen ==
  ASSUME NEW s \in Seq(Nat)
  PROVE  (s = << >>) <=> (Len(s) = 0)
OBVIOUS

\* Two runs that meet make one run: this is what appending to the deque, the
\* staging area or the delivered bytes does.
LEMMA BytesConcat ==
  ASSUME NEW m \in Nat, NEW n \in Nat, NEW k \in Nat
  PROVE  Bytes(m, n) \o Bytes(m + n, k) = Bytes(m, n + k)
<1>0. m + n \in Nat /\ n + k \in Nat
  OBVIOUS
<1> DEFINE s == Bytes(m, n)
           t == Bytes(m + n, k)
           u == Bytes(m, n + k)
<1>1. s \in Seq(Nat) /\ Len(s) = n
  BY BytesType
<1>2. t \in Seq(Nat) /\ Len(t) = k
  BY <1>0, BytesType
<1>3. u \in Seq(Nat) /\ Len(u) = n + k
  BY <1>0, BytesType
<1>4. /\ \A i \in 1 .. n : s[i] = m + i
      /\ \A i \in 1 .. k : t[i] = m + n + i
      /\ \A i \in 1 .. n + k : u[i] = m + i
  BY DEF Bytes
<1> HIDE DEF s, t, u
<1>5. s \o t \in Seq(Nat) /\ Len(s \o t) = n + k
  BY <1>1, <1>2, ConcatProperties
<1>6. ASSUME NEW i \in 1 .. n + k
      PROVE  (s \o t)[i] = u[i]
  <2>1. (s \o t)[i] = IF i <= n THEN s[i] ELSE t[i - n]
    BY <1>1, <1>2, ConcatProperties
  <2> QED
    BY <2>1, <1>4
<1>7. s \o t = u
  BY <1>3, <1>5, <1>6, SeqEqual
<1> QED
  BY <1>7 DEF s, t, u

\* A stretch of a run is a run: this is what draining and copying do.
LEMMA BytesSub ==
  ASSUME NEW m \in Nat, NEW n \in Nat, NEW a \in 0 .. n, NEW b \in a .. n
  PROVE  SubSeq(Bytes(m, n), a + 1, b) = Bytes(m + a, b - a)
<1>0. m + a \in Nat /\ b - a \in Nat
  OBVIOUS
<1> DEFINE s == Bytes(m, n)
           t == Bytes(m + a, b - a)
<1>1. s \in Seq(Nat) /\ Len(s) = n
  BY BytesType
<1>2. t \in Seq(Nat) /\ Len(t) = b - a
  BY <1>0, BytesType
<1>3. /\ \A i \in 1 .. n : s[i] = m + i
      /\ \A i \in 1 .. b - a : t[i] = m + a + i
  BY DEF Bytes
<1> HIDE DEF s, t
<1>4. SubSeq(s, a + 1, b) \in Seq(Nat) /\ Len(SubSeq(s, a + 1, b)) = b - a
  BY <1>1
<1>5. ASSUME NEW i \in 1 .. b - a
      PROVE  SubSeq(s, a + 1, b)[i] = t[i]
  BY <1>1, <1>3
<1>6. SubSeq(s, a + 1, b) = t
  BY <1>2, <1>4, <1>5, SeqEqual
<1> QED
  BY <1>6 DEF s, t

-----------------------------------------------------------------------------
(* Type correctness                                                        *)

\* The raised capacity is a positive number.
LEMMA CapType == Cap \in Nat \ {0}
BY SlimBufferAssumption DEF Cap, Larger

\* Every step keeps the types.
LEMMA TypeStep ==
  ASSUME TypeOK, [Next]_vars
  PROVE  TypeOK'
<1> USE SlimBufferAssumption, CapType DEF TypeOK, FillPcs, UserPcs
<1>1. CASE AwaitRoom
  BY <1>1, SMTT(30) DEF AwaitRoom, Wanted, Smaller, shared, owner, status, user, history
<1>2. CASE ReadData
  <2>1. PICK n \in 1 .. Smaller(want, MaxSource - produced) :
           chunk' = Bytes(produced, n) /\ produced' = produced + n
    BY <1>2 DEF ReadData
  <2>2. n \in Nat /\ produced \in Nat /\ produced + n \in 0 .. MaxSource
    BY <2>1 DEF Smaller
  <2>3. chunk' \in Seq(Nat)
    BY <2>1, <2>2, BytesType
  <2> QED
    BY <1>2, <2>1, <2>2, <2>3 DEF ReadData, shared, owner, status, user
<1>3a. CASE ReadEnd
  BY <1>3a DEF ReadEnd, shared, owner, status, user, history
<1>3b. CASE ReadRetry
  BY <1>3b DEF ReadRetry, shared, owner, status, user, history
<1>4a. CASE CommitShutdown
  BY <1>4a DEF CommitShutdown, shared, owner, status, user, history
<1>4b. CASE CommitRetry
  BY <1>4b DEF CommitRetry, shared, owner, status, user, history
<1>5. CASE CommitData
  <2>1. buf' \in Seq(Nat)
    BY <1>5, ConcatProperties DEF CommitData
  <2> QED
    BY <1>5, <2>1 DEF CommitData, owner, user, history
<1>6. CASE CommitEnd
  BY <1>6 DEF CommitEnd, owner, status, user
<1>7. CASE Signal
  BY <1>7 DEF Signal, WakeUser, CallbackDue, shared, owner, status
<1>8. CASE \E n \in 1 .. MaxRead : Read(n)
  <2>1. PICK n \in 1 .. MaxRead : BeginCall("read", n)
    BY <1>8 DEF Read
  <2>2. CASE pos < Len(staging)
    BY <2>1, <2>2 DEF BeginCall, owner, shared, status, fill, history
  <2>3. CASE ~(pos < Len(staging))
    <3>1. staging' = << >> /\ pos' = 0 /\ userPc' = "refill"
      BY <2>1, <2>3 DEF BeginCall
    <3>2. staging' \in Seq(Nat) /\ Len(staging') = 0
      BY <3>1
    <3> QED
      BY <2>1, <3>1, <3>2 DEF BeginCall, shared, status, fill, history
  <2> QED
    BY <2>2, <2>3
<1>9. CASE FillBuf
  <2>2. CASE pos < Len(staging)
    BY <1>9, <2>2 DEF FillBuf, BeginCall, owner, shared, status, fill, history
  <2>3. CASE ~(pos < Len(staging))
    <3>1. staging' = << >> /\ pos' = 0 /\ userPc' = "refill"
      BY <1>9, <2>3 DEF FillBuf, BeginCall
    <3>2. staging' \in Seq(Nat) /\ Len(staging') = 0
      BY <3>1
    <3> QED
      BY <1>9, <3>1, <3>2 DEF FillBuf, BeginCall, shared, status, fill, history
  <2> QED
    BY <2>2, <2>3
<1>10a. CASE RefillWait
  BY <1>10a DEF RefillWait, owner, shared, status, fill, history
<1>10b. CASE RefillEnd
  <2>1. ended' \in BOOLEAN /\ error' \in BOOLEAN
    BY <1>10b, Zenon DEF RefillEnd
  <2>2. errors' \in Nat
    BY <1>10b DEF RefillEnd
  <2> QED
    BY <1>10b, <2>1, <2>2 DEF RefillEnd, owner, status, fill
<1>11. CASE RefillTake
  <2> DEFINE n == Smaller(Len(buf), StagingSize)
  <2>1. n \in 0 .. Len(buf)
    BY DEF Smaller
  <2>2. SubSeq(buf, 1, n) \in Seq(Nat) /\ SubSeq(buf, n + 1, Len(buf)) \in Seq(Nat)
    BY <2>1, SMTT(30)
  <2>3. staging' = staging \o SubSeq(buf, 1, n) /\ buf' = SubSeq(buf, n + 1, Len(buf))
    BY <1>11 DEF RefillTake, Undrained
  <2>4. staging' \in Seq(Nat) /\ Len(staging') >= Len(staging)
    BY <2>2, <2>3, ConcatProperties, SMTT(30)
  <2> HIDE DEF n
  <2>5. pos' \in 0 .. Len(staging)'
    BY <1>11, <2>4 DEF RefillTake
  <2>6a. buf' \in Seq(Nat)
    BY <2>2, <2>3, Zenon
  <2>6. buf' \in Seq(Nat) /\ Len(buf') \in Nat
    BY <2>6a, LenProperties
  <2>7. /\ fullness' = Len(buf') /\ userPc' = "notify"
        /\ UNCHANGED <<eof, error, shutdown, pos, bytesReceived, fill, op, slice, history>>
    BY <1>11 DEF RefillTake
  <2> QED
    BY <2>4, <2>5, <2>6, <2>7 DEF fill, history
<1>12. CASE RefillNotify
  BY <1>12 DEF RefillNotify, WakeFill, shared, owner, status, history
<1>13. ASSUME NEW n \in Nat, n <= Len(staging) - pos, Advance(n)
       PROVE  /\ pos' \in 0 .. Len(staging)' /\ bytesReceived' \in Nat
              /\ delivered' \in Seq(Nat) /\ staging' = staging /\ fullness' = fullness
  <2>1. SubSeq(staging, pos + 1, pos + n) \in Seq(Nat)
    BY <1>13
  <2>2. delivered' \in Seq(Nat)
    BY <1>13, <2>1, ConcatProperties DEF Advance
  <2> QED
    BY <1>13, <2>2 DEF Advance
<1>14. CASE FinishRead
  BY <1>14, <1>13, SMTT(30) DEF FinishRead, Smaller, shared, fill
<1>15. CASE FinishFillBuf
  BY <1>15 DEF FinishFillBuf, owner, shared, status, fill, history
<1>16. CASE \E n \in 1 .. MaxRead : Consume(n)
  BY <1>16, <1>13, SMTT(30) DEF Consume, Smaller, shared, fill, user
<1>17a. CASE DropFlag
  BY <1>17a DEF DropFlag, owner, status, fill, history
<1>17b. CASE DropNotify
  BY <1>17b DEF DropNotify, WakeFill, owner, shared, status, history
<1>17c. CASE Join
  BY <1>17c DEF Join, owner, shared, status, fill, history
<1>18a. CASE SpuriousFill
  BY <1>18a DEF SpuriousFill, owner, shared, status, user, history
<1>18b. CASE SpuriousUser
  BY <1>18b DEF SpuriousUser, owner, shared, status, fill, history
<1>19. CASE UNCHANGED vars
  BY <1>19 DEF vars, owner, shared, status, fill, user, history
<1> QED
  BY <1>1, <1>2, <1>3a, <1>3b, <1>4a, <1>4b, <1>5, <1>6, <1>7, <1>8, <1>9, <1>10a, <1>10b,
     <1>11, <1>12, <1>14, <1>15, <1>16, <1>17a, <1>17b, <1>17c, <1>18a, <1>18b, <1>19
     DEF Next, FillStep, SourceEvent, CallStep, CallBegin, Done

-----------------------------------------------------------------------------
(* The flow of bytes                                                       *)

flow == <<buf, staging, pos, chunk, delivered, produced>>

\* advance hands over the next run of bytes: n staged ones, in order.
LEMMA AdvanceFlow ==
  ASSUME TypeOK, FlowInv, NEW n \in Nat, n <= Staged, Advance(n),
         UNCHANGED <<buf, chunk, produced>>
  PROVE  FlowInv' /\ Len(delivered') = Len(delivered) + n /\ Staged' = Staged - n
<1> DEFINE d == Len(delivered)
           l == Len(staging)
<1>1. /\ d \in Nat /\ l \in Nat /\ pos \in 0 .. l /\ pos <= d /\ n <= l - pos
      /\ staging = Bytes(d - pos, l) /\ delivered = Bytes(0, d)
  BY SMTT(30) DEF TypeOK, FlowInv, Staged
<1>2. /\ staging' = staging /\ pos' = pos + n
      /\ delivered' = delivered \o SubSeq(staging, pos + 1, pos + n)
  BY DEF Advance
<1> HIDE DEF d, l
<1>3. d - pos \in Nat /\ pos + n \in pos .. l /\ pos \in 0 .. l
  BY <1>1
<1>4. SubSeq(Bytes(d - pos, l), pos + 1, pos + n) = Bytes((d - pos) + pos, (pos + n) - pos)
  BY <1>1, <1>3, BytesSub
<1>5. (d - pos) + pos = 0 + d /\ (pos + n) - pos = n
  BY <1>1
<1>6. delivered' = Bytes(0, d) \o Bytes(0 + d, n)
  BY <1>1, <1>2, <1>4, <1>5
<1>7. delivered' = Bytes(0, d + n)
  <2>1. Bytes(0, d) \o Bytes(0 + d, n) = Bytes(0, d + n)
    BY <1>1, BytesConcat
  <2> QED BY <2>1, <1>6
<1>8. Len(delivered') = d + n
  <2>1. d + n \in Nat
    BY <1>1
  <2>2. Len(Bytes(0, d + n)) = d + n
    BY <2>1, BytesType
  <2> QED BY <2>2, <1>7
<1>9. Staged' = Staged - n /\ Len(staging') = l /\ Staged = l - pos
  BY <1>1, <1>2 DEF Staged, l
<1>10. /\ (d + n) - (pos + n) = d - pos
       /\ (d + n) + (Staged - n) = d + Staged
       /\ pos + n <= d + n
  BY <1>1, <1>9
<1>11. UNCHANGED <<buf, chunk, produced>> /\ Len(delivered) = d
  BY DEF d
<1>12. /\ delivered' = Bytes(0, Len(delivered'))
       /\ pos' <= Len(delivered')
       /\ staging' = Bytes(Len(delivered') - pos', Len(staging'))
  BY <1>1, <1>2, <1>7, <1>8, <1>9, <1>10
<1>13. Len(delivered') + Staged' = d + Staged
  BY <1>8, <1>9, <1>10
<1>14. /\ buf' = Bytes(Len(delivered') + Staged', Len(buf'))
       /\ chunk' = Bytes(Len(delivered') + Staged' + Len(buf'), Len(chunk'))
       /\ produced' = Len(delivered') + Staged' + Len(buf') + Len(chunk')
  BY <1>13, <1>11 DEF FlowInv
<1> QED
  BY <1>8, <1>9, <1>11, <1>12, <1>14 DEF FlowInv

\* Every step keeps the four runs consecutive.
LEMMA FlowStep ==
  ASSUME IInv, [Next]_vars
  PROVE  FlowInv'
<1> USE SlimBufferAssumption, CapType
<1>0. ASSUME UNCHANGED flow
      PROVE  FlowInv'
  BY <1>0 DEF flow, IInv, FlowInv, Staged
<1> DEFINE d == Len(delivered)
           u == Staged
           b == Len(buf)
           c == Len(chunk)
<1>t. d \in Nat /\ u \in Nat /\ b \in Nat /\ c \in Nat
  BY DEF IInv, TypeOK, Staged
<1>f. /\ delivered = Bytes(0, d) /\ pos <= d /\ staging = Bytes(d - pos, Len(staging))
      /\ buf = Bytes(d + u, b) /\ chunk = Bytes(d + u + b, c) /\ produced = d + u + b + c
  BY DEF IInv, FlowInv
<1>1. CASE ReadData
  <2>1. PICK n \in 1 .. Smaller(want, MaxSource - produced) :
           chunk' = Bytes(produced, n) /\ produced' = produced + n
    BY <1>1 DEF ReadData
  <2>2. n \in Nat /\ produced \in Nat
    BY <2>1 DEF IInv, TypeOK, Smaller
  <2>3. c = 0
    BY <1>1 DEF IInv, RoomInv, ReadData
  <2>4. Len(chunk') = n
    BY <2>1, <2>2, BytesType
  <2>5. UNCHANGED <<buf, staging, pos, delivered>>
    BY <1>1 DEF ReadData, shared, owner
  <2> QED
    BY <1>t, <1>f, <2>1, <2>2, <2>3, <2>4, <2>5, SMTT(30) DEF FlowInv, Staged
<1>2. CASE CommitData
  <2>1. buf' = buf \o chunk /\ chunk' = << >> /\ UNCHANGED <<staging, pos, delivered, produced>>
    BY <1>2 DEF CommitData, owner, history
  <2>2. d + u \in Nat /\ b + c \in Nat /\ d + u + (b + c) \in Nat
    BY <1>t
  <2> HIDE DEF d, u, b, c
  <2>3. buf' = Bytes(d + u, b + c)
    <3> DEFINE m == d + u
    <3>1. m \in Nat
      BY <2>2
    <3>2. buf = Bytes(m, b) /\ chunk = Bytes(m + b, c)
      BY <1>f
    <3> HIDE DEF m
    <3>3. Bytes(m, b) \o Bytes(m + b, c) = Bytes(m, b + c)
      BY <3>1, <1>t, BytesConcat, ZenonT(40)
    <3>4. buf' = Bytes(m, b + c)
      BY <3>2, <3>3, <2>1
    <3> QED BY <3>4 DEF m
  <2>4. Len(buf') = b + c
    <3>1. Len(Bytes(d + u, b + c)) = b + c
      BY <2>2, BytesType
    <3> QED BY <3>1, <2>3
  <2>5. chunk' = Bytes(d + u + (b + c), 0) /\ Len(chunk') = 0
    <3>1. Bytes(d + u + (b + c), 0) = << >>
      BY <2>2, BytesEmpty
    <3>2. Len(chunk') = 0
      BY <2>1, EmptySeq
    <3> QED BY <3>1, <3>2, <2>1
  <2>6. Len(delivered') = d /\ Staged' = u
    BY <2>1 DEF d, u, Staged
  <2>7. produced' = d + u + (b + c) + 0
    BY <1>f, <1>t, <2>1
  <2> QED
    BY <1>f, <2>1, <2>3, <2>4, <2>5, <2>6, <2>7 DEF FlowInv
<1>3. ASSUME NEW call, NEW n, BeginCall(call, n)
      PROVE  FlowInv'
  <2>1. CASE pos < Len(staging)
    <3>1. UNCHANGED flow
      BY <1>3, <2>1 DEF IInv, TypeOK, BeginCall, shared, owner, fill, history, flow
    <3> QED BY <3>1, <1>0
  <2>2. CASE ~(pos < Len(staging))
    <3>1. staging' = << >> /\ pos' = 0 /\ UNCHANGED <<buf, chunk, delivered, produced>>
      BY <1>3, <2>2 DEF BeginCall, shared, fill, history
    <3>2. u = 0
      BY <2>2 DEF IInv, TypeOK, Staged
    <3>3. Len(staging') = 0 /\ Staged' = 0
      BY <3>1 DEF Staged
    <3>4. staging' = Bytes(d - 0, 0)
      <4>1. d - 0 = d
        BY <1>t
      <4>2. Bytes(d, 0) = << >>
        BY <1>t, BytesEmpty
      <4> QED BY <4>1, <4>2, <3>1
    <3> QED
      BY <1>t, <1>f, <3>1, <3>2, <3>3, <3>4 DEF FlowInv
  <2> QED BY <2>1, <2>2
<1>4. CASE RefillTake
  <2> DEFINE n == Smaller(b, StagingSize)
  <2>1. n \in 0 .. b /\ n \in Nat
    BY <1>t DEF Smaller
  <2>2. /\ staging' = staging \o SubSeq(buf, 1, n)
        /\ buf' = SubSeq(buf, n + 1, b)
        /\ UNCHANGED <<pos, chunk, delivered, produced>>
    BY <1>4 DEF RefillTake, Undrained, fill, history
  <2>3. Len(staging) = 0 /\ pos = 0 /\ u = 0 /\ staging = << >>
    BY <1>4 DEF IInv, EndInv, TypeOK, RefillTake, Staged
  <2> HIDE DEF n, d, u, b, c
  <2>4. d + u = d /\ d - pos = d /\ 0 + 1 = 1 /\ d + 0 = d /\ n - 0 = n
    BY <1>t, <2>1, <2>3
  <2>5. SubSeq(buf, 1, n) = Bytes(d, n)
    <3>1. ASSUME NEW a \in 0 .. b, a = 0
          PROVE  SubSeq(Bytes(d, b), a + 1, n) = Bytes(d + a, n - a)
      <4>1. n \in a .. b
        BY <3>1, <2>1, <1>t
      <4> QED BY <4>1, <1>t, BytesSub, ZenonT(40)
    <3>2. 0 \in 0 .. b
      BY <1>t
    <3>3. SubSeq(Bytes(d, b), 0 + 1, n) = Bytes(d + 0, n - 0)
      BY <3>1, <3>2
    <3> QED BY <3>3, <2>4, <1>f
  <2>6. staging' = Bytes(d, n)
    <3>1. Bytes(d, n) \in Seq(Nat)
      BY <1>t, <2>1, BytesType
    <3>2. << >> \o Bytes(d, n) = Bytes(d, n)
      BY <3>1, ConcatEmptySeq
    <3> QED BY <3>2, <2>2, <2>3, <2>5
  <2>7. buf' = Bytes(d + n, b - n)
    <3>1. SubSeq(Bytes(d, b), n + 1, b) = Bytes(d + n, b - n)
      <4>1. b \in n .. b
        BY <1>t, <2>1
      <4> QED BY <4>1, <1>t, <2>1, BytesSub, ZenonT(40)
    <3> QED BY <3>1, <2>4, <2>2, <1>f
  <2>8. Len(staging') = n /\ Len(buf') = b - n
    <3>1. b - n \in Nat /\ d + n \in Nat
      BY <1>t, <2>1
    <3>2. Len(Bytes(d, n)) = n
      BY <1>t, <2>1, BytesType
    <3>3. Len(Bytes(d + n, b - n)) = b - n
      BY <3>1, BytesType
    <3> QED BY <3>2, <3>3, <2>6, <2>7
  <2>9. Staged' = n /\ Len(delivered') = d /\ Len(chunk') = c
    BY <2>1, <2>2, <2>3, <2>8 DEF Staged, d, c
  <2>10. d + n + (b - n) = d + u + b /\ d + n + (b - n) + c = d + u + b + c
    BY <1>t, <2>1, <2>3
  <2> QED
    BY <1>f, <2>2, <2>3, <2>4, <2>6, <2>7, <2>8, <2>9, <2>10 DEF FlowInv
<1>5. CASE FinishRead
  <2>1. Smaller(Len(staging) - pos, slice) \in Nat /\ Smaller(Len(staging) - pos, slice) <= Staged
    BY DEF IInv, TypeOK, Smaller, Staged
  <2> QED
    BY <1>5, <2>1, AdvanceFlow DEF FinishRead, IInv, shared, fill
<1>6. ASSUME NEW n \in 1 .. MaxRead, Consume(n)
      PROVE  FlowInv'
  <2>1. Smaller(n, Len(staging) - pos) \in Nat /\ Smaller(n, Len(staging) - pos) <= Staged
    BY DEF IInv, TypeOK, Smaller, Staged
  <2> QED
    BY <1>6, <2>1, AdvanceFlow DEF Consume, IInv, shared, fill
<1>7. CASE \/ AwaitRoom \/ ReadEnd \/ ReadRetry \/ CommitShutdown \/ CommitRetry
           \/ SpuriousFill \/ UNCHANGED vars
  BY <1>7, <1>0 DEF flow, AwaitRoom, ReadEnd, ReadRetry, CommitShutdown, CommitRetry,
       SpuriousFill, vars, shared, owner, fill, history
<1>8. CASE CommitEnd \/ Signal \/ RefillEnd \/ DropFlag \/ RefillNotify \/ DropNotify
  BY <1>8, <1>0 DEF flow, CommitEnd, Signal, RefillEnd, DropFlag, RefillNotify, DropNotify,
       shared, owner, fill, history
<1>9. CASE RefillWait \/ FinishFillBuf \/ Join \/ SpuriousUser
  BY <1>9, <1>0 DEF flow, RefillWait, FinishFillBuf, Join, SpuriousUser, shared, owner, fill, history
<1> QED
  BY <1>1, <1>2, <1>3, <1>4, <1>5, <1>6, <1>7, <1>8, <1>9
     DEF Next, FillStep, SourceEvent, CallStep, CallBegin, Done, Read, FillBuf

-----------------------------------------------------------------------------
(* Room, the end of the data, and the callback: only lengths matter        *)

\* refill moves min(len, StagingSize) bytes out of the shared buffer.
LEMMA TakeLengths ==
  ASSUME IInv, RefillTake
  PROVE  /\ Len(staging) = 0 /\ pos = 0
         /\ Len(staging') = Smaller(Len(buf), StagingSize)
         /\ Len(buf') = Len(buf) - Smaller(Len(buf), StagingSize)
<1> USE SlimBufferAssumption
<1> DEFINE n == Smaller(Len(buf), StagingSize)
<1>1. n \in 0 .. Len(buf) /\ buf \in Seq(Nat) /\ Len(buf) \in Nat
  BY DEF Smaller, IInv, TypeOK
<1>2. Len(staging) = 0 /\ pos = 0 /\ staging \in Seq(Nat)
  BY DEF IInv, EndInv, TypeOK, RefillTake
<1>3. staging' = staging \o SubSeq(buf, 1, n) /\ buf' = SubSeq(buf, n + 1, Len(buf))
  BY DEF RefillTake, Undrained
<1> HIDE DEF n
<1>4. /\ SubSeq(buf, 1, n) \in Seq(Nat) /\ Len(SubSeq(buf, 1, n)) = n
      /\ Len(SubSeq(buf, n + 1, Len(buf))) = Len(buf) - n
  BY <1>1
<1>5. Len(staging') = 0 + n
  BY <1>2, <1>3, <1>4, ConcatProperties
<1> QED
  BY <1>1, <1>2, <1>3, <1>4, <1>5 DEF n

\* Committing a chunk makes the shared buffer longer by it.
LEMMA CommitLengths ==
  ASSUME TypeOK, CommitData
  PROVE  Len(buf') = Len(buf) + Len(chunk) /\ Len(chunk') = 0
<1>1. Len(buf \o chunk) = Len(buf) + Len(chunk)
  BY ConcatProperties DEF TypeOK
<1> QED
  BY <1>1, EmptySeq DEF CommitData

\* Every step keeps the room a read in flight was promised: the reader only
\* makes more of it.
LEMMA RoomStep ==
  ASSUME IInv, [Next]_vars
  PROVE  RoomInv'
<1> USE SlimBufferAssumption, CapType
<1> DEFINE lens == Len(buf) \in Nat /\ Len(chunk) \in Nat /\ Len(staging) \in Nat
<1>t. lens
  BY DEF IInv, TypeOK
<1>1. CASE AwaitRoom
  BY <1>1, <1>t DEF IInv, RoomInv, AwaitRoom, Wanted, Smaller, shared, owner
<1>2. CASE ReadData
  <2>1. PICK n \in 1 .. Smaller(want, MaxSource - produced) : chunk' = Bytes(produced, n)
    BY <1>2 DEF ReadData
  <2>2. n \in Nat /\ n <= want /\ produced \in Nat
    BY <2>1 DEF IInv, TypeOK, Smaller
  <2>3. Len(chunk') = n
    BY <2>1, <2>2, BytesType
  <2> QED
    BY <1>2, <1>t, <2>2, <2>3 DEF IInv, TypeOK, RoomInv, ReadData, shared, owner
<1>3. CASE ReadEnd
  BY <1>3 DEF IInv, RoomInv, ReadEnd, shared, owner
<1>4. CASE ReadRetry
  BY <1>4 DEF IInv, RoomInv, ReadRetry, shared, owner
<1>5. CASE CommitShutdown
  BY <1>5 DEF IInv, RoomInv, CommitShutdown, shared, owner
<1>6. CASE CommitRetry
  BY <1>6 DEF IInv, RoomInv, CommitRetry, shared, owner
<1>7. CASE CommitData
  <2>1. Len(buf') = Len(buf) + Len(chunk) /\ Len(chunk') = 0
    BY <1>7, CommitLengths DEF IInv
  <2> QED
    BY <1>7, <1>t, <2>1 DEF IInv, RoomInv, CommitData, owner
<1>8. CASE CommitEnd
  BY <1>8 DEF IInv, RoomInv, CommitEnd, owner
<1>9. CASE Signal
  BY <1>9 DEF IInv, RoomInv, Signal, shared, owner
<1>10. ASSUME NEW call, NEW n, BeginCall(call, n)
       PROVE  RoomInv'
  <2>1. Len(staging') = Len(staging) \/ Len(staging') = 0
    BY <1>10, EmptySeq DEF BeginCall, owner
  <2> QED
    BY <1>10, <1>t, <2>1 DEF IInv, RoomInv, BeginCall, shared, fill
<1>11. CASE RefillTake
  <2>1. /\ Len(staging') = Smaller(Len(buf), StagingSize)
        /\ Len(buf') = Len(buf) - Smaller(Len(buf), StagingSize)
    BY <1>11, TakeLengths
  <2>2. UNCHANGED <<fillPc, want, kind, chunk>>
    BY <1>11 DEF RefillTake, fill
  <2>3. want \in Nat
    BY DEF IInv, TypeOK
  <2> QED
    BY <1>t, <2>1, <2>2, <2>3 DEF IInv, RoomInv, Smaller
<1>12. CASE RefillNotify
  BY <1>12 DEF IInv, RoomInv, RefillNotify, WakeFill, shared, owner
<1>13. CASE DropNotify
  BY <1>13 DEF IInv, RoomInv, DropNotify, WakeFill, shared, owner
<1>14. CASE SpuriousFill
  BY <1>14 DEF IInv, RoomInv, SpuriousFill, shared, owner
<1>15. CASE UNCHANGED <<buf, staging, fillPc, want, kind, chunk>>
  BY <1>15 DEF IInv, RoomInv
<1>16. CASE FinishRead \/ \E n \in 1 .. MaxRead : Consume(n)
  BY <1>16, <1>15 DEF FinishRead, Consume, Advance, shared, fill
<1>17. CASE RefillWait \/ RefillEnd \/ FinishFillBuf \/ DropFlag
  BY <1>17, <1>15 DEF RefillWait, RefillEnd, FinishFillBuf, DropFlag, shared, owner, fill
<1>18. CASE Join \/ SpuriousUser \/ UNCHANGED vars
  BY <1>18, <1>15 DEF Join, SpuriousUser, vars, shared, owner, fill
<1> QED
  BY <1>1, <1>2, <1>3, <1>4, <1>5, <1>6, <1>7, <1>8, <1>9, <1>10, <1>11, <1>12, <1>13,
     <1>14, <1>16, <1>17, <1>18
     DEF Next, FillStep, SourceEvent, CallStep, CallBegin, Done, Read, FillBuf

\* Every step keeps the owner's knowledge of the end honest.
LEMMA EndStep ==
  ASSUME IInv, [Next]_vars
  PROVE  EndInv'
<1> USE SlimBufferAssumption
<1>t. /\ Len(buf) \in Nat /\ Len(chunk) \in Nat /\ Len(staging) \in Nat
      /\ pos \in 0 .. Len(staging) /\ errors \in Nat
  BY DEF IInv, TypeOK
<1>b. /\ eof \in BOOLEAN /\ error \in BOOLEAN /\ failed \in BOOLEAN /\ ended \in BOOLEAN
  BY DEF IInv, TypeOK
<1>1. CASE AwaitRoom
  BY <1>1 DEF IInv, EndInv, AwaitRoom, Staged, shared, owner, user, history
<1>2. CASE ReadData
  BY <1>2 DEF IInv, EndInv, ReadData, Staged, shared, owner, user
<1>3. CASE ReadEnd
  BY <1>3 DEF IInv, EndInv, ReadEnd, Staged, shared, owner, user, history
<1>4. CASE ReadRetry
  BY <1>4 DEF IInv, EndInv, ReadRetry, Staged, shared, owner, user, history
<1>5. CASE CommitShutdown
  BY <1>5 DEF IInv, EndInv, CommitShutdown, Staged, shared, owner, user, history
<1>6. CASE CommitRetry
  BY <1>6 DEF IInv, EndInv, CommitRetry, Staged, shared, owner, user, history
<1>7. CASE CommitData
  <2>1. ~eof /\ ~failed /\ ~error /\ ~ended /\ errors = 0
    BY <1>7, <1>b DEF IInv, EndInv, CommitData
  <2>2. UNCHANGED <<eof, error, staging, pos, userPc, failed, errors, ended>>
    BY <1>7 DEF CommitData, owner, user, history
  <2> QED
    BY <2>1, <2>2 DEF IInv, EndInv, Staged
<1>8. CASE CommitEnd
  <2>1. ~eof /\ ~failed /\ ~error /\ ~ended /\ errors = 0
    BY <1>8, <1>b DEF IInv, EndInv, CommitEnd
  <2>2. /\ eof' = TRUE /\ error' = failed' /\ fillPc' = "signal"
        /\ UNCHANGED <<buf, chunk, staging, pos, userPc, errors, ended>>
    BY <1>8, <2>1 DEF CommitEnd, owner, user
  <2>3. Len(chunk) = 0
    BY <1>8 DEF IInv, RoomInv, CommitEnd
  <2> QED
    BY <2>1, <2>2, <2>3 DEF IInv, EndInv, Staged
<1>9. CASE Signal
  BY <1>9 DEF IInv, EndInv, Signal, WakeUser, Staged, shared, owner
<1>10. ASSUME NEW call, NEW n, BeginCall(call, n)
       PROVE  EndInv'
  <2>1. UNCHANGED <<buf, chunk, fillPc, eof, error, failed, errors, ended>>
    BY <1>10 DEF BeginCall, shared, fill, history
  <2>2. CASE pos < Len(staging)
    <3>1. UNCHANGED <<staging, pos>> /\ userPc' = "copy"
      BY <1>10, <1>t, <2>2 DEF BeginCall, owner
    <3> QED
      BY <2>1, <3>1 DEF IInv, EndInv, Staged
  <2>3. CASE ~(pos < Len(staging))
    <3>1. Len(staging') = 0 /\ pos' = 0
      BY <1>10, <2>3, EmptySeq DEF BeginCall
    <3> QED
      BY <2>1, <3>1 DEF IInv, EndInv, Staged
  <2> QED
    BY <2>2, <2>3
<1>11. CASE RefillWait
  BY <1>11 DEF IInv, EndInv, RefillWait, Staged, shared, owner, fill, history
<1>12. CASE RefillEnd
  <2>1. Len(buf) = 0 /\ eof /\ Len(staging) = 0 /\ pos = 0
    BY <1>12, <1>t, EmptySeq DEF IInv, EndInv, RefillEnd, Exhausted
  <2>2. /\ errors' = (IF error THEN errors + 1 ELSE errors)
        /\ error' = FALSE /\ userPc' = "idle"
        /\ UNCHANGED <<buf, eof, staging, pos, chunk, fillPc, failed>>
    BY <1>12 DEF RefillEnd, owner, fill
  <2> QED
    BY <1>b, <1>t, <2>1, <2>2 DEF IInv, EndInv, Staged
<1>13. CASE RefillTake
  <2>1. ~(errors > 0 \/ ended) \/ Len(buf) = 0
    BY DEF IInv, EndInv
  <2>2. Len(buf) > 0
    BY <1>13, <1>t, EmptyLen DEF IInv, TypeOK, RefillTake
  <2>3. UNCHANGED <<eof, error, chunk, fillPc, failed, errors, ended>> /\ userPc' = "notify"
    BY <1>13 DEF RefillTake, fill, history
  <2> QED
    BY <1>t, <2>1, <2>2, <2>3 DEF IInv, EndInv
<1>14. CASE RefillNotify
  BY <1>14 DEF IInv, EndInv, RefillNotify, WakeFill, Staged, shared, owner, history
<1>15. ASSUME NEW n \in Nat, n <= Staged, Advance(n),
              UNCHANGED <<buf, eof, error, chunk, fillPc, failed, errors, ended>>,
              userPc' = "idle"
       PROVE  EndInv'
  <2>1. staging' = staging /\ pos' = pos + n
    BY <1>15 DEF Advance
  <2>2. Staged' = Staged - n /\ Staged \in Nat
    BY <2>1, <1>15, <1>t DEF Staged
  <2> QED
    BY <1>15, <2>1, <2>2 DEF IInv, EndInv
<1>16. CASE FinishRead
  <2>1. Smaller(Len(staging) - pos, slice) \in Nat /\ Smaller(Len(staging) - pos, slice) <= Staged
    BY DEF IInv, TypeOK, Smaller, Staged
  <2> QED
    BY <1>16, <2>1, <1>15 DEF FinishRead, shared, fill
<1>17. ASSUME NEW n \in 1 .. MaxRead, Consume(n)
       PROVE  EndInv'
  <2>1. Smaller(n, Len(staging) - pos) \in Nat /\ Smaller(n, Len(staging) - pos) <= Staged
    BY DEF IInv, TypeOK, Smaller, Staged
  <2> QED
    BY <1>17, <2>1, <1>15 DEF Consume, shared, fill, user
<1>18. CASE FinishFillBuf
  BY <1>18 DEF IInv, EndInv, FinishFillBuf, Staged, shared, owner, fill, history
<1>19. CASE DropFlag
  BY <1>19 DEF IInv, EndInv, DropFlag, Staged, owner, fill, history
<1>20. CASE DropNotify
  BY <1>20 DEF IInv, EndInv, DropNotify, WakeFill, Staged, shared, owner, history
<1>21. CASE Join
  BY <1>21 DEF IInv, EndInv, Join, Staged, shared, owner, fill, history
<1>22. CASE SpuriousFill
  BY <1>22 DEF IInv, EndInv, SpuriousFill, Staged, shared, owner, user, history
<1>23. CASE SpuriousUser
  BY <1>23 DEF IInv, EndInv, SpuriousUser, Staged, shared, owner, fill, history
<1>24. CASE UNCHANGED vars
  BY <1>24 DEF IInv, EndInv, Staged, vars, shared, owner, fill, user, history
<1> QED
  BY <1>1, <1>2, <1>3, <1>4, <1>5, <1>6, <1>7, <1>8, <1>9, <1>10, <1>11, <1>12, <1>13, <1>14,
     <1>16, <1>17, <1>18, <1>19, <1>20, <1>21, <1>22, <1>23, <1>24
     DEF Next, FillStep, SourceEvent, CallStep, CallBegin, Done, Read, FillBuf

\* Every step keeps the callback's bookkeeping.
LEMMA CallbackStep ==
  ASSUME IInv, [Next]_vars
  PROVE  CallbackInv'
<1> USE SlimBufferAssumption DEF IInv, CallbackInv
<1>t. /\ produced \in Nat /\ calls \in Nat
      /\ signalled \in BOOLEAN /\ reached \in BOOLEAN /\ eof \in BOOLEAN /\ shutdown \in BOOLEAN
  BY DEF TypeOK
<1>1. CASE AwaitRoom
  BY <1>1 DEF AwaitRoom, shared, history
<1>2. CASE ReadData
  <2>1. produced' >= produced /\ produced' \in Nat
    BY <1>2, <1>t DEF TypeOK, ReadData, Smaller
  <2> QED
    BY <1>2, <1>t, <2>1 DEF ReadData, shared
<1>3. CASE ReadEnd
  BY <1>3 DEF ReadEnd, shared, history
<1>4. CASE ReadRetry
  BY <1>4 DEF ReadRetry, shared, history
<1>5. CASE CommitShutdown
  BY <1>5 DEF CommitShutdown, shared, history
<1>6. CASE CommitRetry
  BY <1>6 DEF CommitRetry, shared, history
<1>7. CASE CommitData
  <2>1. Len(buf') <= produced /\ Len(buf') \in Nat
    <3>1. produced = Len(delivered) + Staged + Len(buf) + Len(chunk)
      BY DEF FlowInv
    <3>2. Len(delivered) \in Nat /\ Staged \in Nat /\ Len(buf) \in Nat /\ Len(chunk) \in Nat
      BY DEF TypeOK, Staged
    <3> QED
      BY <1>7, <3>1, <3>2, CommitLengths
  <2>2. ~eof
    BY <1>7 DEF EndInv, CommitData
  <2> QED
    BY <1>7, <1>t, <2>1, <2>2 DEF CommitData, history
<1>8. CASE CommitEnd
  BY <1>8 DEF CommitEnd
<1>9. CASE Signal
  BY <1>9, <1>t DEF Signal, CallbackDue, shared
<1>10. ASSUME UNCHANGED <<eof, shutdown, fillPc, kind, reached, signalled, produced, calls>>
       PROVE  CallbackInv'
  BY <1>10
<1>11. CASE \/ \E n \in 1 .. MaxRead : Read(n) \/ Consume(n)
            \/ FillBuf \/ RefillWait \/ RefillEnd \/ RefillTake \/ FinishRead
  BY <1>11, <1>10 DEF Read, FillBuf, BeginCall, Consume, RefillWait, RefillEnd, RefillTake,
       FinishRead, shared, fill, history
<1>12. CASE FinishFillBuf \/ Join \/ SpuriousUser \/ UNCHANGED vars
  BY <1>12, <1>10 DEF FinishFillBuf, Join, SpuriousUser, vars, shared, fill, history
<1>13. CASE RefillNotify
  BY <1>13 DEF RefillNotify, WakeFill, shared, history
<1>14. CASE DropNotify
  BY <1>14 DEF DropNotify, WakeFill, shared, history
<1>15. CASE SpuriousFill
  BY <1>15 DEF SpuriousFill, shared, history
<1>16. CASE DropFlag
  BY <1>16 DEF DropFlag, fill, history
<1> QED
  BY <1>1, <1>2, <1>3, <1>4, <1>5, <1>6, <1>7, <1>8, <1>9, <1>11, <1>12, <1>13, <1>14,
     <1>15, <1>16
     DEF Next, FillStep, SourceEvent, CallStep, CallBegin, Done

-----------------------------------------------------------------------------
(* The safety theorems                                                     *)

\* The invariant holds in the state with_capacity builds.
LEMMA InitInv == Init => IInv
<1> SUFFICES ASSUME Init PROVE IInv
  OBVIOUS
<1> USE SlimBufferAssumption, CapType, EmptySeq DEF Init
<1>1. TypeOK
  <2>1. << >> \in Seq(Nat) /\ Len(<< >>) = 0
    OBVIOUS
  <2>2. /\ buf \in Seq(Nat) /\ staging \in Seq(Nat) /\ chunk \in Seq(Nat)
        /\ delivered \in Seq(Nat) /\ pos \in 0 .. Len(staging)
    BY <2>1
  <2>3. want \in 0 .. ReadChunk /\ slice \in 0 .. MaxRead /\ produced \in 0 .. MaxSource
    OBVIOUS
  <2> QED
    BY <2>2, <2>3 DEF TypeOK, FillPcs, UserPcs
<1>2. Bytes(0, 0) = << >> /\ Len(<< >>) = 0 /\ Staged = 0
  BY BytesEmpty DEF Staged
<1>3. FlowInv
  BY <1>2 DEF FlowInv
<1>4. RoomInv
  <2>1. Len(buf) = 0 /\ Len(chunk) = 0 /\ Len(staging) = 0
    BY <1>2
  <2> QED
    BY <2>1 DEF RoomInv
<1>5. EndInv
  BY <1>2 DEF EndInv
<1>6. CallbackInv
  BY DEF CallbackInv
<1> QED
  BY <1>1, <1>3, <1>4, <1>5, <1>6 DEF IInv

\* Every variable of the buffer keeps its type in every reachable state, for
\* all capacities, thresholds, chunk and staging sizes.
THEOREM TypeCorrect == Spec => []TypeOK
<1>1. Init => TypeOK
  BY InitInv DEF IInv
<1>2. TypeOK /\ [Next]_vars => TypeOK'
  BY TypeStep
<1> QED
  BY <1>1, <1>2, PTL DEF Spec

\* The strengthened invariant holds in every reachable state.
THEOREM InvariantHolds == Spec => []IInv
<1>1. IInv /\ [Next]_vars => IInv'
  <2> SUFFICES ASSUME IInv, [Next]_vars PROVE IInv'
    OBVIOUS
  <2>1. TypeOK'
    BY TypeStep DEF IInv
  <2>2. FlowInv'
    BY FlowStep
  <2>3. RoomInv'
    BY RoomStep
  <2>4. EndInv'
    BY EndStep
  <2>5. CallbackInv'
    BY CallbackStep
  <2> QED
    BY <2>1, <2>2, <2>3, <2>4, <2>5 DEF IInv
<1> QED
  BY <1>1, InitInv, PTL DEF Spec

\* fill_loop never lets the shared buffer outgrow its capacity.
THEOREM CapacityTheorem == Spec => []CapacityRespected
<1>1. IInv => CapacityRespected
  BY DEF IInv, RoomInv, CapacityRespected
<1> QED
  BY <1>1, InvariantHolds, PTL

\* read, fill_buf and consume deliver the source's bytes in order, once each.
THEOREM InOrderTheorem == Spec => []InOrder
<1>1. IInv => InOrder
  BY DEF IInv, FlowInv, InOrder
<1> QED
  BY <1>1, InvariantHolds, PTL

\* refill reports the end, or the error, only after the last byte, and the
\* error exactly once and first.
THEOREM HonestEndTheorem == Spec => []HonestEnd
<1>1. IInv => HonestEnd
  <2> SUFFICES ASSUME IInv PROVE HonestEnd
    OBVIOUS
  <2>1. (errors > 0 \/ ended) => eof /\ Len(delivered) = produced
    <3>1. SUFFICES ASSUME errors > 0 \/ ended PROVE eof /\ Len(delivered) = produced
      OBVIOUS
    <3>2. eof
      BY <3>1 DEF IInv, TypeOK, EndInv
    <3>3. Len(buf) = 0 /\ Staged = 0 /\ Len(chunk) = 0
      BY <3>1, <3>2 DEF IInv, EndInv
    <3>4. produced = Len(delivered) + 0 + 0 + 0 /\ Len(delivered) \in Nat
      BY <3>3 DEF IInv, TypeOK, FlowInv
    <3> QED
      BY <3>2, <3>4
  <2>2. /\ errors <= (IF failed THEN 1 ELSE 0)
        /\ (failed /\ ended) => errors = 1
    BY DEF IInv, TypeOK, EndInv
  <2> QED
    BY <2>1, <2>2 DEF HonestEnd
<1> QED
  BY <1>1, InvariantHolds, PTL

\* threshold_cb runs once, when due, unless the buffer is dropped first.
THEOREM CallbackTheorem == Spec => []CallbackContract
<1>1. IInv => CallbackContract
  BY DEF IInv, TypeOK, CallbackInv, CallbackContract
<1> QED
  BY <1>1, InvariantHolds, PTL

-----------------------------------------------------------------------------
(* The refinement of ReadAhead                                             *)

\* The bytes taken in and the state of the source, as the pipe sees them.
Held == delivered \o SubSeq(staging, pos + 1, Len(staging)) \o buf
HeldLen == Len(delivered) + Staged + Len(buf)
HeldPrefix == HeldLen \in Nat /\ Held = Bytes(0, HeldLen)
End == IF ~eof THEN "open" ELSE IF failed THEN "error" ELSE "eof"

\* What was taken in and not thrown away is a prefix of the source.
LEMMA HeldIsPrefix == IInv => HeldPrefix
<1> SUFFICES ASSUME IInv PROVE HeldPrefix
  OBVIOUS
<1> DEFINE d == Len(delivered)
           l == Len(staging)
           b == Len(buf)
<1>1. /\ d \in Nat /\ l \in Nat /\ b \in Nat /\ pos \in 0 .. l /\ pos <= d
      /\ delivered = Bytes(0, d) /\ staging = Bytes(d - pos, l)
      /\ buf = Bytes(d + (l - pos), b) /\ HeldLen = d + (l - pos) + b
  BY SMTT(30) DEF IInv, TypeOK, FlowInv, Staged, HeldLen
<1> HIDE DEF d, l, b
<1>2. d - pos \in Nat /\ l \in pos .. l /\ l - pos \in Nat
  BY <1>1
<1>3. SubSeq(Bytes(d - pos, l), pos + 1, l) = Bytes((d - pos) + pos, l - pos)
  BY <1>1, <1>2, BytesSub
<1>4. (d - pos) + pos = 0 + d
  BY <1>1
<1>5. SubSeq(staging, pos + 1, l) = Bytes(0 + d, l - pos)
  BY <1>1, <1>3, <1>4
<1>6. ASSUME NEW m \in Nat, NEW n \in Nat, NEW k \in Nat, m = 0
      PROVE  Bytes(0, n) \o Bytes(0 + n, k) = Bytes(0, n + k)
  <2>1. Bytes(m, n) \o Bytes(m + n, k) = Bytes(m, n + k)
    BY BytesConcat
  <2> QED BY <2>1, <1>6
<1>7. delivered \o SubSeq(staging, pos + 1, l) = Bytes(0, d + (l - pos))
  <2>1. Bytes(0, d) \o Bytes(0 + d, l - pos) = Bytes(0, d + (l - pos))
    BY <1>1, <1>2, <1>6
  <2> QED BY <2>1, <1>1, <1>5
<1> DEFINE e == d + (l - pos)
<1>8. e \in Nat /\ HeldLen = e + b
  BY <1>1, <1>2
<1>9. buf = Bytes(e, b) /\ delivered \o SubSeq(staging, pos + 1, l) = Bytes(0, e)
  BY <1>1, <1>7
<1> HIDE DEF e
<1>10. Bytes(0, e) \o Bytes(e, b) = Bytes(0, e + b)
  <2>1. Bytes(0, e) \o Bytes(0 + e, b) = Bytes(0, e + b)
    BY <1>1, <1>8, <1>6
  <2>2. 0 + e = e
    BY <1>8
  <2> QED BY <2>1, <2>2
<1>11. Held = Bytes(0, e) \o Bytes(e, b)
  BY <1>9, Zenon DEF Held, l
<1>12. HeldLen \in Nat
  BY <1>1, <1>8
<1>13. Held = Bytes(0, HeldLen)
  BY <1>8, <1>10, <1>11, Zenon
<1> QED
  BY <1>12, <1>13 DEF HeldPrefix

\* A step that changes neither what was delivered, nor how much is held, nor
\* what is known of the end, is invisible to the pipe.
LEMMA Invisible ==
  ASSUME IInv, IInv', HeldLen' = HeldLen, UNCHANGED <<delivered, eof, failed, errors, ended>>
  PROVE  UNCHANGED Pipe!vars
<1>1. HeldPrefix /\ HeldPrefix'
  BY HeldIsPrefix, PTL
<1>2. Held' = Held
  BY <1>1 DEF HeldPrefix
<1> QED
  BY <1>2 DEF Pipe!vars, Held

\* The lengths are numbers and the flags Booleans.
LEMMA Sizes ==
  ASSUME IInv
  PROVE  /\ Len(delivered) \in Nat /\ Staged \in Nat /\ Len(buf) \in Nat /\ Len(chunk) \in Nat
         /\ eof \in BOOLEAN /\ error \in BOOLEAN /\ failed \in BOOLEAN /\ ended \in BOOLEAN
BY DEF IInv, TypeOK, Staged

\* Handing staged bytes to the owner is the pipe's Hand, or nothing.
LEMMA AdvanceHands ==
  ASSUME IInv, IInv', NEW n \in Nat, n <= Staged, Advance(n),
         UNCHANGED <<buf, chunk, produced, eof, failed, errors, ended>>
  PROVE  Pipe!Hand \/ UNCHANGED Pipe!vars
<1>1. Len(delivered') = Len(delivered) + n /\ Staged' = Staged - n
  BY AdvanceFlow DEF IInv
<1>2. Len(delivered) \in Nat /\ Staged \in Nat /\ Len(buf) \in Nat
  BY Sizes
<1>3. HeldLen' = HeldLen
  BY <1>1, <1>2 DEF HeldLen
<1>4. HeldPrefix /\ HeldPrefix'
  BY HeldIsPrefix, PTL
<1>5. Held' = Held
  BY <1>3, <1>4 DEF HeldPrefix
<1>6. CASE n = 0
  <2>1. delivered = Bytes(0, Len(delivered)) /\ delivered' = Bytes(0, Len(delivered'))
    BY DEF IInv, FlowInv
  <2>2. delivered' = delivered
    BY <2>1, <1>1, <1>2, <1>6
  <2> QED
    BY <2>2, <1>3, Invisible
<1>7. CASE n # 0
  <2> DEFINE k == Len(delivered) + n
             h == HeldLen
  <2>1. k \in Nat /\ h \in Nat /\ k \in Len(delivered) + 1 .. h
    BY <1>2, <1>7 DEF HeldLen
  <2>2. delivered' = Bytes(0, k)
    BY <1>1 DEF IInv, FlowInv
  <2> HIDE DEF k, h
  <2>3. ASSUME NEW z \in Nat, z = 0
        PROVE  SubSeq(Bytes(z, h), z + 1, k) = Bytes(z + z, k - z)
    <3>1. z \in 0 .. h /\ k \in z .. h
      BY <2>1, <2>3, <1>2
    <3> QED BY <3>1, <2>1, BytesSub
  <2>4. SubSeq(Bytes(0, h), 1, k) = Bytes(0, k)
    <3>1. SubSeq(Bytes(0, h), 0 + 1, k) = Bytes(0 + 0, k - 0)
      BY <2>3
    <3>2. 0 + 1 = 1 /\ 0 + 0 = 0 /\ k - 0 = k
      BY <2>1
    <3> QED BY <3>1, <3>2
  <2>5. delivered' = SubSeq(Held, 1, k)
    BY <2>2, <2>4, <1>4 DEF HeldPrefix, h
  <2>6. Len(Held) = h
    <3>1. Len(Bytes(0, h)) = h
      BY <2>1, BytesType
    <3> QED BY <3>1, <1>4 DEF HeldPrefix, h
  <2>7. \E x \in Len(delivered) + 1 .. Len(Held) : delivered' = SubSeq(Held, 1, x)
    BY <2>1, <2>5, <2>6
  <2> QED
    BY <2>7, <1>5 DEF Pipe!Hand, Held
<1> QED
  BY <1>6, <1>7

\* Every step of the buffer is a step of the pipe or a stutter.
LEMMA PipeStep ==
  ASSUME IInv, IInv', [Next]_vars
  PROVE  [Pipe!Next]_(Pipe!vars)
<1> USE SlimBufferAssumption, CapType
<1>t. /\ Len(delivered) \in Nat /\ Staged \in Nat /\ Len(buf) \in Nat /\ Len(chunk) \in Nat
      /\ eof \in BOOLEAN /\ error \in BOOLEAN /\ failed \in BOOLEAN /\ ended \in BOOLEAN
  BY Sizes
<1>p. HeldPrefix /\ HeldPrefix'
  BY HeldIsPrefix, PTL
<1>0. ASSUME UNCHANGED <<buf, staging, pos, delivered, eof, failed, errors, ended>>
      PROVE  UNCHANGED Pipe!vars
  <2>1. HeldLen' = HeldLen
    BY <1>0 DEF HeldLen, Staged
  <2> QED
    BY <1>0, <2>1, Invisible
<1>1. CASE CommitData
  <2>1. Len(buf') = Len(buf) + Len(chunk) /\ UNCHANGED <<eof, staging, pos, delivered, failed, errors, ended>>
    BY <1>1, CommitLengths DEF IInv, CommitData, owner, history
  <2>2. HeldLen' = HeldLen + Len(chunk) /\ HeldLen \in Nat
    BY <2>1, <1>t DEF HeldLen, Staged
  <2>3. ~eof
    BY <1>1 DEF IInv, EndInv, CommitData
  <2>4. CASE Len(chunk) = 0
    BY <2>1, <2>2, <2>4, Invisible
  <2>5. CASE Len(chunk) > 0
    <3>1. HeldLen' <= MaxSource
      BY <2>2, <1>t DEF IInv, TypeOK, FlowInv, HeldLen
    <3>2. HeldLen' - Len(delivered) <= Cap + StagingSize
      <4>1. Staged <= StagingSize /\ Len(buf) + Len(chunk) <= Cap
        BY <1>t DEF IInv, TypeOK, RoomInv, Staged
      <4> QED BY <4>1, <2>2, <1>t DEF HeldLen
    <3>3. Len(Held) = HeldLen
      <4>1. Len(Bytes(0, HeldLen)) = HeldLen
        BY <2>2, BytesType
      <4> QED BY <4>1, <1>p DEF HeldPrefix
    <3> DEFINE k == HeldLen'
    <3>4. k \in Len(Held) + 1 .. MaxSource /\ k - Len(delivered) <= Cap + StagingSize
      BY <2>2, <2>5, <3>1, <3>2, <3>3, <1>t
    <3>5. Held' = Bytes(0, k)
      BY <1>p DEF HeldPrefix
    <3> HIDE DEF k
    <3>6. Held' = Pipe!Bytes(0, k)
      BY <3>5 DEF Bytes, Pipe!Bytes
    <3>7. \E x \in Len(Held) + 1 .. MaxSource :
             x - Len(delivered) <= Cap + StagingSize /\ Held' = Pipe!Bytes(0, x)
      BY <3>4, <3>6
    <3>8. Pipe!Accept
      BY <3>7, <2>1, <2>3, Zenon DEF Pipe!Accept, Held
    <3> QED BY <3>8 DEF Pipe!Next
  <2> QED BY <2>4, <2>5, <1>t
<1>2. CASE CommitEnd
  <2>1. ~eof /\ eof' /\ UNCHANGED <<buf, staging, pos, delivered, errors, ended>>
    BY <1>2 DEF IInv, EndInv, CommitEnd, owner
  <2>2. Held' = Held /\ End = "open" /\ End' \in {"eof", "error"}
    BY <2>1 DEF Held, End
  <2>3. Pipe!Finish
    BY <2>1, <2>2 DEF Pipe!Finish, Held, End
  <2> QED BY <2>3 DEF Pipe!Next
<1>3. CASE RefillEnd
  <2>1. /\ buf = << >> /\ eof /\ Len(staging) = 0 /\ pos = 0
        /\ UNCHANGED <<buf, eof, staging, pos, delivered, failed>>
    BY <1>3 DEF IInv, EndInv, TypeOK, RefillEnd, Exhausted, owner
  <2>2. Held' = Held /\ End' = End
    BY <2>1 DEF Held, End
  <2>3. Held = delivered
    <3>1. HeldLen = Len(delivered)
      BY <2>1, <1>t, EmptySeq DEF HeldLen, Staged
    <3> QED
      BY <3>1, <1>p DEF HeldPrefix, IInv, FlowInv
  <2>4. CASE error
    <3>1. failed /\ errors = 0 /\ errors' = 1 /\ UNCHANGED ended
      BY <1>3, <2>4, <1>t DEF IInv, EndInv, RefillEnd
    <3>2. End = "error"
      BY <2>1, <3>1 DEF End
    <3>3. Pipe!TellError
      BY <2>1, <2>2, <2>3, <3>1, <3>2, Zenon DEF Pipe!TellError, Held, End
    <3> QED BY <3>3 DEF Pipe!Next
  <2>5. CASE ~error
    <3>1. errors' = errors /\ ended' = TRUE /\ (failed => errors = 1)
      BY <1>3, <2>5, <1>t DEF IInv, EndInv, RefillEnd
    <3>2. End = "eof" \/ (End = "error" /\ errors = 1)
      BY <2>1, <3>1, <1>t DEF End
    <3>3. Pipe!TellEnd
      BY <2>1, <2>2, <2>3, <3>1, <3>2, Zenon DEF Pipe!TellEnd, Held, End
    <3> QED BY <3>3 DEF Pipe!Next
  <2> QED BY <2>4, <2>5
<1>4. ASSUME NEW call, NEW n, BeginCall(call, n)
      PROVE  UNCHANGED Pipe!vars
  <2>1. UNCHANGED <<buf, delivered, eof, failed, errors, ended>>
    BY <1>4 DEF BeginCall, shared, history
  <2>2. Staged' = Staged
    <3>1. pos \in 0 .. Len(staging) /\ Len(staging) \in Nat
      BY DEF IInv, TypeOK
    <3>2. CASE pos < Len(staging)
      BY <1>4, <3>1, <3>2 DEF BeginCall, owner, Staged
    <3>3. CASE ~(pos < Len(staging))
      <4>1. Len(staging') = 0 /\ pos' = 0
        BY <1>4, <3>3, EmptySeq DEF BeginCall
      <4> QED BY <3>1, <3>3, <4>1 DEF Staged
    <3> QED BY <3>2, <3>3
  <2>3. HeldLen' = HeldLen
    BY <2>1, <2>2 DEF HeldLen
  <2> QED BY <2>1, <2>3, Invisible
<1>5. CASE RefillTake
  <2>1. UNCHANGED <<delivered, eof, failed, errors, ended, pos>>
    BY <1>5 DEF RefillTake, history
  <2>2. /\ Len(staging) = 0 /\ pos = 0
        /\ Len(staging') = Smaller(Len(buf), StagingSize)
        /\ Len(buf') = Len(buf) - Smaller(Len(buf), StagingSize)
    BY <1>5, TakeLengths
  <2> DEFINE n == Smaller(Len(buf), StagingSize)
  <2>n. n \in Nat
    BY <1>t DEF Smaller
  <2> HIDE DEF n
  <2>3a. Staged = 0 /\ Staged' = n /\ Len(buf') = Len(buf) - n /\ Len(delivered') = Len(delivered)
    BY <2>1, <2>2, <2>n DEF Staged, n
  <2>3. HeldLen' = HeldLen
    BY <2>3a, <2>n, <1>t DEF HeldLen
  <2> QED BY <2>1, <2>3, Invisible
<1>6. CASE FinishRead
  <2>1. Smaller(Len(staging) - pos, slice) \in Nat /\ Smaller(Len(staging) - pos, slice) <= Staged
    BY DEF IInv, TypeOK, Smaller, Staged
  <2>2. Pipe!Hand \/ UNCHANGED Pipe!vars
    BY <1>6, <2>1, AdvanceHands DEF FinishRead, shared, fill
  <2> QED BY <2>2 DEF Pipe!Next
<1>7. ASSUME NEW n \in 1 .. MaxRead, Consume(n)
      PROVE  [Pipe!Next]_(Pipe!vars)
  <2>1. Smaller(n, Len(staging) - pos) \in Nat /\ Smaller(n, Len(staging) - pos) <= Staged
    BY DEF IInv, TypeOK, Smaller, Staged
  <2>2. Pipe!Hand \/ UNCHANGED Pipe!vars
    BY <1>7, <2>1, AdvanceHands DEF Consume, shared, fill
  <2> QED BY <2>2 DEF Pipe!Next
<1>8. CASE AwaitRoom \/ ReadData \/ ReadEnd \/ ReadRetry \/ CommitShutdown \/ CommitRetry
  BY <1>8, <1>0 DEF AwaitRoom, ReadData, ReadEnd, ReadRetry, CommitShutdown, CommitRetry,
       shared, owner, history
<1>9. CASE Signal \/ RefillNotify \/ DropNotify \/ SpuriousFill \/ DropFlag
  BY <1>9, <1>0 DEF Signal, RefillNotify, DropNotify, SpuriousFill, DropFlag,
       shared, owner, history
<1>10. CASE RefillWait \/ FinishFillBuf \/ Join \/ SpuriousUser \/ UNCHANGED vars
  BY <1>10, <1>0 DEF RefillWait, FinishFillBuf, Join, SpuriousUser, vars, shared, owner, history
<1> QED
  BY <1>1, <1>2, <1>3, <1>4, <1>5, <1>6, <1>7, <1>8, <1>9, <1>10
     DEF Next, FillStep, SourceEvent, CallStep, CallBegin, Done, Read, FillBuf

\* The two threads of buffer.rs implement the read-ahead pipe: ordered,
\* lossless, bounded by capacity plus staging area, honest about the end.
THEOREM RefinementTheorem == Spec => ImplementsReadAhead
<1>1. Init => Pipe!Init
  <2> SUFFICES ASSUME Init PROVE Pipe!Init
    OBVIOUS
  <2>1. HeldPrefix /\ HeldLen = 0
    <3>1. HeldLen = 0
      BY EmptySeq DEF Init, HeldLen, Staged
    <3> QED BY <3>1, InitInv, HeldIsPrefix
  <2>2. Held = << >>
    BY <2>1, BytesEmpty DEF HeldPrefix
  <2>3. End = "open"
    BY DEF Init, End
  <2> QED
    BY <2>2, <2>3 DEF Init, Pipe!Init, Held, End
<1>2. IInv /\ IInv' /\ [Next]_vars => [Pipe!Next]_(Pipe!vars)
  BY PipeStep
<1> QED
  BY <1>1, <1>2, InvariantHolds, PTL DEF Spec, Pipe!Spec, ImplementsReadAhead

=============================================================================
