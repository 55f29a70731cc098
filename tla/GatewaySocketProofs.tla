--------------------------- MODULE GatewaySocketProofs ---------------------------
(***************************************************************************)
(* The two limits on a game socket hold for every rate, capacity, limit    *)
(* and timing, and its read loop implements FrameChannel for all frames    *)
(* and every way of cutting the stream.                                    *)
(*                                                                         *)
(* The shared limit is inductive once the counter of Redis is known to be  *)
(* at least what was admitted.  The bound on the bucket is not: it needs   *)
(* the tokens that are still in the bucket, counted from the time of the   *)
(* last refill, with what was given away.                                  *)
(*                                                                         *)
(* The refinement needs that nothing is left behind the complete frames of *)
(* buffer and network while the client may go on writing; that the frames  *)
(* stay the same when a read moves the cut is SplitAnywhere of             *)
(* WireCodecProofs.                                                        *)
(***************************************************************************)
EXTENDS WireProtocol, WireCodecProofs

LimiterTypeOK ==
  /\ now \in Times
  /\ available \in 0..Capacity
  /\ last_refill \in 0..now
  /\ taken \in [Times -> Nat]
  /\ counter \in [Seconds -> Nat]
  /\ admitted \in [Seconds -> Nat]

\* What was given away since t, and what is left, was in the bucket at t or has
\* been credited by the last refill.
BucketBalance ==
  \A t \in Times :
    /\ t <= last_refill => taken[t] + available <= Capacity + Rate * (last_refill - t)
    /\ t > last_refill => taken[t] = 0

CounterBalance ==
  \A s \in Seconds :
    /\ admitted[s] <= counter[s]
    /\ admitted[s] <= distributed_limit

LimiterInv == LimiterTypeOK /\ BucketBalance /\ CounterBalance

-----------------------------------------------------------------------------
\* The current second is one that Redis may count.
LEMMA SecondInRange ==
  ASSUME now \in Times
  PROVE  unix_second \in Seconds
BY SocketConstants DEF Times, Seconds, unix_second

\* A refill yields no more than the capacity, nor than was there and the time.
LEMMA RefillBounds ==
  ASSUME LimiterTypeOK
  PROVE  /\ refill \in 0..Capacity
         /\ refill <= available + Rate * (now - last_refill)
<1>1. Rate * (now - last_refill) \in Nat
  BY SocketConstants DEF LimiterTypeOK, Times
<1> QED
  BY <1>1, SocketConstants DEF LimiterTypeOK, refill, Least

\* Credits of adjoining times add up.
LEMMA CreditsAdd ==
  ASSUME NEW a \in Nat, NEW b \in Nat, NEW c \in Nat, NEW r \in Nat, a <= b, b <= c
  PROVE  /\ r * (c - a) = r * (c - b) + r * (b - a)
         /\ r * (c - a) \in Nat /\ r * (c - b) \in Nat /\ r * (b - a) \in Nat
OBVIOUS

\* A step of the bucket keeps its balance, whether it lets the frame through
\* or not.
LEMMA BucketStep ==
  ASSUME LimiterTypeOK, BucketBalance, UNCHANGED now,
         NEW ok \in BOOLEAN, try_acquire(ok)
  PROVE  /\ available' \in 0..Capacity
         /\ last_refill' \in 0..now'
         /\ taken' \in [Times -> Nat]
         /\ BucketBalance'
<1>1. /\ refill \in 0..Capacity
      /\ refill <= available + Rate * (now - last_refill)
  BY RefillBounds
<1>2. /\ now \in Nat /\ last_refill \in Nat /\ last_refill <= now
      /\ available \in Nat /\ Capacity \in Nat /\ Cost \in Nat /\ Rate \in Nat
  BY SocketConstants DEF LimiterTypeOK, Times
<1>3. /\ last_refill' = now
      /\ taken' = [t \in Times |-> IF ok /\ t <= now THEN taken[t] + Cost ELSE taken[t]]
      /\ available' = IF ok THEN refill - Cost ELSE refill
      /\ ok => refill >= Cost
  BY DEF try_acquire, Taken
<1>4. available' \in 0..Capacity
  BY <1>1, <1>2, <1>3
<1>5. taken' \in [Times -> Nat]
  BY <1>2, <1>3 DEF LimiterTypeOK
<1>6. ASSUME NEW t \in Times
      PROVE  /\ t <= last_refill' =>
                  taken'[t] + available' <= Capacity + Rate * (last_refill' - t)
             /\ t > last_refill' => taken'[t] = 0
  <2>1. t \in Nat /\ taken[t] \in Nat
    BY DEF Times, LimiterTypeOK
  <2>2. taken'[t] = IF ok /\ t <= now THEN taken[t] + Cost ELSE taken[t]
    BY <1>3
  <2>3. CASE t <= last_refill
    <3>1. taken[t] + available <= Capacity + Rate * (last_refill - t)
      BY <2>3 DEF BucketBalance
    <3>2. /\ Rate * (now - t) = Rate * (now - last_refill) + Rate * (last_refill - t)
          /\ Rate * (now - t) \in Nat /\ Rate * (now - last_refill) \in Nat
          /\ Rate * (last_refill - t) \in Nat
      BY <1>2, <2>1, <2>3, CreditsAdd
    <3>3. taken'[t] + available' = taken[t] + refill
      BY <1>1, <1>2, <1>3, <2>1, <2>2, <2>3
    <3>4. taken[t] + refill <= Capacity + Rate * (now - t)
      BY <1>1, <1>2, <2>1, <3>1, <3>2
    <3> QED
      BY <1>2, <1>3, <2>1, <2>3, <3>3, <3>4
  <2>4. CASE t > last_refill
    <3>1. taken[t] = 0
      BY <2>4 DEF BucketBalance
    <3>2. CASE t <= now
      <4>1. taken'[t] + available' = refill
        BY <1>1, <1>2, <1>3, <2>2, <3>1, <3>2
      <4>2. Rate * (now - t) \in Nat
        BY <1>2, <2>1, <3>2, CreditsAdd
      <4> QED
        BY <1>1, <1>2, <1>3, <2>1, <3>2, <4>1, <4>2
    <3>3. CASE t > now
      BY <1>2, <1>3, <2>1, <2>2, <3>1, <3>3
    <3> QED
      BY <1>2, <2>1, <3>2, <3>3
  <2> QED
    BY <1>2, <2>1, <2>3, <2>4
<1> QED
  BY <1>2, <1>3, <1>4, <1>5, <1>6 DEF BucketBalance

\* Counting a frame keeps the counters balanced.
LEMMA CounterStep ==
  ASSUME LimiterTypeOK, CounterBalance, UNCHANGED now, Counted,
         NEW ok \in BOOLEAN,
         ok => counter'[unix_second] <= distributed_limit,
         admitted' = [admitted EXCEPT ![unix_second] = IF ok THEN @ + 1 ELSE @]
  PROVE  /\ counter' \in [Seconds -> Nat]
         /\ admitted' \in [Seconds -> Nat]
         /\ CounterBalance'
<1>1. unix_second \in Seconds
  BY SecondInRange DEF LimiterTypeOK
<1>2. /\ counter' = [counter EXCEPT ![unix_second] = counter[unix_second] + 1]
      /\ counter \in [Seconds -> Nat] /\ admitted \in [Seconds -> Nat]
  BY DEF Counted, LimiterTypeOK
<1>3. counter' \in [Seconds -> Nat] /\ admitted' \in [Seconds -> Nat]
  BY <1>1, <1>2
<1>4. ASSUME NEW s \in Seconds
      PROVE  admitted'[s] <= counter'[s] /\ admitted'[s] <= distributed_limit
  <2>1. /\ admitted[s] <= counter[s] /\ admitted[s] <= distributed_limit
        /\ admitted[s] \in Nat /\ counter[s] \in Nat /\ distributed_limit \in Nat
    BY <1>2, SocketConstants DEF CounterBalance
  <2>2. CASE s # unix_second
    BY <1>1, <1>2, <2>1, <2>2
  <2>3. CASE s = unix_second
    <3>1. counter'[s] = counter[s] + 1
      BY <1>2, <2>3
    <3>2. admitted'[s] = IF ok THEN admitted[s] + 1 ELSE admitted[s]
      BY <1>2, <2>3
    <3> QED
      BY <2>1, <2>3, <3>1, <3>2
  <2> QED
    BY <2>2, <2>3
<1> QED
  BY <1>3, <1>4 DEF CounterBalance

LEMMA LimiterInit == Init => LimiterInv
<1> SUFFICES ASSUME Init PROVE LimiterInv
  OBVIOUS
<1>1. LimiterTypeOK
  BY SocketConstants DEF Init, LimiterTypeOK, Times
<1>2. BucketBalance
  <2> SUFFICES ASSUME NEW t \in Times
               PROVE  /\ t <= 0 => 0 + Capacity <= Capacity + Rate * (0 - t)
                      /\ taken[t] = 0
    BY DEF Init, BucketBalance
  <2>1. t <= 0 => t = 0
    BY DEF Times
  <2> QED
    BY <2>1, SocketConstants DEF Init
<1>3. CounterBalance
  BY SocketConstants DEF Init, CounterBalance
<1> QED
  BY <1>1, <1>2, <1>3 DEF LimiterInv

LEMMA LimiterStep == LimiterInv /\ [Next]_vars => LimiterInv'
<1> SUFFICES ASSUME LimiterInv, [Next]_vars PROVE LimiterInv'
  OBVIOUS
<1> USE DEF LimiterInv
<1>1. ASSUME UNCHANGED <<now, bucket, redis>> PROVE LimiterInv'
  BY <1>1 DEF LimiterTypeOK, BucketBalance, CounterBalance, bucket, redis
<1>2. CASE UNCHANGED vars
  BY <1>1, <1>2 DEF vars
<1>3. CASE Client \/ ReadSome \/ EndOfFile \/ Lost
  BY <1>1, <1>3 DEF Client, Write, EndStream, EndWithin, ReadSome, Read, EndOfFile, Lost, Close
<1>4. CASE OtherSocket
  <2> DEFINE ok == counter'[unix_second] <= distributed_limit
  <2>1. UNCHANGED now /\ UNCHANGED bucket /\ Counted
    BY <1>4 DEF OtherSocket, Counted
  <2>2. admitted' = [admitted EXCEPT ![unix_second] = IF ok THEN @ + 1 ELSE @]
    BY <1>4 DEF OtherSocket
  <2>3. ok \in BOOLEAN
    OBVIOUS
  <2>4. /\ counter' \in [Seconds -> Nat] /\ admitted' \in [Seconds -> Nat]
        /\ CounterBalance'
    <3> HIDE DEF ok
    <3>1. ok => counter'[unix_second] <= distributed_limit
      BY DEF ok
    <3> QED
      BY <2>1, <2>2, <2>3, <3>1, CounterStep
  <2> QED
    BY <2>1, <2>4 DEF LimiterTypeOK, BucketBalance, bucket
<1>5. CASE Tick
  <2>1. /\ now \in 0..MaxTime /\ now < MaxTime /\ now' = now + 1
        /\ UNCHANGED bucket /\ UNCHANGED redis /\ MaxTime \in Nat
    BY <1>5, SocketConstants DEF Tick, LimiterTypeOK, Times
  <2>2. LimiterTypeOK'
    BY <2>1 DEF LimiterTypeOK, Times, bucket, redis
  <2> QED
    BY <2>1, <2>2 DEF BucketBalance, CounterBalance, bucket, redis
<1>6. CASE HandleSome
  <2>1. PICK ok \in BOOLEAN, translates \in BOOLEAN : HandleFrame(ok, translates)
    BY <1>6 DEF HandleSome
  <2>2. UNCHANGED now
    BY <2>1 DEF HandleFrame
  <2>3. CASE try_acquire_distributed_rate_limit(ok)
    <3>1. /\ counter' \in [Seconds -> Nat] /\ admitted' \in [Seconds -> Nat]
          /\ CounterBalance'
      BY <2>2, <2>3, CounterStep DEF try_acquire_distributed_rate_limit
    <3> QED
      BY <2>2, <2>3, <3>1
      DEF try_acquire_distributed_rate_limit, LimiterTypeOK, BucketBalance, bucket
  <2>4. CASE Fallback(ok)
    <3>1. /\ available' \in 0..Capacity /\ last_refill' \in 0..now'
          /\ taken' \in [Times -> Nat] /\ BucketBalance'
      BY <2>2, <2>4, BucketStep DEF Fallback
    <3>2. CASE UNCHANGED counter
      BY <2>2, <2>4, <3>1, <3>2 DEF Fallback, LimiterTypeOK, CounterBalance
    <3>3. CASE Counted
      <4>1. unix_second \in Seconds
        BY SecondInRange DEF LimiterTypeOK
      <4>2. admitted' = [admitted EXCEPT ![unix_second] = IF FALSE THEN @ + 1 ELSE @]
        BY <2>4 DEF Fallback, LimiterTypeOK
      <4>3. /\ counter' \in [Seconds -> Nat] /\ admitted' \in [Seconds -> Nat]
            /\ CounterBalance'
        BY <2>2, <3>3, <4>2, CounterStep
      <4> QED
        BY <2>2, <3>1, <4>3 DEF LimiterTypeOK
    <3> QED
      BY <2>4, <3>2, <3>3 DEF Fallback
  <2> QED
    BY <2>1, <2>3, <2>4 DEF HandleFrame
<1> QED
  BY <1>2, <1>3, <1>4, <1>5, <1>6 DEF Next

\* The bookkeeping of the two limiters is in balance in every reachable state.
THEOREM LimiterInvariant == Spec => []LimiterInv
<1> QED
  BY LimiterInit, LimiterStep, PTL DEF Spec

-----------------------------------------------------------------------------
\* For every rate and capacity, and whenever Redis is out of order, no stretch
\* of time sees the bucket of a socket (TokenBucketRateLimiter) let more frames
\* through than its capacity and the rate allow.
THEOREM BucketNeverOverspends == Spec => []LocalBound
<1>1. LimiterInv => LocalBound
  <2> SUFFICES ASSUME LimiterInv, NEW t \in Times, t <= now
               PROVE  taken[t] <= Capacity + Rate * (now - t)
    BY DEF LocalBound
  <2>1. /\ t \in Nat /\ now \in Nat /\ last_refill \in Nat /\ last_refill <= now
        /\ available \in Nat /\ taken[t] \in Nat /\ Capacity \in Nat /\ Rate \in Nat
    BY SocketConstants DEF LimiterInv, LimiterTypeOK, Times
  <2>2. Rate * (now - t) \in Nat
    BY <2>1, CreditsAdd
  <2>3. CASE t > last_refill
    BY <2>1, <2>2, <2>3 DEF LimiterInv, BucketBalance
  <2>4. CASE t <= last_refill
    <3>1. taken[t] + available <= Capacity + Rate * (last_refill - t)
      BY <2>4 DEF LimiterInv, BucketBalance
    <3>2. /\ Rate * (now - t) = Rate * (now - last_refill) + Rate * (last_refill - t)
          /\ Rate * (now - last_refill) \in Nat /\ Rate * (last_refill - t) \in Nat
      BY <2>1, <2>4, CreditsAdd
    <3> QED
      BY <2>1, <2>2, <3>1, <3>2
  <2> QED
    BY <2>1, <2>3, <2>4
<1> QED
  BY <1>1, LimiterInvariant, PTL

\* For every limit and number of sockets, Redis admits at most the limit of an
\* address in a second, also when it counted a frame and the reply was lost.
THEOREM SharedLimitHolds == Spec => []SharedBound
<1>1. LimiterInv => SharedBound
  BY DEF LimiterInv, CounterBalance, SharedBound
<1> QED
  BY <1>1, LimiterInvariant, PTL

-----------------------------------------------------------------------------
\* What waits in frames, buffer and network: the queue of the channel.
Pending == frames \o split_frames(read_buf \o wire).frames

StreamTypeOK ==
  /\ wire \in Bytes
  /\ ended \in BOOLEAN
  /\ read_buf \in Bytes
  /\ frames \in Seq(Bytes)
  /\ open \in BOOLEAN
  /\ cut \in BOOLEAN
  /\ written \in 0..MaxFrames
  /\ queued \in Seq(Bytes)

\* The buffer holds no complete frame, and what is pending are frames as the
\* client wrote them, with nothing behind them while it may go on writing.
StreamInv ==
  /\ StreamTypeOK
  /\ ~Whole(read_buf)
  /\ \A i \in 1..Len(Pending) : Pending[i] \in Frames
  /\ ~ended => split_frames(read_buf \o wire).rest = <<>>

LEMMA JoinBytes ==
  ASSUME NEW x \in Bytes, NEW y \in Bytes, NEW z \in Bytes
  PROVE  /\ x \o y \in Bytes
         /\ (x \o y) \o z = x \o (y \o z)
BY ConcatProperties, ConcatAssociative DEF Bytes

LEMMA FrameIsBytes ==
  ASSUME NEW f \in Frames
  PROVE  f \in Bytes /\ Whole(f) /\ Total(f) = Len(f) /\ Len(f) \in Nat
BY SocketConstants, LenProperties DEF Bytes

LEMMA EmptyBytes ==
  /\ <<>> \in Bytes
  /\ <<>> \in Seq(Bytes)
  /\ split_frames(<<>>).frames = <<>>
  /\ split_frames(<<>>).rest = <<>>
<1>1. <<>> \in Bytes /\ <<>> \in Seq(Bytes)
  BY EmptySeq DEF Bytes
<1>2. ~Whole(<<>>)
  BY DEF Whole
<1> QED
  BY <1>1, <1>2, SplitNone

\* A frame of the client is split off as it is.
LEMMA FrameSplit ==
  ASSUME NEW f \in Frames
  PROVE  split_frames(f).frames = <<f>> /\ split_frames(f).rest = <<>>
<1>1. f \in Bytes /\ Whole(f) /\ Total(f) = Len(f) /\ Len(f) \in Nat
  BY FrameIsBytes
<1>2. SubSeq(f, 1, Len(f)) = f
  BY <1>1, SubSeqFull DEF Bytes
<1>3. Ahead(f, Len(f)) = <<>>
  BY <1>1, SubSeqEmpty DEF Ahead
<1>4. <<f>> \o <<>> = <<f>>
  BY <1>1, ConcatEmptySeq
<1> QED
  BY <1>1, <1>2, <1>3, <1>4, EmptyBytes, SplitOne

\* A part of a frame is not one.
LEMMA PartSplit ==
  ASSUME NEW f \in Frames, NEW n \in 1..(Len(f) - 1)
  PROVE  /\ SubSeq(f, 1, n) \in Bytes
         /\ split_frames(SubSeq(f, 1, n)).frames = <<>>
<1>1. f \in Bytes /\ Total(f) = Len(f) /\ Len(f) \in Nat
  BY FrameIsBytes
<1>2. \A k \in 1..n : f[k] \in Byte
  <2> TAKE k \in 1..n
  <2>1. k \in 1..Len(f)
    BY <1>1
  <2> QED
    BY <1>1, <2>1, ElementOfSeq DEF Bytes
<1>3. PICK part : part = SubSeq(f, 1, n)
  OBVIOUS
<1>4. /\ part \in Bytes /\ Len(part) = n
      /\ \A k \in 1..n : part[k] = f[k]
  <2>1. /\ part \in Seq(Byte)
        /\ Len(part) = IF 1 <= n THEN (n - 1) + 1 ELSE 0
        /\ \A k \in 1..((n - 1) + 1) : part[k] = f[(1 + k) - 1]
    BY <1>1, <1>2, <1>3, SubSeqProperties
  <2>2. (n - 1) + 1 = n /\ 1 <= n
    BY <1>1
  <2>3. ASSUME NEW k \in 1..n PROVE part[k] = f[k]
    <3>1. (1 + k) - 1 = k /\ k \in 1..((n - 1) + 1)
      BY <2>2
    <3> QED
      BY <2>1, <3>1
  <2> QED
    BY <2>1, <2>2, <2>3 DEF Bytes
<1>5. ~Whole(part)
  <2> SUFFICES ASSUME n >= 2 PROVE Total(part) = Len(f)
    BY <1>1, <1>4 DEF Whole
  <2>1. part[1] = f[1] /\ part[2] = f[2]
    BY <1>4
  <2> QED
    BY <1>1, <2>1 DEF Total
<1> QED
  BY <1>3, <1>4, <1>5, SplitNone

\* Bytes behind a stream of complete frames are split by themselves.
LEMMA SplitMore ==
  ASSUME NEW x \in Bytes, NEW y \in Bytes, split_frames(x).rest = <<>>
  PROVE  /\ split_frames(x \o y).frames = split_frames(x).frames \o split_frames(y).frames
         /\ split_frames(x \o y).rest = split_frames(y).rest
<1>1. <<>> \o y = y
  BY ConcatEmptySeq DEF Bytes
<1>2. SplitJoins(x, y)
  BY SplitAnywhere
<1> QED
  BY <1>1, <1>2 DEF SplitJoins

LEMMA StreamBytes ==
  ASSUME StreamTypeOK
  PROVE  /\ read_buf \o wire \in Bytes
         /\ split_frames(read_buf \o wire).frames \in Seq(Bytes)
         /\ split_frames(read_buf \o wire).rest \in Bytes
         /\ Pending \in Seq(Bytes)
<1>1. read_buf \o wire \in Bytes
  BY ConcatProperties DEF StreamTypeOK, Bytes
<1>2. /\ split_frames(read_buf \o wire).frames \in Seq(Bytes)
      /\ split_frames(read_buf \o wire).rest \in Bytes
  BY <1>1, SplitType DEF SplitTyped
<1>3. frames \in Seq(Bytes)
  BY DEF StreamTypeOK
<1> QED
  BY <1>1, <1>2, <1>3, ConcatProperties DEF Pending

\* The steps of the client and of the task, as steps of the queue.
LEMMA WriteStep ==
  ASSUME StreamInv, NEW f \in Frames, Write(f)
  PROVE  /\ wire' \in Bytes
         /\ Pending' = Append(Pending, f)
         /\ split_frames(read_buf' \o wire').rest = <<>>
<1>1. wire' = wire \o f /\ read_buf' = read_buf /\ frames' = frames /\ ~ended
  BY DEF Write
<1>2. wire \in Bytes /\ read_buf \in Bytes /\ f \in Bytes /\ frames \in Seq(Bytes)
  BY FrameIsBytes DEF StreamInv, StreamTypeOK
<1>3. PICK x : x = read_buf \o wire
  OBVIOUS
<1>4. /\ x \in Bytes /\ split_frames(x).frames \in Seq(Bytes) /\ split_frames(x).rest = <<>>
      /\ Pending \in Seq(Bytes) /\ Pending = frames \o split_frames(x).frames
  BY <1>1, <1>3, StreamBytes DEF StreamInv, Pending
<1>5. read_buf' \o wire' = x \o f
  BY <1>1, <1>2, <1>3, JoinBytes
<1>6. /\ split_frames(x \o f).frames = split_frames(x).frames \o <<f>>
      /\ split_frames(x \o f).rest = <<>>
  BY <1>2, <1>4, SplitMore, FrameSplit
<1>7. <<f>> \in Seq(Bytes)
  BY <1>2
<1>8. frames \o (split_frames(x).frames \o <<f>>) = Pending \o <<f>>
  <2>1. PICK p \in Seq(Bytes), q \in Seq(Bytes), r \in Seq(Bytes) :
          p = frames /\ q = split_frames(x).frames /\ r = <<f>>
    BY <1>2, <1>4, <1>7
  <2>2. (p \o q) \o r = p \o (q \o r)
    BY ConcatAssociative
  <2> QED
    BY <1>4, <2>1, <2>2
<1>9. Pending \o <<f>> = Append(Pending, f)
  BY <1>2, <1>4, AppendIsConcat
<1>10. wire' \in Bytes
  BY <1>1, <1>2, ConcatProperties DEF Bytes
<1>11. Pending' = frames' \o split_frames(read_buf' \o wire').frames
  BY DEF Pending
<1> QED
  BY <1>1, <1>5, <1>6, <1>8, <1>9, <1>10, <1>11

LEMMA EndStep ==
  ASSUME StreamInv, NEW f \in Frames, NEW n \in 1..(Len(f) - 1), EndWithin(f, n)
  PROVE  wire' \in Bytes /\ Pending' = Pending
<1>1. /\ wire' = wire \o SubSeq(f, 1, n) /\ read_buf' = read_buf /\ frames' = frames
      /\ ~ended
  BY DEF EndWithin
<1>2. PICK part : part = SubSeq(f, 1, n)
  OBVIOUS
<1>3. /\ wire \in Bytes /\ read_buf \in Bytes /\ part \in Bytes
      /\ split_frames(part).frames = <<>>
  BY <1>2, PartSplit DEF StreamInv, StreamTypeOK
<1>4. PICK x : x = read_buf \o wire
  OBVIOUS
<1>5. x \in Bytes /\ split_frames(x).frames \in Seq(Bytes) /\ split_frames(x).rest = <<>>
  BY <1>1, <1>4, StreamBytes DEF StreamInv
<1>6. read_buf' \o wire' = x \o part
  BY <1>1, <1>2, <1>3, <1>4, JoinBytes
<1>7. split_frames(x \o part).frames = split_frames(x).frames \o <<>>
  BY <1>3, <1>5, SplitMore
<1>8. split_frames(x).frames \o <<>> = split_frames(x).frames
  BY <1>5, ConcatEmptySeq
<1>9. wire' \in Bytes
  BY <1>1, <1>2, <1>3, ConcatProperties DEF Bytes
<1>10. /\ Pending' = frames' \o split_frames(read_buf' \o wire').frames
       /\ Pending = frames \o split_frames(x).frames
  BY <1>4 DEF Pending
<1> QED
  BY <1>1, <1>6, <1>7, <1>8, <1>9, <1>10

LEMMA CutBytes ==
  ASSUME NEW b \in Bytes, NEW n \in 0..Len(b)
  PROVE  /\ SubSeq(b, 1, n) \in Bytes
         /\ SubSeq(b, n + 1, Len(b)) \in Bytes
         /\ SubSeq(b, 1, n) \o SubSeq(b, n + 1, Len(b)) = b
<1>1. Len(b) \in Nat /\ \A k \in 1..Len(b) : b[k] \in Byte
  BY LenProperties, ElementOfSeq DEF Bytes
<1>2. SubSeq(b, 1, n) \in Bytes
  <2>1. \A k \in 1..n : b[k] \in Byte
    BY <1>1
  <2> QED
    BY <1>1, <2>1, SubSeqProperties DEF Bytes
<1>3. SubSeq(b, n + 1, Len(b)) \in Bytes
  BY AheadProperties DEF Ahead
<1>4. SubSeq(b, 1, n) \o SubSeq(b, n + 1, Len(b)) = SubSeq(b, 1, Len(b))
  <2>1. /\ 1 \in 1..(Len(b) + 1) /\ n \in (1 - 1)..Len(b) /\ Len(b) \in n..Len(b)
        /\ b \in Seq(Byte)
    BY <1>1 DEF Bytes
  <2> QED
    BY <2>1, ConcatAdjacentSubSeq
<1> QED
  BY <1>2, <1>3, <1>4, SubSeqFull DEF Bytes

LEMMA ReadStep ==
  ASSUME StreamInv, NEW n \in 1..Len(wire), Read(n)
  PROVE  /\ wire' \in Bytes /\ read_buf' \in Bytes /\ frames' \in Seq(Bytes)
         /\ ~Whole(read_buf')
         /\ Pending' = Pending
         /\ split_frames(read_buf' \o wire').rest = split_frames(read_buf \o wire).rest
<1>1. PICK u, v : u = SubSeq(wire, 1, n) /\ v = SubSeq(wire, n + 1, Len(wire))
  OBVIOUS
<1>2. wire \in Bytes /\ read_buf \in Bytes
  BY DEF StreamInv, StreamTypeOK
<1>3. u \in Bytes /\ v \in Bytes /\ u \o v = wire
  <2>1. n \in 0..Len(wire)
    BY <1>2, LenProperties DEF Bytes
  <2> QED
    BY <1>1, <1>2, <2>1, CutBytes
<1>4. PICK z : z = read_buf \o u
  OBVIOUS
<1>5. z \in Bytes /\ z \o v = read_buf \o wire
  <2>1. (read_buf \o u) \o v = read_buf \o (u \o v)
    BY <1>2, <1>3, JoinBytes
  <2>2. z \in Bytes
    BY <1>2, <1>3, <1>4, JoinBytes
  <2> QED
    BY <1>3, <1>4, <2>1, <2>2
<1>6. /\ read_buf' = split_frames(z).rest
      /\ frames' = split_frames(z).frames
      /\ wire' = v /\ frames = <<>>
  BY <1>1, <1>4 DEF Read, Reading
<1>7. /\ split_frames(z).frames \in Seq(Bytes) /\ split_frames(z).rest \in Bytes
      /\ ~Whole(split_frames(z).rest)
  BY <1>5, SplitType DEF SplitTyped
<1>8. /\ split_frames(z \o v).frames =
           split_frames(z).frames \o split_frames(split_frames(z).rest \o v).frames
      /\ split_frames(z \o v).rest = split_frames(split_frames(z).rest \o v).rest
  BY <1>3, <1>5, SplitAnywhere DEF SplitJoins
<1>9. Pending = <<>> \o split_frames(z \o v).frames
  BY <1>5, <1>6 DEF Pending
<1>10. <<>> \o split_frames(z \o v).frames = split_frames(z \o v).frames
  <2>1. split_frames(z \o v).frames \in Seq(Bytes)
    BY <1>5, StreamBytes DEF StreamInv
  <2> QED
    BY <2>1, ConcatEmptySeq
<1>11. Pending' = frames' \o split_frames(read_buf' \o wire').frames
  BY DEF Pending
<1> QED
  BY <1>3, <1>5, <1>6, <1>7, <1>8, <1>9, <1>10, <1>11

LEMMA HandleStep ==
  ASSUME StreamInv, NEW ok \in BOOLEAN, NEW translates \in BOOLEAN,
         HandleFrame(ok, translates)
  PROVE  /\ frames' \in Seq(Bytes) /\ queued' \in Seq(Bytes)
         /\ Pending # <<>> /\ Pending' = Tail(Pending)
         /\ Head(frames) = Head(Pending) /\ Head(Pending) \in Frames
<1>1. /\ frames # <<>> /\ frames' = Tail(frames)
      /\ read_buf' = read_buf /\ wire' = wire
      /\ queued' = IF ok /\ decode_frame(Head(frames), MaxPayload).ok /\ translates
                   THEN Append(queued, Head(frames)) ELSE queued
  BY DEF HandleFrame
<1>2. frames \in Seq(Bytes) /\ queued \in Seq(Bytes)
  BY DEF StreamInv, StreamTypeOK
<1>3. PICK q : q = split_frames(read_buf \o wire).frames
  OBVIOUS
<1>4. q \in Seq(Bytes) /\ Pending = frames \o q /\ Pending \in Seq(Bytes)
  BY <1>3, StreamBytes DEF StreamInv, Pending
<1>5. /\ Head(frames) \in Bytes /\ Tail(frames) \in Seq(Bytes)
      /\ Len(frames) \in Nat \ {0} /\ Len(q) \in Nat
  BY <1>1, <1>2, <1>4, HeadTailProperties, EmptySeq, LenProperties
<1>6. frames = <<Head(frames)>> \o Tail(frames)
  BY <1>1, <1>2, <1>5
<1>7. PICK h \in Bytes, t \in Seq(Bytes) : h = Head(frames) /\ t = Tail(frames)
  BY <1>5
<1>8. Pending = <<h>> \o (t \o q)
  <2>1. <<h>> \in Seq(Bytes)
    BY <1>7
  <2>2. (<<h>> \o t) \o q = <<h>> \o (t \o q)
    BY <1>4, <2>1, ConcatAssociative
  <2> QED
    BY <1>4, <1>6, <1>7, <2>2
<1>9. t \o q \in Seq(Bytes)
  BY <1>4, ConcatProperties
<1>10. PICK w \in Seq(Bytes) : w = t \o q
  BY <1>9
<1>11. Pending # <<>> /\ Head(Pending) = h /\ Tail(Pending) = w
  <2>1. Pending = <<h>> \o w
    BY <1>8, <1>10
  <2> QED
    BY <2>1
<1>12. Pending' = frames' \o split_frames(read_buf' \o wire').frames
  BY DEF Pending
<1>13. Head(Pending) \in Frames
  <2>1. Len(Pending) \in Nat \ {0} /\ Head(Pending) = Pending[1]
    BY <1>4, <1>11, EmptySeq
  <2> QED
    BY <2>1 DEF StreamInv
<1>14. queued' \in Seq(Bytes)
  BY <1>1, <1>2, <1>5, AppendProperties
<1> QED
  BY <1>1, <1>3, <1>5, <1>7, <1>10, <1>11, <1>12, <1>13, <1>14

LEMMA StreamInit == Init => StreamInv
<1> SUFFICES ASSUME Init PROVE StreamInv
  OBVIOUS
<1>1. StreamTypeOK
  <2>1. MaxFrames \in Nat /\ <<>> \in Bytes /\ <<>> \in Seq(Bytes)
    BY EmptyBytes, SocketConstants
  <2>2. 0 \in 0..MaxFrames /\ TRUE \in BOOLEAN /\ FALSE \in BOOLEAN
    BY <2>1
  <2> QED
    BY <2>1, <2>2, Zenon DEF Init, StreamTypeOK
<1>2. <<>> \o <<>> = <<>>
  BY EmptyBytes, ConcatEmptySeq DEF Bytes
<1>3. Pending = <<>> /\ split_frames(read_buf \o wire).rest = <<>>
  BY <1>2, EmptyBytes DEF Init, Pending
<1>4. ~Whole(read_buf)
  BY DEF Init, Whole
<1>5. \A i \in 1..Len(Pending) : Pending[i] \in Frames
  BY <1>3
<1> QED
  BY <1>1, <1>3, <1>4, <1>5 DEF StreamInv

\* The buffers of a task that has given up.
LEMMA CloseStep ==
  ASSUME Close
  PROVE  /\ Pending' = <<>>
         /\ split_frames(read_buf' \o wire').rest = <<>>
         /\ ~Whole(read_buf')
<1>1. <<>> \o <<>> = <<>>
  BY EmptyBytes, ConcatEmptySeq DEF Bytes
<1>2. wire' = <<>> /\ read_buf' = <<>> /\ frames' = <<>>
  BY DEF Close
<1>3. Pending' = frames' \o split_frames(read_buf' \o wire').frames
  BY DEF Pending
<1> QED
  BY <1>1, <1>2, <1>3, EmptyBytes DEF Whole

LEMMA StreamStep == StreamInv /\ [Next]_vars => StreamInv'
<1> SUFFICES ASSUME StreamInv, [Next]_vars PROVE StreamInv'
  OBVIOUS
<1>1. StreamTypeOK /\ ~Whole(read_buf) /\ Pending \in Seq(Bytes)
  BY StreamBytes DEF StreamInv
<1>2. CASE UNCHANGED stream
  BY <1>2 DEF StreamInv, StreamTypeOK, Pending, stream
<1>3. ASSUME NEW f \in Frames, Write(f) PROVE StreamInv'
  <2>1. /\ wire' \in Bytes /\ Pending' = Append(Pending, f)
        /\ split_frames(read_buf' \o wire').rest = <<>>
    BY <1>3, WriteStep
  <2>2. StreamTypeOK' /\ ~Whole(read_buf')
    BY <1>1, <1>3, <2>1, SocketConstants DEF Write, StreamTypeOK
  <2>3. ASSUME NEW i \in 1..Len(Pending') PROVE Pending'[i] \in Frames
    <3>1. /\ Len(Append(Pending, f)) = Len(Pending) + 1
          /\ \A k \in 1..Len(Pending) : Append(Pending, f)[k] = Pending[k]
          /\ Append(Pending, f)[Len(Pending) + 1] = f
      BY <1>1, FrameIsBytes, AppendProperties
    <3>2. Len(Pending) \in Nat
      BY <1>1, LenProperties
    <3> QED
      BY <2>1, <3>1, <3>2 DEF StreamInv
  <2> QED
    BY <2>1, <2>2, <2>3 DEF StreamInv
<1>4. ASSUME NEW f \in Frames, NEW n \in 1..(Len(f) - 1), EndWithin(f, n) PROVE StreamInv'
  <2>1. wire' \in Bytes /\ Pending' = Pending /\ ended'
    BY <1>4, EndStep DEF EndWithin
  <2>2. StreamTypeOK' /\ ~Whole(read_buf')
    BY <1>1, <1>4, <2>1, SocketConstants DEF EndWithin, StreamTypeOK
  <2> QED
    BY <2>1, <2>2 DEF StreamInv
<1>5. CASE EndStream
  BY <1>5 DEF EndStream, StreamInv, StreamTypeOK, Pending
<1>6. ASSUME NEW n \in 1..Len(wire), Read(n) PROVE StreamInv'
  <2>1. /\ wire' \in Bytes /\ read_buf' \in Bytes /\ frames' \in Seq(Bytes)
        /\ ~Whole(read_buf') /\ Pending' = Pending
        /\ split_frames(read_buf' \o wire').rest = split_frames(read_buf \o wire).rest
    BY <1>6, ReadStep
  <2>2. StreamTypeOK' /\ ended' = ended
    BY <1>1, <1>6, <2>1 DEF Read, StreamTypeOK
  <2> QED
    BY <2>1, <2>2 DEF StreamInv
<1>7. ASSUME NEW ok \in BOOLEAN, NEW translates \in BOOLEAN, HandleFrame(ok, translates)
      PROVE  StreamInv'
  <2>1. /\ frames' \in Seq(Bytes) /\ queued' \in Seq(Bytes)
        /\ Pending # <<>> /\ Pending' = Tail(Pending)
    BY <1>7, HandleStep
  <2>2. UNCHANGED <<wire, ended, read_buf, open, cut, written>>
    BY <1>7 DEF HandleFrame
  <2>3. StreamTypeOK' /\ ~Whole(read_buf')
    BY <1>1, <2>1, <2>2 DEF StreamTypeOK
  <2>4. ASSUME NEW i \in 1..Len(Pending') PROVE Pending'[i] \in Frames
    <3>1. /\ Len(Tail(Pending)) = Len(Pending) - 1
          /\ \A k \in 1..Len(Tail(Pending)) : Tail(Pending)[k] = Pending[k + 1]
      BY <1>1, <2>1, HeadTailProperties
    <3>2. Len(Pending) \in Nat
      BY <1>1, LenProperties
    <3>3. i + 1 \in 1..Len(Pending)
      BY <2>1, <3>1, <3>2
    <3> QED
      BY <2>1, <3>1, <3>3 DEF StreamInv
  <2>5. ~ended' => split_frames(read_buf' \o wire').rest = <<>>
    BY <2>2 DEF StreamInv
  <2> QED
    BY <2>3, <2>4, <2>5 DEF StreamInv
<1>8. ASSUME Close, cut' \in BOOLEAN PROVE StreamInv'
  <2>1. /\ Pending' = <<>> /\ split_frames(read_buf' \o wire').rest = <<>>
        /\ ~Whole(read_buf')
    BY <1>8, CloseStep
  <2>2. StreamTypeOK'
    BY <1>1, <1>8, EmptyBytes DEF Close, StreamTypeOK
  <2> QED
    BY <2>1, <2>2 DEF StreamInv
<1>9. CASE EndOfFile \/ Lost
  BY <1>1, <1>8, <1>9 DEF EndOfFile, Lost, StreamTypeOK
<1>10. CASE Client
  BY <1>3, <1>4, <1>5, <1>10 DEF Client
<1>11. CASE ReadSome
  BY <1>6, <1>11 DEF ReadSome
<1>12. CASE HandleSome
  BY <1>7, <1>12 DEF HandleSome
<1>13. CASE OtherSocket \/ Tick \/ UNCHANGED vars
  BY <1>2, <1>13 DEF OtherSocket, Tick, vars
<1> QED
  BY <1>9, <1>10, <1>11, <1>12, <1>13 DEF Next

\* What has not been handled is, at any time and however it was cut, a sequence of
\* frames as the client wrote them.
THEOREM StreamInvariant == Spec => []StreamInv
<1> QED
  BY StreamInit, StreamStep, PTL DEF Spec

\* The stream, the splitter and the limiters of a socket keep their types.
THEOREM SocketTypes == Spec => []TypeOK
<1>1. LimiterInv /\ StreamInv => TypeOK
  BY DEF LimiterInv, LimiterTypeOK, StreamInv, StreamTypeOK, Bytes, TypeOK
<1> QED
  BY <1>1, LimiterInvariant, StreamInvariant, PTL

\* For all frames and every way TCP may cut them, the read loop (handle_session)
\* with split_frames handles each frame whole, once and in order, and loses none
\* when it reads the end of the stream.
THEOREM ImplementsFrameChannel == Spec => ImplementsChannel
<1>1. Init => Channel!Init
  <2> SUFFICES ASSUME Init PROVE Channel!Init
    OBVIOUS
  <2>1. <<>> \o <<>> = <<>>
    BY EmptyBytes, ConcatEmptySeq DEF Bytes
  <2> QED
    BY <2>1, EmptyBytes DEF Init, Channel!Init
<1>2. StreamInv /\ [Next]_vars => [Channel!Next]_(Channel!vars)
  <2> SUFFICES ASSUME StreamInv, [Next]_vars PROVE [Channel!Next]_(Channel!vars)
    OBVIOUS
  <2>1. ASSUME UNCHANGED <<Pending, queued, open, cut>> PROVE UNCHANGED Channel!vars
    BY <2>1 DEF Channel!vars, Pending
  <2>2. ASSUME NEW f \in Frames, Write(f) PROVE Channel!Write(f)
    <3>1. Pending' = Append(Pending, f)
      BY <2>2, WriteStep
    <3> QED
      BY <2>2, <3>1 DEF Write, Channel!Write, Pending
  <2>3. ASSUME NEW f \in Frames, NEW n \in 1..(Len(f) - 1), EndWithin(f, n)
        PROVE  UNCHANGED Channel!vars
    <3>1. Pending' = Pending
      BY <2>3, EndStep
    <3> QED
      BY <2>1, <2>3, <3>1 DEF EndWithin
  <2>4. CASE EndStream
    BY <2>1, <2>4 DEF EndStream, Pending
  <2>5. ASSUME NEW n \in 1..Len(wire), Read(n) PROVE UNCHANGED Channel!vars
    <3>1. Pending' = Pending
      BY <2>5, ReadStep
    <3> QED
      BY <2>1, <2>5, <3>1 DEF Read
  <2>6. ASSUME NEW ok \in BOOLEAN, NEW translates \in BOOLEAN, HandleFrame(ok, translates)
        PROVE  Channel!Handle
    <3>1. /\ Pending # <<>> /\ Pending' = Tail(Pending)
          /\ Head(frames) = Head(Pending) /\ Head(Pending) \in Frames
      BY <2>6, HandleStep
    <3>2. /\ open /\ open' = open /\ cut' = cut
          /\ queued' = IF ok /\ decode_frame(Head(Pending), MaxPayload).ok /\ translates
                       THEN Append(queued, Head(Pending)) ELSE queued
      BY <2>6, <3>1 DEF HandleFrame
    <3>3. \/ /\ Head(Pending) \in {f \in Frames : decode_frame(f, MaxPayload).ok}
             /\ queued' = Append(queued, Head(Pending))
          \/ queued' = queued
      BY <3>1, <3>2
    <3> QED
      BY <3>1, <3>2, <3>3 DEF Channel!Handle, Pending
  <2>7. CASE EndOfFile
    <3>1. Close /\ frames = <<>> /\ wire = <<>> /\ open /\ cut' = cut
      BY <2>7 DEF EndOfFile, Reading
    <3>2. Pending' = <<>>
      BY <3>1, CloseStep
    <3>3. Pending = <<>>
      <4>1. read_buf \in Bytes /\ ~Whole(read_buf)
        BY DEF StreamInv, StreamTypeOK
      <4>2. read_buf \o <<>> = read_buf
        BY <4>1, ConcatEmptySeq DEF Bytes
      <4>3. <<>> \o <<>> = <<>>
        BY EmptyBytes, ConcatEmptySeq DEF Bytes
      <4> QED
        BY <3>1, <4>1, <4>2, <4>3, SplitNone DEF Pending
    <3> QED
      BY <3>1, <3>2, <3>3 DEF Close, Channel!Close, Channel!Next, Pending
  <2>8. CASE Lost
    <3>1. Pending' = <<>>
      BY <2>8, CloseStep DEF Lost
    <3> QED
      BY <2>8, <3>1 DEF Lost, Close, Reading, Channel!Abort, Channel!Next, Pending
  <2>9. CASE OtherSocket \/ Tick \/ UNCHANGED vars
    BY <2>1, <2>9 DEF OtherSocket, Tick, stream, vars, Pending
  <2>10. CASE Client
    BY <2>2, <2>3, <2>4, <2>10 DEF Client, Channel!Next
  <2>11. CASE ReadSome
    BY <2>5, <2>11 DEF ReadSome
  <2>12. CASE HandleSome
    BY <2>6, <2>12 DEF HandleSome, Channel!Next
  <2> QED
    BY <2>7, <2>8, <2>9, <2>10, <2>11, <2>12 DEF Next
<1> QED
  BY <1>1, <1>2, StreamInvariant, PTL DEF Spec, ImplementsChannel, Channel!Spec

\* On every connection, whatever opcodes, payloads and limits are in use, what
\* encode_wire_frame makes of a payload decodes to that payload or is refused.
THEOREM CodecOfEveryConnection == Spec => []CodecRoundTrip
<1>1. CodecRoundTrip
  BY CodecIsFaithful DEF CodecRoundTrip
<1> QED
  BY <1>1, PTL

=============================================================================
