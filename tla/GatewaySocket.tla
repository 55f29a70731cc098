----------------------------- MODULE GatewaySocket -----------------------------
(***************************************************************************)
(* The read loop of one game socket: handle_session of the gateway         *)
(* (apps/gateway/src/main.rs) with the frame splitter, the decoder and the *)
(* token bucket of crates/net, and the limiter in Redis that all sockets   *)
(* of an address share.                                                    *)
(*                                                                         *)
(* A read takes whatever part of the stream has arrived.  The complete     *)
(* frames of the buffer are then handled one after the other: counted by   *)
(* Redis, or by the bucket of the socket when Redis fails or is not        *)
(* configured; decoded; translated and put into the internal channel.      *)
(*                                                                         *)
(* Time advances in ticks.  The bucket is kept in parts of a token, of     *)
(* which a frame costs Cost and each tick yields Rate; the code computes   *)
(* with floating point.                                                    *)
(***************************************************************************)
EXTENDS Framing

CONSTANTS
  MaxPayload,     \* packet_max_payload
  Frames,         \* what a client may write
  MaxFrames,      \* bound of the model: frames written
  MaxTime,        \* bound of the model: ticks
  TicksPerSecond,
  Cost, Rate,     \* parts of a token: taken by a frame, gained in a tick
  Capacity,       \* of the bucket (rate_limit_burst tokens)
  distributed_limit,  \* frames of an address per second (rate + burst)
  MaxOthers       \* bound of the model: frames of other sockets per second

ASSUME SocketConstants ==
  /\ MaxPayload \in Nat
  /\ Frames \subseteq {f \in Seq(Byte) : Whole(f) /\ Total(f) = Len(f)}
  /\ MaxFrames \in Nat /\ MaxTime \in Nat /\ MaxOthers \in Nat
  /\ TicksPerSecond \in Nat \ {0}
  /\ Cost \in Nat \ {0} /\ Rate \in Nat /\ Capacity \in Nat
  /\ distributed_limit \in Nat \ {0}

VARIABLES
  wire,         \* bytes written by the client and not read
  ended,        \* the client has ended its stream
  read_buf,
  frames,       \* frames of the last read that wait for their turn
  open,         \* the task still serves the socket
  cut,          \* history: the task gave up before the stream ended
  written,      \* number of frames written
  queued,       \* history: frames whose command was put into the channel
  now,
  available,    \* the token bucket
  last_refill,
  taken,        \* history: what the bucket gave away at or after each tick
  counter,      \* per second, the counter in Redis of the address
  admitted      \* history: per second, frames admitted by the counter

stream == <<wire, ended, read_buf, frames, open, cut, written, queued>>
bucket == <<available, last_refill, taken>>
redis  == <<counter, admitted>>
vars   == <<stream, now, bucket, redis>>

Times == 0..MaxTime

unix_second == now \div TicksPerSecond

Seconds == 0..(MaxTime \div TicksPerSecond)

Least(a, b) == IF a <= b THEN a ELSE b

-----------------------------------------------------------------------------
\* The client and the network.

Write(f) ==
  /\ open /\ ~ended
  /\ written < MaxFrames
  /\ written' = written + 1
  /\ wire' = wire \o f
  /\ UNCHANGED <<ended, read_buf, frames, open, cut, queued, now, bucket, redis>>

EndStream ==
  /\ open /\ ~ended
  /\ ended' = TRUE
  /\ UNCHANGED <<wire, read_buf, frames, open, cut, written, queued, now, bucket, redis>>

\* The client ends its stream within a frame.
EndWithin(f, n) ==
  /\ open /\ ~ended
  /\ written < MaxFrames
  /\ written' = written + 1
  /\ ended' = TRUE
  /\ wire' = wire \o SubSeq(f, 1, n)
  /\ UNCHANGED <<read_buf, frames, open, cut, queued, now, bucket, redis>>

\* Frames of other sockets of the address.
OtherSocket ==
  /\ counter[unix_second] < distributed_limit + MaxOthers
  /\ counter' = [counter EXCEPT ![unix_second] = @ + 1]
  /\ admitted' = [admitted EXCEPT ![unix_second] =
                    IF counter'[unix_second] <= distributed_limit THEN @ + 1 ELSE @]
  /\ UNCHANGED <<stream, now, bucket>>

Tick ==
  /\ now < MaxTime
  /\ now' = now + 1
  /\ UNCHANGED <<stream, bucket, redis>>

-----------------------------------------------------------------------------
\* The task of the socket.  It reads only when it has handled all frames.
Reading == open /\ frames = <<>>

\* Mutant of Read: the bytes of an incomplete frame are not kept for the next read.
read_forgetting(n) ==
  /\ Reading
  /\ LET split == split_frames(SubSeq(wire, 1, n))
     IN /\ read_buf' = split.rest
        /\ frames' = split.frames
  /\ wire' = SubSeq(wire, n + 1, Len(wire))
  /\ UNCHANGED <<ended, open, cut, written, queued, now, bucket, redis>>

\* read_buf: the first n bytes that have not been read.
Read(n) ==
  /\ Reading
  /\ LET split == split_frames(read_buf \o SubSeq(wire, 1, n))
     IN /\ read_buf' = split.rest
        /\ frames' = split.frames
  /\ wire' = SubSeq(wire, n + 1, Len(wire))
  /\ UNCHANGED <<ended, open, cut, written, queued, now, bucket, redis>>

Close ==
  /\ open' = FALSE
  /\ wire' = <<>>
  /\ read_buf' = <<>>
  /\ frames' = <<>>
  /\ UNCHANGED <<ended, written, queued, now, bucket, redis>>

\* A read of no bytes: the stream has ended and all of it was read.
EndOfFile == Reading /\ ended /\ wire = <<>> /\ Close /\ UNCHANGED cut

\* The idle timeout passes or the connection breaks, whatever is on its way.
Lost == Reading /\ Close /\ cut' = TRUE

-----------------------------------------------------------------------------

\* Mutant of refill: the bucket fills beyond its capacity.
refill_unbounded == available + Rate * (now - last_refill)

\* The bucket after refill, never above its capacity.
refill == Least(available + Rate * (now - last_refill), Capacity)

\* What the bucket has given away after it let a frame through, or not.
Taken(ok) ==
  [t \in Times |-> IF ok /\ t <= now THEN taken[t] + Cost ELSE taken[t]]

\* Mutant of try_acquire: the time of the refill is not kept when no token is
\* left, so that the same time is credited twice.
try_acquire_twice(ok) ==
  /\ ok <=> refill >= Cost
  /\ available' = IF ok THEN refill - Cost ELSE refill
  /\ last_refill' = IF ok THEN now ELSE last_refill
  /\ taken' = Taken(ok)

\* TokenBucketRateLimiter::try_acquire.
try_acquire(ok) ==
  /\ ok <=> refill >= Cost
  /\ available' = IF ok THEN refill - Cost ELSE refill
  /\ last_refill' = now
  /\ taken' = Taken(ok)

Counted == counter' = [counter EXCEPT ![unix_second] = @ + 1]

\* Mutant of try_acquire_distributed_rate_limit: the count is compared before it
\* is incremented.
try_acquire_distributed_early(ok) ==
  /\ Counted
  /\ ok <=> counter[unix_second] <= distributed_limit
  /\ admitted' = [admitted EXCEPT ![unix_second] = IF ok THEN @ + 1 ELSE @]
  /\ UNCHANGED bucket

\* INCR in Redis, which answers with the count of the address in this second.
try_acquire_distributed_rate_limit(ok) ==
  /\ Counted
  /\ ok <=> counter'[unix_second] <= distributed_limit
  /\ admitted' = [admitted EXCEPT ![unix_second] = IF ok THEN @ + 1 ELSE @]
  /\ UNCHANGED bucket

\* Redis is not configured or fails, perhaps after it has counted the frame.
Fallback(ok) ==
  /\ try_acquire(ok)
  /\ Counted \/ UNCHANGED counter
  /\ UNCHANGED admitted

\* The frame at the head.  One that is let through and decodes may still be
\* refused by the translation, which depends on the phase of the session.
HandleFrame(ok, translates) ==
  /\ open
  /\ frames # <<>>
  /\ try_acquire_distributed_rate_limit(ok) \/ Fallback(ok)
  /\ frames' = Tail(frames)
  /\ queued' = IF ok /\ decode_frame(Head(frames), MaxPayload).ok /\ translates
               THEN Append(queued, Head(frames)) ELSE queued
  /\ UNCHANGED <<wire, ended, read_buf, open, cut, written, now>>

-----------------------------------------------------------------------------
Init ==
  /\ wire = <<>>
  /\ ended = FALSE
  /\ read_buf = <<>>
  /\ frames = <<>>
  /\ open = TRUE
  /\ cut = FALSE
  /\ written = 0
  /\ queued = <<>>
  /\ now = 0
  /\ available = Capacity
  /\ last_refill = 0
  /\ taken = [t \in Times |-> 0]
  /\ counter = [s \in Seconds |-> 0]
  /\ admitted = [s \in Seconds |-> 0]

Client ==
  \/ \E f \in Frames : Write(f) \/ \E n \in 1..(Len(f) - 1) : EndWithin(f, n)
  \/ EndStream

ReadSome == \E n \in 1..Len(wire) : Read(n)

HandleSome == \E ok, translates \in BOOLEAN : HandleFrame(ok, translates)

Next ==
  \/ Client \/ OtherSocket \/ Tick
  \/ ReadSome \/ HandleSome \/ EndOfFile \/ Lost

\* The network delivers, and the runtime schedules the task.
Fairness == WF_vars(ReadSome) /\ WF_vars(HandleSome)

Spec == Init /\ [][Next]_vars /\ Fairness

-----------------------------------------------------------------------------
\* Properties.

TypeOK ==
  /\ wire \in Seq(Byte)
  /\ ended \in BOOLEAN
  /\ read_buf \in Seq(Byte)
  /\ frames \in Seq(Seq(Byte))
  /\ open \in BOOLEAN
  /\ cut \in BOOLEAN
  /\ written \in 0..MaxFrames
  /\ queued \in Seq(Seq(Byte))
  /\ now \in Times
  /\ available \in 0..Capacity
  /\ last_refill \in 0..now
  /\ taken \in [Times -> Nat]
  /\ counter \in [Seconds -> Nat]
  /\ admitted \in [Seconds -> Nat]

\* Between any two moments the bucket gives away at most its capacity and what
\* the time between them yields, however frames, refusals and the outages of
\* Redis that bring the bucket into play alternate.
LocalBound ==
  \A t \in Times : t <= now => taken[t] <= Capacity + Rate * (now - t)

\* All sockets of an address together pass at most the limit through Redis in a
\* second, also when replies are lost after Redis has counted.
SharedBound ==
  \A s \in Seconds : admitted[s] <= distributed_limit

\* What waits in frames, buffer and network is the queue of the channel.
Channel == INSTANCE FrameChannel WITH
  queue     <- frames \o split_frames(read_buf \o wire).frames,
  passed    <- queued,
  Decodable <- {f \in Frames : decode_frame(f, MaxPayload).ok}

\* The stream of bytes, cut anywhere by TCP, carries the frames as written: every
\* frame is handled once and in order, and a task that reads the end of the stream
\* has handled them all.
ImplementsChannel == Channel!Spec

\* A task that still serves its socket gets to every frame written to it.
FramesAreHandled == Channel!Fairness

=============================================================================
