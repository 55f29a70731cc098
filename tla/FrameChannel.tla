------------------------------ MODULE FrameChannel ------------------------------
(***************************************************************************)
(* What a client may rely on about the frames it writes to a game socket:  *)
(* each is handled once, whole, and in the order written, however TCP cuts *)
(* the stream into reads, and only a connection that is cut off loses any. *)
(* A frame is either passed on or dropped.                                 *)
(*                                                                         *)
(* GatewaySocket implements this specification.                            *)
(***************************************************************************)
EXTENDS Sequences

CONSTANTS
  Frames,      \* what a client may write
  Decodable    \* the frames the decoder accepts

VARIABLES
  queue,    \* frames written and not handled
  passed,   \* frames passed on
  open,
  cut       \* the connection was cut off

vars == <<queue, passed, open, cut>>

Init == queue = <<>> /\ passed = <<>> /\ open = TRUE /\ cut = FALSE

Write(f) ==
  /\ open
  /\ queue' = Append(queue, f)
  /\ UNCHANGED <<passed, open, cut>>

Handle ==
  /\ open
  /\ queue # <<>>
  /\ queue' = Tail(queue)
  /\ \/ Head(queue) \in Decodable /\ passed' = Append(passed, Head(queue))
     \/ UNCHANGED passed
  /\ UNCHANGED <<open, cut>>

\* A client that ends its stream has all its frames handled first ...
Close ==
  /\ open
  /\ queue = <<>>
  /\ open' = FALSE
  /\ UNCHANGED <<queue, passed, cut>>

\* ... one that is cut off, or is silent for too long, may lose the last ones.
Abort ==
  /\ open
  /\ open' = FALSE
  /\ cut' = TRUE
  /\ queue' = <<>>
  /\ UNCHANGED passed

Next == (\E f \in Frames : Write(f)) \/ Handle \/ Close \/ Abort

Spec == Init /\ [][Next]_vars

Fairness == WF_vars(Handle)

=============================================================================
