----------------------------- MODULE AdminApiProofs ------------------------------
(***************************************************************************)
(* The registry agrees with the runtimes wherever nothing went wrong, for  *)
(* any number of maps, requests, administrators and late calls.            *)
(*                                                                         *)
(* RegistryAgrees is not inductive: it says nothing of a map while a       *)
(* request switches it.  The invariant below follows the call such a       *)
(* request waits for (CallOK), for a map without disturbance (MapOK) and   *)
(* for a request that has a disturbed map to itself (AloneOK) and so will  *)
(* settle it.                                                              *)
(***************************************************************************)
EXTENDS AdminApi, TLAPS

\* The call a request waits for.
Awaited(k) ==
  LET q == requests[k.request] IN
    /\ k.request \in Requests
    /\ q # Idle
    /\ q.map = k.map
    /\ q.op \in MapOps
    /\ q.pc \in {"wait", "undo"}
    /\ q.op = "activate" => k.act = "activate" /\ q.pc = "wait"
    /\ q.op = "deactivate" /\ q.pc = "wait" => k.act = "deactivate"
    /\ q.op = "restart" => q.pc = "wait"
    /\ q.op = "restart" /\ k.to = "registry" => k.act = "activate"
    /\ q.pc = "undo" => k.to = "world" /\ k.act = "activate" /\ k.map \notin Catalog

CallsOK ==
  /\ \A k \in calls : k.request # NoRequest => Awaited(k)
  /\ \A k, l \in calls : k.request = l.request /\ k.request # NoRequest => k = l
  /\ \A k \in calls : k.to = "world" => world_up
  /\ \A k \in calls : k.to = "registry" /\ k.act = "activate" /\ k.request # NoRequest =>
       k.map \in Catalog

RequestsOK ==
  \A r \in Requests : Busy(r) =>
    IF requests[r].pc \in {"wait", "undo"} THEN requests[r].map \in Maps
    ELSE requests[r].map = NoMap

Agree(m) == m \in registry <=> m \in running

\* The registry is only told of what the world-service did.
Told(k) == k.map \in running <=> k.act = "activate"

\* A request that started to switch its map from an undisturbed state.
CallOK(k) ==
  LET q == requests[k.request] IN
    IF k.to = "registry" THEN Told(k)
    ELSE IF q.pc = "undo" \/ (q.op = "restart" /\ k.act = "activate")
    THEN k.map \notin running
    ELSE Agree(k.map)

MapOK(m) ==
  /\ Late(m) = {}
  /\ \A r, o \in Requests : Switches(r, m) /\ Switches(o, m) => r = o
  /\ world_up =>
       /\ (\A r \in Requests : ~Switches(r, m)) => Agree(m)
       /\ \A k \in calls : k.map = m => CallOK(k)

MapsOK == \A m \in Maps \ disturbed : MapOK(m)

AloneOK ==
  \A r \in Requests : Busy(r) /\ requests[r].alone =>
    /\ requests[r].map \in Maps
    /\ \A o \in Requests \ {r} : ~Switches(o, requests[r].map)
    /\ \A k \in calls : k.request = r /\ k.to = "registry" => world_up /\ Told(k)

AdminInv == TypeOK /\ RequestsOK /\ CallsOK /\ MapsOK /\ AloneOK

-----------------------------------------------------------------------------
\* How requests change.

\* Request x goes on waiting for the same, perhaps no longer alone.
SameRequest(x) ==
  /\ Busy(x) /\ Busy(x)'
  /\ requests'[x].op = requests[x].op
  /\ requests'[x].pc = requests[x].pc
  /\ requests'[x].map = requests[x].map
  /\ requests'[x].alone => requests[x].alone

\* Request x has nothing to switch.
Quiet(x) ==
  Busy(x) => /\ requests[x].pc \notin {"wait", "undo"}
             /\ requests[x].map = NoMap
             /\ ~requests[x].alone

Milder(x) == SameRequest(x) \/ (Quiet(x) /\ Quiet(x)')

\* Idle is not a request.
LEMMA IdleIsNone ==
  ASSUME NEW q \in Request
  PROVE  q # Idle
BY DEF Request, Idle

\* A request that neither waits nor undoes is quiet.
LEMMA QuietRequest ==
  ASSUME RequestsOK, AloneOK, NEW x \in Requests,
         Busy(x) => requests[x].pc \notin {"wait", "undo"}
  PROVE  Quiet(x)
BY AdminConstants DEF RequestsOK, AloneOK, Quiet

LEMMA TouchedTypes ==
  ASSUME NEW rs \in [Requests -> Request \cup {Idle}], NEW M
  PROVE  /\ Touched(rs, M) \in [Requests -> Request \cup {Idle}]
         /\ \A x \in Requests :
              /\ rs[x] = Idle => Touched(rs, M)[x] = Idle
              /\ rs[x] # Idle =>
                   /\ Touched(rs, M)[x] \in Request
                   /\ Touched(rs, M)[x].op = rs[x].op
                   /\ Touched(rs, M)[x].pc = rs[x].pc
                   /\ Touched(rs, M)[x].map = rs[x].map
                   /\ Touched(rs, M)[x].alone => rs[x].alone /\ rs[x].map \notin M
<1>1. ASSUME NEW x \in Requests
      PROVE  /\ rs[x] = Idle => Touched(rs, M)[x] = Idle
             /\ rs[x] # Idle =>
                  /\ Touched(rs, M)[x] \in Request
                  /\ Touched(rs, M)[x].op = rs[x].op
                  /\ Touched(rs, M)[x].pc = rs[x].pc
                  /\ Touched(rs, M)[x].map = rs[x].map
                  /\ Touched(rs, M)[x].alone => rs[x].alone /\ rs[x].map \notin M
  <2>1. CASE rs[x] = Idle
    BY <2>1 DEF Touched
  <2>2. CASE rs[x] # Idle /\ rs[x].map \in M
    <3>1. Touched(rs, M)[x] = [rs[x] EXCEPT !.alone = FALSE]
      BY <2>2 DEF Touched
    <3>2. rs[x] \in Request
      BY <2>2
    <3> QED
      BY <2>2, <3>1, <3>2 DEF Request
  <2>3. CASE rs[x] # Idle /\ rs[x].map \notin M
    BY <2>3 DEF Touched
  <2> QED
    BY <2>1, <2>2, <2>3
<1>2. Touched(rs, M) = [x \in Requests |-> Touched(rs, M)[x]]
  BY DEF Touched
<1>3. \A x \in Requests : Touched(rs, M)[x] \in Request \cup {Idle}
  BY <1>1
<1> HIDE DEF Touched
<1>4. Touched(rs, M) \in [Requests -> Request \cup {Idle}]
  BY <1>2, <1>3
<1> QED
  BY <1>1, <1>4

LEMMA ToAuditTypes ==
  ASSUME TypeOK, NEW r \in Requests, Busy(r)
  PROVE  /\ ToAudit(r) \in [Requests -> Request \cup {Idle}]
         /\ \A x \in Requests \ {r} : ToAudit(r)[x] = requests[x]
         /\ ToAudit(r)[r] \in Request
         /\ ToAudit(r)[r].pc = "audit"
         /\ ToAudit(r)[r].map = NoMap
         /\ ~ToAudit(r)[r].alone
<1>1. requests[r] \in Request
  BY DEF TypeOK, Busy
<1> DEFINE q == [requests[r] EXCEPT !.pc = "audit", !.map = NoMap, !.alone = FALSE]
<1>2. ToAudit(r) = [requests EXCEPT ![r] = q]
  BY DEF ToAudit, TypeOK
<1>3. q \in Request /\ q.pc = "audit" /\ q.map = NoMap /\ ~q.alone
  BY <1>1 DEF Request
<1> HIDE DEF q
<1> QED
  BY <1>2, <1>3 DEF TypeOK

LEMMA FinishTypes ==
  ASSUME TypeOK, NEW r \in Requests, Finish(r)
  PROVE  /\ requests' \in [Requests -> Request \cup {Idle}]
         /\ \A x \in Requests \ {r} : requests'[x] = requests[x]
         /\ requests'[r] = Idle
BY DEF TypeOK, Finish

\* A request that stays as it is, and one that is only touched, gets milder.
LEMMA UnchangedIsMilder ==
  ASSUME NEW x \in Requests, requests'[x] = requests[x]
  PROVE  Milder(x)
BY DEF Milder, SameRequest, Quiet, Busy

LEMMA TouchedIsMilder ==
  ASSUME TypeOK, NEW M, requests' = Touched(requests, M), NEW x \in Requests
  PROVE  Milder(x)
<1>1. CASE ~Busy(x)
  BY <1>1, TouchedTypes DEF TypeOK, Milder, Quiet, Busy
<1>2. CASE Busy(x)
  <2>1. /\ requests'[x] \in Request
        /\ requests'[x].op = requests[x].op
        /\ requests'[x].pc = requests[x].pc
        /\ requests'[x].map = requests[x].map
        /\ requests'[x].alone => requests[x].alone
    BY <1>2, TouchedTypes DEF TypeOK, Busy
  <2> QED
    BY <1>2, <2>1, IdleIsNone DEF Milder, SameRequest, Busy
<1> QED
  BY <1>1, <1>2

-----------------------------------------------------------------------------
\* What the invariant says of one map, one call and one request.

\* Somebody waits for a call that is not late, and switches its map.
LEMMA AwaitedSwitches ==
  ASSUME CallsOK, NEW k \in calls, k.request # NoRequest
  PROVE  Awaited(k) /\ k.request \in Requests /\ Switches(k.request, k.map)
BY DEF CallsOK, Awaited, Switches, Busy

\* The calls on an undisturbed map are of the one request that switches it.
LEMMA CallsOfMap ==
  ASSUME CallsOK, NEW m \in Maps, MapOK(m), NEW k \in calls, k.map = m
  PROVE  /\ k.request # NoRequest
         /\ Switches(k.request, m)
         /\ \A l \in calls : l.map = m => l = k
<1>1. \A l \in calls : l.map = m => l.request # NoRequest
  BY DEF MapOK, Late
<1>2. \A l \in calls : l.map = m => Switches(l.request, m) /\ l.request \in Requests
  BY <1>1, AwaitedSwitches
<1>3. \A l \in calls : l.map = m => l.request = k.request
  BY <1>2 DEF MapOK
<1> QED
  BY <1>1, <1>2, <1>3 DEF CallsOK

\* A map that a step does not concern.
LEMMA OtherMap ==
  ASSUME NEW m \in Maps, MapOK(m), CallsOK, world_up' = world_up,
         m \in running' <=> m \in running, m \in registry' <=> m \in registry,
         \A x \in Requests : Switches(x, m)' <=> Switches(x, m),
         \A k \in calls' : k.map = m =>
           /\ k \in calls
           /\ k.request # NoRequest =>
                /\ requests'[k.request].op = requests[k.request].op
                /\ requests'[k.request].pc = requests[k.request].pc
  PROVE  MapOK(m)'
<1>1. Late(m)' = {}
  BY DEF MapOK, Late
<1>2. \A r, o \in Requests : Switches(r, m)' /\ Switches(o, m)' => r = o
  BY DEF MapOK
<1>3. Agree(m)' <=> Agree(m)
  BY DEF Agree
<1>4. ASSUME world_up, NEW k \in calls', k.map = m
      PROVE  CallOK(k)'
  <2>1. k \in calls /\ k.request # NoRequest /\ CallOK(k)
    BY <1>4, CallsOfMap DEF MapOK
  <2>2. /\ requests'[k.request].op = requests[k.request].op
        /\ requests'[k.request].pc = requests[k.request].pc
    BY <1>4, <2>1
  <2> QED
    BY <1>3, <1>4, <2>1, <2>2 DEF CallOK, Told, Agree
<1> QED
  BY <1>1, <1>2, <1>3, <1>4 DEF MapOK

\* What a request that has its map to itself knows of it.
Alone(x) ==
  /\ requests[x].map \in Maps
  /\ \A o \in Requests \ {x} : ~Switches(o, requests[x].map)
  /\ \A k \in calls : k.request = x /\ k.to = "registry" => world_up /\ Told(k)

LEMMA AloneForm == AloneOK <=> \A x \in Requests : Busy(x) /\ requests[x].alone => Alone(x)
BY DEF AloneOK, Alone

LEMMA OtherAlone ==
  ASSUME NEW x \in Requests, Alone(x), CallsOK, Busy(x),
         requests'[x].map = requests[x].map,
         \A o \in Requests \ {x} :
           Switches(o, requests[x].map)' => Switches(o, requests[x].map),
         \A k \in calls' : k.request = x /\ k.to = "registry" => k \in calls,
         \A m \in Maps : m = requests[x].map => (m \in running' <=> m \in running),
         NoRequest \notin Requests,
         world_up' = world_up
  PROVE  Alone(x)'
<1>1. PICK m \in Maps : m = requests[x].map
  BY DEF Alone
<1>2. \A o \in Requests \ {x} : ~Switches(o, m)'
  BY <1>1 DEF Alone, Switches, Busy
<1>3. ASSUME NEW k \in calls', k.request = x, k.to = "registry"
      PROVE  world_up' /\ Told(k)'
  <2>1. k \in calls /\ world_up /\ Told(k)
    BY <1>3 DEF Alone
  <2>2. k.map = m
    BY <1>1, <1>3, <2>1, AwaitedSwitches DEF Switches
  <2> QED
    BY <1>1, <2>1, <2>2 DEF Told
<1>4. requests'[x].map = m
  BY <1>1
<1>5. \A o \in Requests \ {x} : ~Switches(o, requests[x].map)'
  BY <1>2, <1>4 DEF Switches, Busy
<1> QED
  BY <1>3, <1>4, <1>5 DEF Alone

-----------------------------------------------------------------------------
\* Steps that leave every switching request waiting for the same.

LEMMA MilderRequests ==
  ASSUME RequestsOK, \A x \in Requests : Milder(x)
  PROVE  RequestsOK'
BY DEF RequestsOK, Milder, SameRequest, Quiet, Busy

LEMMA MilderSwitches ==
  ASSUME NEW x \in Requests, Milder(x), NEW m \in Maps
  PROVE  Switches(x, m)' <=> Switches(x, m)
BY AdminConstants DEF Milder, SameRequest, Quiet, Switches, Busy

LEMMA MilderAwaited ==
  ASSUME NEW k, Awaited(k), Milder(k.request)
  PROVE  /\ Awaited(k)'
         /\ requests'[k.request].op = requests[k.request].op
         /\ requests'[k.request].pc = requests[k.request].pc
<1>1. SameRequest(k.request)
  BY DEF Awaited, Milder, Quiet, Busy
<1> QED
  BY <1>1 DEF SameRequest, Awaited, Busy

\* Only the maps in M change, and nobody thinks to be alone on them.
LEMMA MilderStep ==
  ASSUME TypeOK, RequestsOK, CallsOK, MapsOK, AloneOK,
         \A x \in Requests : Milder(x),
         calls' \subseteq calls,
         \A k \in calls' : k.to = "world" => world_up',
         disturbed \cap Maps \subseteq disturbed',
         NEW M,
         world_up' = world_up \/ Maps \subseteq M,
         \A m \in Maps \ M : /\ m \in running' <=> m \in running
                             /\ m \in registry' <=> m \in registry,
         \A x \in Requests : Busy(x)' /\ requests'[x].alone => requests'[x].map \notin M,
         \A m \in (Maps \ disturbed') \cap M : MapOK(m)'
  PROVE  RequestsOK' /\ CallsOK' /\ MapsOK' /\ AloneOK'
<1>1. CallsOK'
  <2>1. \A k \in calls' : k.request # NoRequest => Awaited(k)'
    BY MilderAwaited DEF CallsOK, Awaited
  <2> QED
    BY <2>1 DEF CallsOK
<1>2. ASSUME NEW m \in Maps \ disturbed', m \notin M
      PROVE  MapOK(m)'
  <2>1. MapOK(m)
    BY <1>2 DEF MapsOK
  <2>2. \A x \in Requests : Switches(x, m)' <=> Switches(x, m)
    BY MilderSwitches
  <2>3. world_up' = world_up
    BY <1>2
  <2>4. \A k \in calls' : k.request # NoRequest =>
          /\ requests'[k.request].op = requests[k.request].op
          /\ requests'[k.request].pc = requests[k.request].pc
    BY MilderAwaited DEF CallsOK, Awaited
  <2> QED
    BY <1>2, <2>1, <2>2, <2>3, <2>4, OtherMap
<1>3. ASSUME NEW x \in Requests, Busy(x)', requests'[x].alone
      PROVE  Alone(x)'
  <2>1. Busy(x) /\ requests[x].alone /\ requests'[x].map = requests[x].map
    BY <1>3 DEF Milder, SameRequest, Quiet, Busy
  <2>2. Alone(x)
    BY <2>1, AloneForm
  <2>3. PICK m \in Maps \ M : m = requests[x].map
    BY <1>3, <2>1, <2>2 DEF Alone
  <2>4. \A o \in Requests : Switches(o, m)' <=> Switches(o, m)
    BY MilderSwitches
  <2>5. \A o \in Requests : Switches(o, requests[x].map)' => Switches(o, requests[x].map)
    BY <2>1, <2>3, <2>4 DEF Switches, Busy
  <2> QED
    BY <2>1, <2>2, <2>3, <2>5, OtherAlone, AdminConstants
<1> QED
  BY <1>1, <1>2, <1>3, MilderRequests DEF MapsOK, AloneOK, Alone

\* A step that changes neither the runtimes nor the registry.
LEMMA QuietStep ==
  ASSUME AdminInv, \A x \in Requests : Milder(x), calls' \subseteq calls,
         UNCHANGED <<world_up, running, registry, disturbed>>
  PROVE  RequestsOK' /\ CallsOK' /\ MapsOK' /\ AloneOK'
<1>0. PICK M : M = {}
  OBVIOUS
<1>1. \A k \in calls' : k.to = "world" => world_up'
  BY DEF AdminInv, CallsOK
<1>2. \A m \in Maps \ M : /\ m \in running' <=> m \in running
                          /\ m \in registry' <=> m \in registry
  BY <1>0
<1>3. \A m \in (Maps \ disturbed') \cap M : MapOK(m)'
  BY <1>0
<1>4. \A x \in Requests : Busy(x)' /\ requests'[x].alone => requests'[x].map \notin M
  BY <1>0
<1>5. disturbed \cap Maps \subseteq disturbed'
  BY <1>0
<1>6. TypeOK /\ RequestsOK /\ CallsOK /\ MapsOK /\ AloneOK
  BY DEF AdminInv
<1>7. world_up' = world_up \/ Maps \subseteq M
  OBVIOUS
<1> QED
  BY <1>1, <1>2, <1>3, <1>4, <1>5, <1>6, <1>7, MilderStep

-----------------------------------------------------------------------------
\* Types.

LEMMA CallWorldTypes ==
  ASSUME TypeOK, NEW act \in {"activate", "deactivate"}, NEW m \in Maps,
         NEW r \in Requests \cup {NoRequest}
  PROVE  CallWorld(act, m, r) \subseteq Call
BY DEF TypeOK, CallWorld, Send, Call

LEMMA GivenUpCalls ==
  ASSUME NEW R, NEW k \in GivenUp(R)
  PROVE  \/ k \in calls /\ k.request \notin R
         \/ \E l \in calls : l.request \in R /\ k = [l EXCEPT !.request = NoRequest]
BY DEF GivenUp

LEMMA GivenUpTypes ==
  ASSUME TypeOK, NEW R
  PROVE  GivenUp(R) \subseteq Call
<1> SUFFICES ASSUME NEW k \in GivenUp(R)
             PROVE  k \in Call
  OBVIOUS
<1>1. CASE k \in calls
  BY <1>1 DEF TypeOK
<1>2. ASSUME NEW l \in calls, k = [l EXCEPT !.request = NoRequest]
      PROVE  k \in Call
  BY <1>2 DEF TypeOK, Call
<1> QED
  BY <1>1, <1>2, GivenUpCalls

\* A request that has begun.
Begun(r, op, m, pc) ==
  /\ sessions' \in [Tokens -> Session \cup {NoSession}]
  /\ requests' \in [Requests -> Request \cup {Idle}]
  /\ requests'[r] \in Request
  /\ requests'[r].op = op
  /\ requests'[r].pc = pc
  /\ requests'[r].map = m
  /\ requests'[r].alone => op \in MapOps /\ ~\E o \in Requests : Switches(o, m)
  /\ \A x \in Requests \ {r} : requests'[x] = Touched(requests, {m})[x]

LEMMA BeginTypes ==
  ASSUME TypeOK, NEW r \in Requests, NEW t, NEW op \in Operations,
         NEW m \in Maps \cup {NoMap}, NEW pc \in {"work", "wait", "audit"},
         Begin(r, t, op, m, pc)
  PROVE  Begun(r, op, m, pc)
<1>1. sessions' \in [Tokens -> Session \cup {NoSession}]
  BY DEF TypeOK, Begin, prune_expired_sessions
<1>2. Touched(requests, {m}) \in [Requests -> Request \cup {Idle}]
  BY TouchedTypes DEF TypeOK
<1> DEFINE q == [op |-> op, pc |-> pc, map |-> m,
                 alone |-> op \in MapOps /\ ~\E o \in Requests : Switches(o, m)]
<1>3. q \in Request
  <2>1. (op \in MapOps /\ ~\E o \in Requests : Switches(o, m)) \in BOOLEAN
    OBVIOUS
  <2> QED
    BY <2>1 DEF Request
<1>4. requests' = [Touched(requests, {m}) EXCEPT ![r] = q]
  BY DEF Begin
<1>5. /\ q.op = op
      /\ q.pc = pc
      /\ q.map = m
      /\ q.alone => op \in MapOps /\ ~\E o \in Requests : Switches(o, m)
  OBVIOUS
<1> HIDE DEF q
<1> QED
  BY <1>1, <1>2, <1>3, <1>4, <1>5 DEF Begun

\* Sessions come and go without touching anything else.
LEMMA SessionTypes ==
  ASSUME TypeOK, NEW t \in Tokens, SessionStep(t)
  PROVE  sessions' \in [Tokens -> Session \cup {NoSession}]
<1>1. CASE Login(t)
  BY <1>1 DEF Login, TypeOK, Session
<1>2. CASE Logout(t)
  BY <1>2 DEF Logout, TypeOK
<1>3. CASE Expire(t)
  <2>1. sessions[t] \in Session \cup {NoSession}
    BY DEF TypeOK
  <2>2. [sessions[t] EXCEPT !.expired = TRUE] \in Session \cup {NoSession}
    <3>1. sessions[t] # NoSession
      BY <1>3 DEF Expire, NoSession
    <3>2. sessions[t] \in Session
      BY <2>1, <3>1
    <3> QED
      BY <3>2 DEF Session
  <2>3. sessions' = [sessions EXCEPT ![t] = [sessions[t] EXCEPT !.expired = TRUE]]
    BY <1>3 DEF Expire
  <2> QED
    BY <2>2, <2>3 DEF TypeOK
<1>4. ASSUME NEW op, Reject(t, op)
      PROVE  sessions' \in [Tokens -> Session \cup {NoSession}]
  BY <1>4 DEF Reject, TypeOK, prune_expired_sessions
<1> QED
  BY <1>1, <1>2, <1>3, <1>4 DEF SessionStep

-----------------------------------------------------------------------------
\* Steps that switch nothing.

LEMMA SessionStepKeeps ==
  ASSUME AdminInv, NEW t \in Tokens, SessionStep(t)
  PROVE  AdminInv'
<1>1. UNCHANGED <<requests, calls, worldVars, registry, disturbed>>
  BY DEF SessionStep, Login, Logout, Expire, Reject
<1>2. TypeOK'
  BY <1>1, SessionTypes DEF AdminInv, TypeOK, worldVars
<1>3. RequestsOK' /\ CallsOK' /\ MapsOK' /\ AloneOK'
  BY <1>1, UnchangedIsMilder, QuietStep DEF worldVars
<1> QED
  BY <1>2, <1>3 DEF AdminInv

LEMMA BeginOtherKeeps ==
  ASSUME AdminInv, NEW r \in Requests, NEW t, NEW op \in Operations, BeginOther(r, t, op)
  PROVE  AdminInv'
<1>1. PICK pc \in {"work", "audit"} :
        /\ Begin(r, t, op, NoMap, pc)
        /\ op \notin MapOps
        /\ UNCHANGED <<calls, worldVars, registry, disturbed>>
  BY DEF BeginOther
<1>2. /\ sessions' \in [Tokens -> Session \cup {NoSession}]
      /\ requests' \in [Requests -> Request \cup {Idle}]
      /\ requests'[r] \in Request
      /\ requests'[r].pc = pc
      /\ requests'[r].map = NoMap
      /\ ~requests'[r].alone
      /\ \A x \in Requests \ {r} : requests'[x] = Touched(requests, {NoMap})[x]
  <2>1. TypeOK /\ NoMap \in Maps \cup {NoMap} /\ pc \in {"work", "wait", "audit"}
    BY <1>1 DEF AdminInv
  <2>2. Begin(r, t, op, NoMap, pc)
    BY <1>1
  <2>3. Begun(r, op, NoMap, pc)
    BY <2>1, <2>2, BeginTypes
  <2> QED
    BY <1>1, <2>3 DEF Begun
<1>3. TypeOK'
  BY <1>1, <1>2 DEF AdminInv, TypeOK, worldVars
<1>4. Milder(r)
  BY <1>1, <1>2 DEF Begin, Milder, Quiet, Busy
<1>5. ASSUME NEW x \in Requests \ {r}
      PROVE  Milder(x)
  <2>1. CASE ~Busy(x)
    BY <1>2, <2>1, TouchedTypes DEF AdminInv, TypeOK, Milder, Quiet, Busy
  <2>2. CASE Busy(x)
    <3>1. /\ requests'[x] \in Request
          /\ requests'[x].op = requests[x].op
          /\ requests'[x].pc = requests[x].pc
          /\ requests'[x].map = requests[x].map
          /\ requests'[x].alone => requests[x].alone
      BY <1>2, <2>2, TouchedTypes DEF AdminInv, TypeOK, Busy
    <3> QED
      BY <2>2, <3>1, IdleIsNone DEF Milder, SameRequest, Busy
  <2> QED
    BY <2>1, <2>2
<1>6. RequestsOK' /\ CallsOK' /\ MapsOK' /\ AloneOK'
  BY <1>1, <1>4, <1>5, QuietStep DEF worldVars
<1> QED
  BY <1>3, <1>6 DEF AdminInv

\* The record of a request that does not switch a map, or its end.
LEMMA QuietEnds ==
  ASSUME AdminInv, NEW r \in Requests, Busy(r), requests[r].pc \notin {"wait", "undo"},
         requests' = ToAudit(r) \/ Finish(r)
  PROVE  /\ requests' \in [Requests -> Request \cup {Idle}]
         /\ \A x \in Requests : Milder(x)
<1>1. Quiet(r)
  BY QuietRequest DEF AdminInv
<1>2. CASE requests' = ToAudit(r)
  <2>1. Quiet(r)'
    BY <1>2, ToAuditTypes DEF AdminInv, Quiet
  <2> QED
    BY <1>1, <1>2, <2>1, ToAuditTypes, UnchangedIsMilder DEF AdminInv, Milder
<1>3. CASE Finish(r)
  <2>1. Quiet(r)'
    BY <1>3, FinishTypes DEF AdminInv, Quiet, Busy
  <2> QED
    BY <1>1, <1>3, <2>1, FinishTypes, UnchangedIsMilder DEF AdminInv, Milder
<1> QED
  BY <1>2, <1>3

LEMMA WorkKeeps ==
  ASSUME AdminInv, NEW r \in Requests, Busy(r), requests[r].pc \notin {"wait", "undo"},
         requests' = ToAudit(r) \/ Finish(r),
         UNCHANGED <<sessions, calls, worldVars, registry, disturbed>>
  PROVE  AdminInv'
<1>1. TypeOK'
  BY QuietEnds DEF AdminInv, TypeOK, worldVars
<1>2. RequestsOK' /\ CallsOK' /\ MapsOK' /\ AloneOK'
  BY QuietEnds, QuietStep DEF worldVars
<1> QED
  BY <1>1, <1>2 DEF AdminInv

\* A late call that is lost.
LEMMA LoseKeeps ==
  ASSUME AdminInv, NEW k \in calls, LoseCall(k)
  PROVE  AdminInv'
<1>1. TypeOK'
  BY DEF LoseCall, AdminInv, TypeOK, worldVars
<1>2. RequestsOK' /\ CallsOK' /\ MapsOK' /\ AloneOK'
  BY UnchangedIsMilder, QuietStep DEF LoseCall, worldVars
<1> QED
  BY <1>1, <1>2 DEF AdminInv

-----------------------------------------------------------------------------
\* The world-service stops and starts.

\* In rs, request x is as it was or has only its audit record left.
Recorded(rs, x) ==
  \/ rs[x] = requests[x]
  \/ /\ Quiet(x)
     /\ rs[x] # Idle => rs[x].pc = "audit" /\ rs[x].map = NoMap /\ ~rs[x].alone

\* Who is touched on every map thinks nowhere to be alone.
LEMMA StopKeeps ==
  ASSUME AdminInv, NEW rs \in [Requests -> Request \cup {Idle}], StopWorld(rs),
         \A x \in Requests : Recorded(rs, x)
  PROVE  AdminInv'
<1>1. /\ world_up' = FALSE
      /\ running' = {}
      /\ calls' = {k \in calls : k.to # "world"}
      /\ requests' = Touched(rs, Maps)
      /\ UNCHANGED <<sessions, registry, disturbed>>
  BY DEF StopWorld
<1>2. TypeOK'
  BY <1>1, TouchedTypes DEF AdminInv, TypeOK
<1>3. ASSUME NEW x \in Requests, rs[x] = Idle
      PROVE  Milder(x)
  BY <1>1, <1>3, TouchedTypes DEF Recorded, Milder, Quiet, Busy
<1>4. ASSUME NEW x \in Requests, rs[x] # Idle
      PROVE  Milder(x) /\ (requests'[x].alone => requests'[x].map \notin Maps)
  <2>1. /\ requests'[x] \in Request
        /\ requests'[x].op = rs[x].op
        /\ requests'[x].pc = rs[x].pc
        /\ requests'[x].map = rs[x].map
        /\ requests'[x].alone => rs[x].alone /\ rs[x].map \notin Maps
    BY <1>1, <1>4, TouchedTypes
  <2> QED
    BY <1>4, <2>1, IdleIsNone DEF Recorded, Milder, SameRequest, Quiet, Busy
<1>5. PICK M : M = Maps
  OBVIOUS
<1>6. \A x \in Requests : Milder(x)
  BY <1>3, <1>4
<1>7. \A x \in Requests : Busy(x)' /\ requests'[x].alone => requests'[x].map \notin M
  BY <1>1, <1>4, <1>5, TouchedTypes DEF Busy
<1>8. ASSUME NEW m \in (Maps \ disturbed') \cap M
      PROVE  MapOK(m)'
  <2>1. MapOK(m)
    BY <1>1 DEF AdminInv, MapsOK
  <2>2. Late(m)' = {}
    BY <1>1, <2>1 DEF MapOK, Late
  <2>3. \A x \in Requests : Switches(x, m)' <=> Switches(x, m)
    BY <1>6, MilderSwitches
  <2> QED
    BY <1>1, <2>1, <2>2, <2>3 DEF MapOK
<1>9. RequestsOK' /\ CallsOK' /\ MapsOK' /\ AloneOK'
  <2>1. /\ calls' \subseteq calls
        /\ \A k \in calls' : k.to = "world" => world_up'
        /\ disturbed \cap Maps \subseteq disturbed'
        /\ Maps \subseteq M
        /\ \A m \in Maps \ M : FALSE
    BY <1>1, <1>5
  <2>2. \A m \in Maps \ M : /\ m \in running' <=> m \in running
                            /\ m \in registry' <=> m \in registry
    BY <2>1
  <2>3. TypeOK /\ RequestsOK /\ CallsOK /\ MapsOK /\ AloneOK
    BY DEF AdminInv
  <2> QED
    BY <1>6, <1>7, <1>8, <2>1, <2>2, <2>3, MilderStep
<1> QED
  BY <1>2, <1>9 DEF AdminInv

\* A world-service that starts runs what the registry says, or the maps are
\* disturbed.
LEMMA StartKeeps ==
  ASSUME AdminInv, NEW read_ok \in BOOLEAN, StartWorld(read_ok),
         requests' \in [Requests -> Request \cup {Idle}],
         \A x \in Requests : Milder(x)
  PROVE  AdminInv'
<1>1. /\ ~world_up
      /\ world_up' = TRUE
      /\ running' = startup_maps(read_ok)
      /\ UNCHANGED <<sessions, calls, registry>>
      /\ disturbed' \subseteq Maps
  BY DEF StartWorld
<1>2. TypeOK'
  BY <1>1 DEF AdminInv, TypeOK, startup_maps
<1>3. CallsOK'
  <2>1. \A k \in calls : k.request # NoRequest => Awaited(k)'
    BY MilderAwaited DEF AdminInv, CallsOK, Awaited
  <2> QED
    BY <1>1, <2>1 DEF AdminInv, CallsOK
<1>4. ASSUME NEW m \in Maps \ disturbed'
      PROVE  MapOK(m)'
  <2>1. running' = registry
    BY <1>1 DEF StartWorld, startup_maps
  <2>2. Late(m) = {} /\ \A x \in Requests : ~Switches(x, m)
    BY <2>1 DEF StartWorld
  <2>3. \A x \in Requests : ~Switches(x, m)'
    BY <2>2, MilderSwitches
  <2>4. Late(m)' = {}
    BY <1>1, <2>2 DEF Late
  <2>5. \A k \in calls' : k.map # m
    BY <1>1, <2>2, AwaitedSwitches DEF Late, AdminInv
  <2> QED
    BY <1>1, <2>1, <2>3, <2>4, <2>5 DEF MapOK, Agree
<1>5. ASSUME NEW x \in Requests, Busy(x)', requests'[x].alone
      PROVE  Alone(x)'
  <2>1. Busy(x) /\ requests[x].alone /\ requests'[x].map = requests[x].map
    BY <1>5 DEF Milder, SameRequest, Quiet, Busy
  <2>2. Alone(x)
    BY <2>1, AloneForm DEF AdminInv
  <2>3. PICK m \in Maps : m = requests[x].map
    BY <2>2 DEF Alone
  <2>4. \A o \in Requests \ {x} : ~Switches(o, m)'
    BY <2>2, <2>3, MilderSwitches DEF Alone
  <2>5. \A k \in calls' : ~(k.request = x /\ k.to = "registry")
    BY <1>1, <2>2 DEF Alone
  <2>6. \A o \in Requests \ {x} : ~Switches(o, requests[x].map)'
    BY <2>1, <2>3, <2>4 DEF Switches, Busy
  <2> QED
    BY <2>1, <2>3, <2>5, <2>6 DEF Alone
<1> QED
  BY <1>2, <1>3, <1>4, <1>5, MilderRequests DEF AdminInv, MapsOK, AloneOK, Alone

LEMMA ControlKeeps ==
  ASSUME AdminInv, NEW r \in Requests, Control(r)
  PROVE  AdminInv'
<1>1. Busy(r) /\ requests[r].pc = "work"
  BY DEF Control
<1>2. Quiet(r)
  BY <1>1, QuietRequest DEF AdminInv
<1>3. CASE StopWorld(ToAudit(r))
  <2>1. /\ ToAudit(r) \in [Requests -> Request \cup {Idle}]
        /\ \A x \in Requests \ {r} : ToAudit(r)[x] = requests[x]
        /\ ToAudit(r)[r].pc = "audit"
        /\ ToAudit(r)[r].map = NoMap
        /\ ~ToAudit(r)[r].alone
    BY <1>1, ToAuditTypes DEF AdminInv
  <2>2. \A x \in Requests : Recorded(ToAudit(r), x)
    BY <1>2, <2>1 DEF Recorded
  <2> QED
    BY <1>3, <2>1, <2>2, StopKeeps
<1>4. ASSUME requests' = ToAudit(r), NEW read_ok \in BOOLEAN, StartWorld(read_ok)
      PROVE  AdminInv'
  BY <1>1, <1>4, QuietEnds, StartKeeps
<1>5. CASE /\ requests' = ToAudit(r)
           /\ UNCHANGED <<sessions, calls, worldVars, registry, disturbed>>
  BY <1>1, <1>5, WorkKeeps
<1> QED
  BY <1>3, <1>4, <1>5 DEF Control

-----------------------------------------------------------------------------
\* Requests end before their time.

LEMMA EndKeeps ==
  ASSUME AdminInv, NEW R \in SUBSET Requests,
         requests' \in [Requests -> Request \cup {Idle}],
         \A x \in R : requests'[x] = Idle,
         \A x \in Requests \ R : requests'[x] = requests[x],
         calls' = GivenUp(R), LeftBy(R),
         UNCHANGED <<worldVars, registry>>,
         sessions' \in [Tokens -> Session \cup {NoSession}]
  PROVE  AdminInv'
<1> USE DEF worldVars
<1>0. ASSUME NEW k \in calls'
      PROVE  \/ k \in calls /\ k.request \notin R
             \/ \E l \in calls : /\ l.request \in R /\ k.request = NoRequest
                                 /\ k.map = l.map /\ k.to = l.to
  <2>1. ASSUME NEW l \in calls, l.request \in R, k = [l EXCEPT !.request = NoRequest]
        PROVE  /\ k.request = NoRequest
               /\ k.map = l.map /\ k.to = l.to
    BY <2>1 DEF AdminInv, TypeOK, Call
  <2> QED
    BY <1>0, <2>1, GivenUpCalls
<1>1. TypeOK'
  BY GivenUpTypes DEF AdminInv, TypeOK, LeftBy
<1>2. RequestsOK'
  BY DEF AdminInv, RequestsOK, Busy
<1>3. CallsOK'
  <2>1. ASSUME NEW k \in calls', k.request # NoRequest
        PROVE  k \in calls /\ Awaited(k)'
    <3>1. k \in calls /\ k.request \notin R
      BY <1>0, <2>1
    <3>2. Awaited(k)
      BY <2>1, <3>1 DEF AdminInv, CallsOK
    <3>3. requests'[k.request] = requests[k.request]
      BY <3>1, <3>2 DEF Awaited
    <3> QED
      BY <3>1, <3>2, <3>3 DEF Awaited
  <2>2. \A k \in calls' : k.to = "world" => world_up'
    BY <1>0 DEF AdminInv, CallsOK
  <2> QED
    BY <2>1, <2>2 DEF AdminInv, CallsOK
<1>4. ASSUME NEW m \in Maps \ disturbed'
      PROVE  MapOK(m)'
  <2>1. /\ MapOK(m)
        /\ \A x \in R : ~Switches(x, m)
    BY <1>4 DEF LeftBy, AdminInv, MapsOK
  <2>2. \A x \in Requests : Switches(x, m)' <=> Switches(x, m)
    BY <2>1 DEF Switches, Busy
  <2>3. ASSUME NEW k \in calls', k.map = m
        PROVE  k \in calls /\ k.request \notin R
    <3>1. ASSUME NEW l \in calls, l.request \in R, l.map = m
          PROVE  FALSE
      <4>1. l.request # NoRequest
        BY <3>1, AdminConstants
      <4> QED
        BY <2>1, <3>1, <4>1, AwaitedSwitches DEF AdminInv
    <3> QED
      BY <1>0, <2>3, <3>1
  <2>4. ASSUME NEW k \in calls', k.map = m, k.request # NoRequest
        PROVE  requests'[k.request] = requests[k.request]
    BY <2>3, <2>4, AwaitedSwitches DEF AdminInv
  <2> QED
    BY <2>1, <2>2, <2>3, <2>4, OtherMap DEF AdminInv
<1>5. ASSUME NEW x \in Requests, Busy(x)', requests'[x].alone
      PROVE  Alone(x)'
  <2>1. x \notin R /\ requests'[x] = requests[x]
    BY <1>5 DEF Busy
  <2>2. Alone(x) /\ Busy(x)
    BY <1>5, <2>1, AloneForm DEF AdminInv, Busy
  <2>3. \A o \in Requests \ {x} :
          Switches(o, requests[x].map)' => Switches(o, requests[x].map)
    BY <2>1 DEF Switches, Busy
  <2>4. \A k \in calls' : k.request = x => k \in calls
    BY <1>0, AdminConstants
  <2> QED
    BY <2>1, <2>2, <2>3, <2>4, OtherAlone, AdminConstants DEF AdminInv
<1> QED
  BY <1>1, <1>2, <1>3, <1>4, <1>5 DEF AdminInv, MapsOK, AloneOK, Alone

LEMMA AbortKeeps ==
  ASSUME AdminInv, NEW r \in Requests, Abort(r)
  PROVE  AdminInv'
<1>1. /\ requests' \in [Requests -> Request \cup {Idle}]
      /\ requests'[r] = Idle
      /\ \A x \in Requests \ {r} : requests'[x] = requests[x]
  BY FinishTypes DEF Abort, AdminInv
<1> QED
  BY <1>1, EndKeeps DEF Abort, AdminInv, TypeOK

LEMMA AdminRestartKeeps ==
  ASSUME AdminInv, AdminRestart
  PROVE  AdminInv'
<1>1. PICK B : B = {r \in Requests : Busy(r)}
  OBVIOUS
<1>2. /\ sessions' \in [Tokens -> Session \cup {NoSession}]
      /\ requests' = [r \in Requests |-> Idle]
      /\ calls' = GivenUp(B)
      /\ LeftBy(B)
      /\ UNCHANGED <<worldVars, registry>>
  BY <1>1 DEF AdminRestart
<1>3. \A x \in Requests \ B : requests'[x] = requests[x]
  BY <1>1, <1>2 DEF Busy
<1> QED
  BY <1>1, <1>2, <1>3, EndKeeps

-----------------------------------------------------------------------------
\* A request begins to switch a map.

LEMMA BeginSwitchKeeps ==
  ASSUME AdminInv, NEW r \in Requests, NEW t, NEW op \in Operations, NEW m \in Maps,
         BeginSwitch(r, t, op, m)
  PROVE  AdminInv'
<1>0. TypeOK /\ RequestsOK /\ CallsOK /\ MapsOK /\ AloneOK
  BY DEF AdminInv
<1>1. PICK act \in {"activate", "deactivate"} :
        /\ op = "activate" => act = "activate"
        /\ op # "activate" => act = "deactivate"
        /\ calls' = CallWorld(act, m, r)
  BY DEF BeginSwitch
<1>2. /\ op \in MapOps
      /\ Begin(r, t, op, m, "wait")
      /\ ~Busy(r)
      /\ UNCHANGED <<worldVars, registry>>
      /\ disturbed \subseteq disturbed'
      /\ disturbed' \subseteq Maps
      /\ m \notin disturbed' => \A o \in Requests : ~Switches(o, m)
  BY <1>0 DEF BeginSwitch, Begin, TypeOK
<1>3. Begun(r, op, m, "wait")
  BY <1>0, <1>2, BeginTypes
<1>4. /\ Busy(r)'
      /\ requests'[r].op = op
      /\ requests'[r].pc = "wait"
      /\ requests'[r].map = m
      /\ requests'[r].alone => \A o \in Requests : ~Switches(o, m)
  BY <1>3, IdleIsNone DEF Begun, Busy
<1>5. ASSUME NEW x \in Requests \ {r}
      PROVE  /\ Milder(x)
             /\ Busy(x)' /\ requests'[x].alone => requests'[x].map # m
  <2>1. requests'[x] = Touched(requests, {m})[x]
    BY <1>3 DEF Begun
  <2>2. CASE ~Busy(x)
    BY <1>0, <2>1, <2>2, TouchedTypes DEF TypeOK, Milder, Quiet, Busy
  <2>3. CASE Busy(x)
    <3>1. /\ requests'[x] \in Request
          /\ requests'[x].op = requests[x].op
          /\ requests'[x].pc = requests[x].pc
          /\ requests'[x].map = requests[x].map
          /\ requests'[x].alone => requests[x].alone /\ requests[x].map \notin {m}
      BY <1>0, <2>1, <2>3, TouchedTypes DEF TypeOK, Busy
    <3> QED
      BY <2>3, <3>1, IdleIsNone DEF Milder, SameRequest, Busy
  <2> QED
    BY <2>2, <2>3
<1>6. \A k \in calls' : \/ k \in calls
                        \/ /\ k = [to |-> "world", act |-> act, map |-> m, request |-> r]
                           /\ world_up
  BY <1>1 DEF CallWorld, Send
<1>7. \A k \in calls : k.request # r
  BY <1>0, <1>2, AdminConstants DEF CallsOK, Awaited, Busy
<1>8. TypeOK'
  BY <1>0, <1>1, <1>2, <1>3, CallWorldTypes DEF TypeOK, Begun, worldVars
<1>9. RequestsOK'
  <2>1. ASSUME NEW x \in Requests \ {r}, Busy(x)'
        PROVE  IF requests'[x].pc \in {"wait", "undo"} THEN requests'[x].map \in Maps
               ELSE requests'[x].map = NoMap
    BY <1>0, <1>5, <2>1 DEF RequestsOK, Milder, SameRequest, Quiet, Busy
  <2> QED
    BY <1>4, <2>1 DEF RequestsOK, Busy
<1>10. CallsOK'
  <2>1. ASSUME NEW k \in calls, k.request # NoRequest
        PROVE  Awaited(k)'
    <3>1. Awaited(k) /\ k.request \in Requests \ {r}
      BY <1>0, <1>7, <2>1 DEF CallsOK, Awaited
    <3> QED
      BY <1>5, <3>1, MilderAwaited
  <2>2. ASSUME NEW k, k = [to |-> "world", act |-> act, map |-> m, request |-> r]
        PROVE  Awaited(k)'
    BY <1>1, <1>2, <1>4, <2>2 DEF Awaited, Busy, MapOps
  <2>3. \A k \in calls' : k.request # NoRequest => Awaited(k)'
    BY <1>6, <2>1, <2>2
  <2>4. \A k, l \in calls' : k.request = l.request /\ k.request # NoRequest => k = l
    BY <1>0, <1>6, <1>7 DEF CallsOK
  <2>5. /\ \A k \in calls' : k.to = "world" => world_up'
        /\ \A k \in calls' : k.to = "registry" /\ k.act = "activate"
                             /\ k.request # NoRequest => k.map \in Catalog
    BY <1>0, <1>2, <1>6 DEF CallsOK, worldVars
  <2> QED
    BY <2>3, <2>4, <2>5 DEF CallsOK
<1>11. ASSUME NEW n \in Maps \ disturbed'
       PROVE  MapOK(n)'
  <2>1. MapOK(n)
    BY <1>0, <1>2 DEF MapsOK
  <2>2. CASE n # m
    <3>1. \A x \in Requests : Switches(x, n)' <=> Switches(x, n)
      BY <1>2, <1>4, <1>5, <2>2, MilderSwitches DEF Switches, Busy
    <3>2. \A k \in calls' : k.map = n => k \in calls
      BY <1>6, <2>2
    <3>3. ASSUME NEW k \in calls, k.request # NoRequest
          PROVE  /\ requests'[k.request].op = requests[k.request].op
                 /\ requests'[k.request].pc = requests[k.request].pc
      <4>1. Awaited(k) /\ k.request \in Requests \ {r}
        BY <1>0, <1>7, <3>3 DEF CallsOK, Awaited
      <4> QED
        BY <1>5, <4>1, MilderAwaited
    <3> QED
      BY <1>0, <1>2, <2>1, <3>1, <3>2, <3>3, OtherMap DEF worldVars
  <2>3. CASE n = m
    <3>1. \A o \in Requests : ~Switches(o, m)
      BY <1>2, <2>3
    <3>2. \A k \in calls : k.map # m
      BY <1>0, <2>1, <2>3, <3>1, CallsOfMap, AwaitedSwitches
    <3>3. \A o \in Requests \ {r} : ~Switches(o, m)'
      BY <1>5, <3>1, MilderSwitches
    <3>4. Late(m)' = {}
      BY <1>6, <3>2, AdminConstants DEF Late
    <3>5. world_up => Agree(m)
      BY <2>1, <2>3, <3>1 DEF MapOK
    <3>6. ASSUME world_up, NEW k \in calls', k.map = m
          PROVE  CallOK(k)'
      <4>1. /\ k.to = "world"
            /\ k.act = act
            /\ k.request = r
        BY <1>6, <3>2, <3>6
      <4>2. Agree(m)'
        BY <1>2, <3>5, <3>6 DEF Agree, worldVars
      <4> QED
        BY <1>1, <1>4, <3>6, <4>1, <4>2 DEF CallOK, Agree
    <3> QED
      BY <1>2, <1>4, <2>3, <3>3, <3>4, <3>6 DEF MapOK, Switches, Busy, worldVars
  <2> QED
    BY <2>2, <2>3
<1>12. ASSUME NEW x \in Requests, Busy(x)', requests'[x].alone
       PROVE  Alone(x)'
  <2>1. CASE x = r
    <3>1. \A o \in Requests \ {r} : ~Switches(o, m)'
      BY <1>4, <1>5, <1>12, <2>1, MilderSwitches
    <3>2. \A k \in calls' : ~(k.request = r /\ k.to = "registry")
      BY <1>6, <1>7
    <3>3. \A o \in Requests \ {r} : ~Switches(o, requests[r].map)'
      BY <1>4, <3>1 DEF Switches, Busy
    <3> QED
      BY <1>4, <2>1, <3>2, <3>3 DEF Alone
  <2>2. CASE x # r
    <3>1. /\ Busy(x)
          /\ requests[x].alone
          /\ requests'[x].map = requests[x].map
          /\ requests[x].map # m
      BY <1>5, <1>12, <2>2 DEF Milder, SameRequest, Quiet, Busy
    <3>2. Alone(x)
      BY <1>0, <3>1, AloneForm
    <3>3. PICK n \in Maps : n = requests[x].map
      BY <3>2 DEF Alone
    <3>4. \A o \in Requests \ {x} : Switches(o, n)' => Switches(o, n)
      BY <1>4, <1>5, <3>1, <3>3, MilderSwitches DEF Switches, Busy
    <3>5. \A o \in Requests \ {x} :
            Switches(o, requests[x].map)' => Switches(o, requests[x].map)
      BY <3>1, <3>3, <3>4 DEF Switches, Busy
    <3>6. \A k \in calls' : k.request = x => k \in calls
      BY <1>6, <2>2
    <3> QED
      BY <1>0, <1>2, <3>1, <3>2, <3>5, <3>6, OtherAlone, AdminConstants DEF worldVars
  <2> QED
    BY <2>1, <2>2
<1> QED
  BY <1>8, <1>9, <1>10, <1>11, <1>12 DEF AdminInv, MapsOK, AloneOK, Alone

-----------------------------------------------------------------------------
\* A call is carried out and nobody learns of it.

LEMMA UnseenKeeps ==
  ASSUME AdminInv, NEW k \in calls, CarriedOutUnseen(k), UNCHANGED <<sessions, world_up>>,
         running' \subseteq Catalog \cup {DefaultMap}, registry' \subseteq Catalog,
         \A m \in Maps : m # k.map => (m \in running' <=> m \in running),
         \A m \in Maps : m # k.map => (m \in registry' <=> m \in registry)
  PROVE  AdminInv'
<1>0. TypeOK /\ RequestsOK /\ CallsOK /\ MapsOK /\ AloneOK
  BY DEF AdminInv
<1>1. PICK M : M = {k.map}
  OBVIOUS
<1>2. /\ calls' = calls \ {k}
      /\ requests' = Touched(requests, M)
      /\ disturbed' = disturbed
  BY <1>1 DEF CarriedOutUnseen
<1>3. TypeOK'
  BY <1>0, <1>2, TouchedTypes DEF TypeOK
<1>4. \A x \in Requests : Milder(x)
  BY <1>0, <1>2, TouchedIsMilder
<1>5. \A x \in Requests : Busy(x)' /\ requests'[x].alone => requests'[x].map \notin M
  <2> TAKE x \in Requests
  <2>1. CASE Busy(x)
    BY <1>0, <1>2, <2>1, TouchedTypes DEF TypeOK, Busy
  <2>2. CASE ~Busy(x)
    BY <1>0, <1>2, <2>2, TouchedTypes DEF TypeOK, Busy
  <2> QED
    BY <2>1, <2>2
<1>6. ASSUME NEW m \in (Maps \ disturbed') \cap M
      PROVE  MapOK(m)'
  <2>1. MapOK(m) /\ m = k.map
    BY <1>0, <1>1, <1>2 DEF MapsOK
  <2>2. Switches(k.request, m) /\ k.request \in Requests
    BY <1>0, <2>1, CallsOfMap, AwaitedSwitches
  <2>3. \A l \in calls' : l.map # m
    BY <1>0, <1>2, <2>1, CallsOfMap
  <2>4. \A x \in Requests : Switches(x, m)' <=> Switches(x, m)
    BY <1>4, MilderSwitches
  <2>5. Late(m)' = {}
    BY <2>3 DEF Late
  <2> QED
    BY <2>1, <2>2, <2>3, <2>4, <2>5 DEF MapOK
<1>7. /\ calls' \subseteq calls
      /\ \A l \in calls' : l.to = "world" => world_up'
      /\ disturbed \cap Maps \subseteq disturbed'
      /\ world_up' = world_up
  BY <1>0, <1>2 DEF CallsOK
<1>8. \A m \in Maps \ M : /\ m \in running' <=> m \in running
                          /\ m \in registry' <=> m \in registry
  BY <1>1
<1>9. RequestsOK' /\ CallsOK' /\ MapsOK' /\ AloneOK'
  BY <1>0, <1>4, <1>5, <1>6, <1>7, <1>8, MilderStep
<1> QED
  BY <1>3, <1>9 DEF AdminInv

-----------------------------------------------------------------------------
\* A call is carried out and answered: the request moves on, and its map with it.

\* The rest of the state, when request r alone changes, its call k goes and at
\* most one call of r on the same map comes.
LEMMA AnsweredKeeps ==
  ASSUME AdminInv, NEW k \in calls, NEW r \in Requests, k.request = r,
         requests' \in [Requests -> Request \cup {Idle}],
         \A x \in Requests \ {r} : requests'[x] = requests[x],
         UNCHANGED <<sessions, world_up>>,
         running' \subseteq Catalog \cup {DefaultMap}, registry' \subseteq Catalog,
         disturbed' \subseteq Maps,
         \A m \in Maps : m # k.map => (m \in running' <=> m \in running),
         \A m \in Maps : m # k.map => (m \in registry' <=> m \in registry),
         \A m \in Maps : m # k.map => (m \in disturbed' <=> m \in disturbed),
         NEW l \in Call, l.request = r, l.map = k.map,
         \A c \in calls' : c = l \/ (c \in calls /\ c # k),
         Busy(r)' => /\ requests'[r].alone => requests[r].alone
                     /\ \/ requests'[r].map = k.map /\ requests'[r].pc \in {"wait", "undo"}
                        \/ /\ requests'[r].map = NoMap /\ ~requests'[r].alone
                           /\ requests'[r].pc \notin {"wait", "undo"},
         l \in calls' => /\ Awaited(l)' /\ (l.to = "world" => world_up)
                         /\ l.to = "registry" =>
                              /\ l.act = "activate" => l.map \in Catalog
                              /\ Told(l)' /\ world_up,
         k.map \notin disturbed' => MapOK(k.map)'
  PROVE  AdminInv'
<1>0. TypeOK /\ RequestsOK /\ CallsOK /\ MapsOK /\ AloneOK
  BY DEF AdminInv
<1>1. PICK n \in Maps : n = k.map
  BY <1>0 DEF TypeOK, Call
<1>2. Awaited(k) /\ Switches(r, n)
  BY <1>0, <1>1, AwaitedSwitches, AdminConstants
<1>3. TypeOK'
  BY <1>0 DEF TypeOK
<1>4. RequestsOK'
  <2>1. ASSUME NEW x \in Requests \ {r}, Busy(x)'
        PROVE  IF requests'[x].pc \in {"wait", "undo"} THEN requests'[x].map \in Maps
               ELSE requests'[x].map = NoMap
    BY <1>0, <2>1 DEF RequestsOK, Busy
  <2>2. ASSUME Busy(r)'
        PROVE  IF requests'[r].pc \in {"wait", "undo"} THEN requests'[r].map \in Maps
               ELSE requests'[r].map = NoMap
    BY <1>1, <2>2
  <2> QED
    BY <2>1, <2>2 DEF RequestsOK, Busy
<1>5. \A c \in calls' : c # l => c \in calls /\ c.request # r
  BY <1>0, AdminConstants DEF CallsOK
<1>6. CallsOK'
  <2>1. ASSUME NEW c \in calls', c.request # NoRequest
        PROVE  Awaited(c)'
    <3>1. CASE c = l
      BY <2>1, <3>1
    <3>2. CASE c # l
      BY <1>0, <1>5, <2>1, <3>2 DEF CallsOK, Awaited
    <3> QED
      BY <3>1, <3>2
  <2>2. \A c, d \in calls' : c.request = d.request /\ c.request # NoRequest => c = d
    BY <1>0, <1>5 DEF CallsOK
  <2>3. \A c \in calls' : c.to = "world" => world_up'
    BY <1>0, <1>5 DEF CallsOK
  <2>4. \A c \in calls' : c.to = "registry" /\ c.act = "activate"
                          /\ c.request # NoRequest => c.map \in Catalog
    BY <1>0, <1>5 DEF CallsOK
  <2> QED
    BY <2>1, <2>2, <2>3, <2>4 DEF CallsOK
<1>7. \A m \in Maps, x \in Requests : m # n => (Switches(x, m)' <=> Switches(x, m))
  <2>1. \A m \in Maps : m # n => ~Switches(r, m) /\ ~Switches(r, m)'
    BY <1>1, <1>2, AdminConstants DEF Switches, Busy
  <2> QED
    BY <2>1 DEF Switches, Busy
<1>8. ASSUME NEW m \in Maps \ disturbed'
      PROVE  MapOK(m)'
  <2>1. CASE m # n
    <3>1. MapOK(m)
      BY <1>0, <1>1, <1>8, <2>1 DEF MapsOK
    <3>2. \A c \in calls' : c.map = m => c \in calls /\ c.request # r
      BY <1>1, <1>5, <2>1
    <3>3. \A c \in calls' : c.map = m /\ c.request # NoRequest =>
            requests'[c.request] = requests[c.request]
      BY <1>0, <3>2, AwaitedSwitches
    <3> QED
      BY <1>0, <1>1, <1>7, <2>1, <3>1, <3>2, <3>3, OtherMap
  <2>2. CASE m = n
    BY <1>1, <1>8, <2>2
  <2> QED
    BY <2>1, <2>2
<1>9. ASSUME NEW x \in Requests, Busy(x)', requests'[x].alone
      PROVE  Alone(x)'
  <2>1. CASE x = r
    <3>1. /\ Busy(r) /\ requests[r].alone
          /\ requests'[r].map = n /\ requests[r].map = n
      BY <1>1, <1>2, <1>9, <2>1 DEF Switches
    <3>2. \A o \in Requests \ {r} : ~Switches(o, n)
      BY <1>0, <3>1 DEF AloneOK
    <3>3. \A o \in Requests \ {r} : ~Switches(o, requests[r].map)'
      BY <3>1, <3>2 DEF Switches, Busy
    <3>4. \A c \in calls' : c.request = r /\ c.to = "registry" => world_up' /\ Told(c)'
      BY <1>5
    <3> QED
      BY <2>1, <3>1, <3>3, <3>4 DEF Alone
  <2>2. CASE x # r
    <3>1. Busy(x) /\ requests[x].alone /\ requests'[x] = requests[x]
      BY <1>9, <2>2 DEF Busy
    <3>2. Alone(x)
      BY <1>0, <3>1, AloneForm
    <3>3. PICK m \in Maps : m = requests[x].map
      BY <3>2 DEF Alone
    <3>4. m # n
      BY <1>2, <2>2, <3>2, <3>3 DEF Alone
    <3>5. \A o \in Requests \ {x} :
            Switches(o, requests[x].map)' => Switches(o, requests[x].map)
      BY <1>7, <3>1, <3>3, <3>4 DEF Switches, Busy
    <3>6. \A c \in calls' : c.request = x => c \in calls
      BY <1>5, <2>2
    <3> QED
      BY <1>0, <1>1, <3>1, <3>2, <3>3, <3>4, <3>5, <3>6, OtherAlone, AdminConstants
  <2> QED
    BY <2>1, <2>2
<1> QED
  BY <1>3, <1>4, <1>6, <1>8, <1>9 DEF AdminInv, MapsOK, AloneOK, Alone

\* The map whose request goes on with call l, after call k.
LEMMA NextCall ==
  ASSUME CallsOK, NEW k \in calls, k.map \in Maps, MapOK(k.map), k.request \in Requests,
         NEW l, l.request = k.request, l.map = k.map,
         \A c \in calls' : c = l \/ (c \in calls /\ c # k),
         Switches(k.request, k.map)',
         \A x \in Requests : Switches(x, k.map)' => Switches(x, k.map),
         world_up' /\ l \in calls' => CallOK(l)'
  PROVE  MapOK(k.map)'
<1>1. PICK m \in Maps : m = k.map
  OBVIOUS
<1>2. MapOK(m) /\ \A c \in calls' : c.map = m => c = l
  BY <1>1, CallsOfMap
<1>3. Late(m)' = {}
  BY <1>2, AdminConstants DEF Late
<1>4. \A x, o \in Requests : Switches(x, m)' /\ Switches(o, m)' => x = o
  BY <1>1, <1>2 DEF MapOK, Switches, Busy
<1>5. ~\A x \in Requests : ~Switches(x, m)'
  BY <1>1 DEF Switches, Busy
<1>6. MapOK(m)'
  BY <1>2, <1>3, <1>4, <1>5 DEF MapOK
<1> QED
  BY <1>1, <1>6 DEF MapOK, Late, Switches, Busy, Agree

\* The map whose request is through with it.
LEMMA LastCall ==
  ASSUME CallsOK, NEW k \in calls, k.map \in Maps, k.request \in Requests,
         \A c \in calls : c.map = k.map => c = k,
         calls' = calls \ {k},
         \A x \in Requests : ~Switches(x, k.map)',
         world_up' => Agree(k.map)'
  PROVE  MapOK(k.map)'
<1>1. PICK m \in Maps : m = k.map
  OBVIOUS
<1>2. \A c \in calls' : c.map # m
  BY <1>1
<1>3. Late(m)' = {}
  BY <1>2 DEF Late
<1>4. \A x \in Requests : ~Switches(x, m)'
  BY <1>1 DEF Switches, Busy
<1>5. world_up' => Agree(m)'
  BY <1>1 DEF Agree
<1>6. MapOK(m)'
  BY <1>2, <1>3, <1>4, <1>5 DEF MapOK
<1> QED
  BY <1>1, <1>6 DEF MapOK, Late, Switches, Busy, Agree

\* What the world-service makes of a call.
LEMMA ServedRunning ==
  ASSUME TypeOK, NEW k \in calls, NEW willing \in BOOLEAN, NEW answered \in BOOLEAN,
         WorldServes(k, willing, answered)
  PROVE  /\ k \in Call
         /\ k.to = "world"
         /\ running' \subseteq Catalog \cup {DefaultMap}
         /\ \A m \in Maps : m # k.map => (m \in running' <=> m \in running)
         /\ Accepts(k, willing) => (k.map \in running' <=> k.act = "activate")
         /\ Accepts(k, willing) /\ k.act = "activate" => k.map \in Catalog
         /\ ~Accepts(k, willing) => running' = running
         /\ UNCHANGED <<sessions, world_up, registry>>
<1>1. k \in Call
  BY DEF TypeOK
<1> QED
  BY <1>1 DEF WorldServes, Accepts, TypeOK, Call

LEMMA WorldRefuses ==
  ASSUME AdminInv, NEW k \in calls, k.request # NoRequest, k.to = "world",
         Finish(k.request), calls' = calls \ {k}, running' = running,
         UNCHANGED <<sessions, world_up, registry>>,
         disturbed' = IF requests[k.request].op = "restart" /\ k.act = "activate"
                      THEN disturbed \cup {k.map} ELSE disturbed
  PROVE  AdminInv'
<1>0. TypeOK /\ CallsOK /\ MapsOK
  BY DEF AdminInv
<1>1. PICK r \in Requests : r = k.request
  BY <1>0, AwaitedSwitches
<1>2. k \in Call /\ k.map \in Maps
  BY <1>0 DEF TypeOK, Call
<1>3. /\ requests' \in [Requests -> Request \cup {Idle}]
      /\ requests'[r] = Idle
      /\ \A x \in Requests \ {r} : requests'[x] = requests[x]
  BY <1>0, <1>1, FinishTypes
<1>4. ASSUME k.map \notin disturbed'
      PROVE  MapOK(k.map)'
  <2>1. MapOK(k.map) /\ ~(requests[r].op = "restart" /\ k.act = "activate")
    BY <1>0, <1>1, <1>2, <1>4 DEF MapsOK
  <2>2. Switches(r, k.map) /\ Awaited(k) /\ \A c \in calls : c.map = k.map => c = k
    BY <1>0, <1>1, <1>2, <2>1, CallsOfMap, AwaitedSwitches
  <2>3. \A x \in Requests : ~Switches(x, k.map)'
    BY <1>2, <1>3, <2>1, <2>2 DEF MapOK, Switches, Busy
  <2>4. world_up => Agree(k.map)
    <3>1. ASSUME world_up, requests[r].pc = "undo"
          PROVE  Agree(k.map)
      <4>1. k.map \notin running
        BY <1>1, <2>1, <3>1 DEF MapOK, CallOK
      <4>2. k.map \notin registry
        BY <1>0, <1>1, <2>2, <3>1 DEF Awaited, TypeOK
      <4> QED
        BY <4>1, <4>2 DEF Agree
    <3> QED
      BY <1>1, <2>1, <3>1 DEF MapOK, CallOK
  <2>5. world_up' => Agree(k.map)'
    BY <2>4 DEF Agree
  <2> QED
    BY <1>0, <1>1, <1>2, <2>2, <2>3, <2>5, LastCall
<1>5. disturbed' \subseteq Maps /\ running' \subseteq Catalog \cup {DefaultMap}
      /\ registry' \subseteq Catalog
  BY <1>0, <1>2 DEF TypeOK
<1>6. ~Busy(r)'
  BY <1>3 DEF Busy
<1> QED
  BY <1>1, <1>2, <1>3, <1>4, <1>5, <1>6, AnsweredKeeps

LEMMA WorldAnswers ==
  ASSUME AdminInv, NEW k \in calls, NEW willing \in BOOLEAN,
         WorldServes(k, willing, TRUE)
  PROVE  AdminInv'
<1>0. TypeOK /\ CallsOK /\ MapsOK
  BY DEF AdminInv
<1>1. PICK r \in Requests : r = k.request
  BY <1>0, AwaitedSwitches DEF WorldServes
<1>2. /\ Awaited(k)
      /\ Switches(r, k.map)
      /\ k \in Call
      /\ k.map \in Maps
      /\ k.act \in {"activate", "deactivate"}
      /\ k.to = "world"
      /\ world_up
  BY <1>0, <1>1, AwaitedSwitches, ServedRunning, AdminConstants DEF CallsOK, Call
<1>3. AfterWorld(k, Accepts(k, willing))
  BY DEF WorldServes
<1>4. /\ running' \subseteq Catalog \cup {DefaultMap}
      /\ \A m \in Maps : m # k.map => (m \in running' <=> m \in running)
      /\ Accepts(k, willing) => (k.map \in running' <=> k.act = "activate")
      /\ Accepts(k, willing) /\ k.act = "activate" => k.map \in Catalog
      /\ ~Accepts(k, willing) => running' = running
      /\ UNCHANGED <<sessions, world_up, registry>>
  BY <1>0, ServedRunning
<1>5. CASE ~Accepts(k, willing) \/ requests[r].pc = "undo"
  <2>1. ~Accepts(k, willing)
    BY <1>1, <1>2, <1>4, <1>5 DEF Awaited
  <2> QED
    BY <1>1, <1>2, <1>3, <1>4, <2>1, WorldRefuses, AdminConstants DEF AfterWorld
<1>6. ASSUME Accepts(k, willing), requests[r].pc # "undo",
             NEW l \in Call, l.request = r, l.map = k.map,
             calls' = (calls \cup {l}) \ {k}, l # k, UNCHANGED <<requests, disturbed>>,
             Awaited(l), CallOK(l)',
             l.to = "registry" => (l.act = "activate" => l.map \in Catalog) /\ Told(l)'
      PROVE  AdminInv'
  <2>1. /\ requests' \in [Requests -> Request \cup {Idle}]
        /\ registry' \subseteq Catalog
        /\ disturbed' \subseteq Maps
    BY <1>0, <1>4, <1>6 DEF TypeOK
  <2>2. Awaited(l)'
    BY <1>6 DEF Awaited
  <2>3. requests'[r].map = k.map /\ requests'[r].pc \in {"wait", "undo"}
    BY <1>1, <1>2, <1>6 DEF Awaited
  <2>4. ASSUME k.map \notin disturbed'
        PROVE  MapOK(k.map)'
    <3>1. MapOK(k.map)
      BY <1>0, <1>2, <1>6, <2>4 DEF MapsOK
    <3>2. \A x \in Requests : Switches(x, k.map)' <=> Switches(x, k.map)
      BY <1>6 DEF Switches, Busy
    <3>3. \A c \in calls' : c = l \/ (c \in calls /\ c # k)
      BY <1>6
    <3> QED
      BY <1>0, <1>1, <1>2, <1>6, <3>1, <3>2, <3>3, NextCall
  <2> QED
    BY <1>1, <1>2, <1>4, <1>6, <2>1, <2>2, <2>3, <2>4, AnsweredKeeps
<1>7. CASE /\ Accepts(k, willing) /\ requests[r].pc # "undo"
           /\ requests[r].op = "restart" /\ k.act = "deactivate"
  <2>1. PICK l \in Call :
          l = [to |-> "world", act |-> "activate", map |-> k.map, request |-> r]
    BY <1>2 DEF Call
  <2>2. calls' = (calls \cup {l}) \ {k} /\ UNCHANGED <<requests, disturbed>>
    BY <1>1, <1>2, <1>3, <1>7, <2>1 DEF AfterWorld, CallWorld, Send
  <2>3. Awaited(l)
    BY <1>1, <1>2, <1>7, <2>1 DEF Awaited, MapOps
  <2>4. k.map \notin running'
    BY <1>4, <1>7
  <2>5. CallOK(l)'
    BY <1>7, <2>1, <2>2, <2>4 DEF CallOK
  <2> QED
    BY <1>6, <1>7, <2>1, <2>2, <2>3, <2>5
<1>8. CASE /\ Accepts(k, willing) /\ requests[r].pc # "undo"
           /\ ~(requests[r].op = "restart" /\ k.act = "deactivate")
  <2>1. PICK l \in Call :
          l = [to |-> "registry", act |-> k.act, map |-> k.map, request |-> r]
    BY <1>2 DEF Call
  <2>2. calls' = (calls \cup {l}) \ {k} /\ UNCHANGED <<requests, disturbed>>
    BY <1>1, <1>2, <1>3, <1>8, <2>1 DEF AfterWorld, Send
  <2>3. Awaited(l)
    BY <1>1, <1>2, <1>8, <2>1 DEF Awaited
  <2>4. Told(l)' /\ (l.act = "activate" => l.map \in Catalog)
    BY <1>4, <1>8, <2>1 DEF Told
  <2>5. CallOK(l)'
    BY <2>1, <2>4 DEF CallOK, Told
  <2> QED
    BY <1>2, <1>6, <1>8, <2>1, <2>2, <2>3, <2>4, <2>5
<1> QED
  BY <1>5, <1>7, <1>8

LEMMA WorldKeeps ==
  ASSUME AdminInv, NEW k \in calls, NEW willing \in BOOLEAN, NEW answered \in BOOLEAN,
         WorldServes(k, willing, answered)
  PROVE  AdminInv'
<1>1. CASE answered
  BY <1>1, WorldAnswers DEF WorldServes
<1>2. CASE ~answered
  <2>1. CarriedOutUnseen(k)
    BY <1>2 DEF WorldServes
  <2>2. registry' \subseteq Catalog
    BY ServedRunning DEF AdminInv, TypeOK
  <2> QED
    BY <2>1, <2>2, ServedRunning, UnseenKeeps DEF AdminInv
<1> QED
  BY <1>1, <1>2

-----------------------------------------------------------------------------
\* The database carries out a statement.

\* The statement of a request, and what it makes of the registry.
LEMMA ServedRegistry ==
  ASSUME TypeOK, NEW k \in calls, NEW answered \in BOOLEAN, RegistryServes(k, answered)
  PROVE  /\ k \in Call
         /\ k.map \in Maps
         /\ k.to = "registry"
         /\ registry' \subseteq Catalog
         /\ \A m \in Maps : m # k.map => (m \in registry' <=> m \in registry)
         /\ k.map \in Catalog => (k.map \in registry' <=> k.act = "activate")
         /\ k.map \notin Catalog => registry' = registry
         /\ UNCHANGED <<sessions, world_up, running>>
<1>1. k \in Call
  BY DEF TypeOK
<1> QED
  BY <1>1 DEF RegistryServes, TypeOK, Call, worldVars

\* A map the catalog does not know: the call is undone.
LEMMA RegistryUndoes ==
  ASSUME AdminInv, NEW k \in calls, RegistryServes(k, TRUE), k.map \notin Catalog
  PROVE  AdminInv'
<1>0. TypeOK /\ CallsOK /\ MapsOK
  BY DEF AdminInv
<1>1. /\ k \in Call
      /\ k.map \in Maps
      /\ k.to = "registry"
      /\ registry' = registry
      /\ registry' \subseteq Catalog
      /\ UNCHANGED <<sessions, world_up, running>>
      /\ running' \subseteq Catalog \cup {DefaultMap}
      /\ AfterRegistry(k)
  BY <1>0, ServedRegistry DEF RegistryServes, TypeOK
<1>2. PICK r \in Requests : r = k.request
  BY <1>0, AwaitedSwitches DEF RegistryServes
<1>3. Awaited(k) /\ Switches(r, k.map)
  BY <1>0, <1>2, AwaitedSwitches, AdminConstants
<1>4. k.act = "deactivate"
  BY <1>0, <1>1, <1>2, AdminConstants DEF CallsOK, Call
<1>5. requests[r].op = "deactivate" /\ requests[r].pc = "wait" /\ requests[r] \in Request
  BY <1>0, <1>1, <1>2, <1>3, <1>4, AdminConstants DEF Awaited, MapOps, TypeOK
<1>6. PICK l \in Call :
        l = [to |-> "world", act |-> "activate", map |-> k.map, request |-> r]
  BY <1>1, <1>2 DEF Call
<1>7. /\ requests' = [requests EXCEPT ![r].pc = "undo"]
      /\ calls' = CallWorld("activate", k.map, r) \ {k}
      /\ disturbed' = disturbed
  BY <1>1, <1>2, <1>4 DEF AfterRegistry, Opposite
<1>8. \A c \in calls' : (c = l /\ world_up) \/ (c \in calls /\ c # k)
  BY <1>6, <1>7 DEF CallWorld, Send
<1>9. l \notin calls
  BY <1>0, <1>1, <1>2, <1>6, AdminConstants DEF CallsOK
<1> DEFINE q == [requests[r] EXCEPT !.pc = "undo"]
<1>10. /\ q \in Request
       /\ q.op = "deactivate"
       /\ q.pc = "undo"
       /\ q.map = requests[r].map
       /\ q.alone = requests[r].alone
  BY <1>5 DEF Request
<1>11. requests' = [requests EXCEPT ![r] = q]
  BY <1>7
<1> HIDE DEF q
<1>12. /\ requests' \in [Requests -> Request \cup {Idle}]
       /\ requests'[r] \in Request
       /\ requests'[r].op = "deactivate"
       /\ requests'[r].pc = "undo"
       /\ requests'[r].map = k.map
       /\ requests'[r].alone = requests[r].alone
       /\ \A x \in Requests \ {r} : requests'[x] = requests[x]
  BY <1>0, <1>3, <1>10, <1>11 DEF TypeOK, Switches
<1>13. Awaited(l)'
  BY <1>2, <1>6, <1>12, IdleIsNone DEF Awaited, MapOps
<1>14. Switches(r, k.map)'
  BY <1>12, IdleIsNone DEF Switches, Busy
<1>15. \A x \in Requests : Switches(x, k.map)' => Switches(x, k.map)
  BY <1>3, <1>12 DEF Switches, Busy
<1>16. ASSUME k.map \notin disturbed'
       PROVE  MapOK(k.map)'
  <2>1. MapOK(k.map)
    BY <1>0, <1>1, <1>7, <1>16 DEF MapsOK
  <2>2. world_up => k.map \notin running
    BY <1>1, <1>4, <2>1 DEF MapOK, CallOK, Told
  <2>3. world_up' => CallOK(l)'
    BY <1>1, <1>6, <1>12, <2>2 DEF CallOK
  <2> QED
    BY <1>0, <1>1, <1>2, <1>6, <1>8, <1>14, <1>15, <2>1, <2>3, NextCall
<1>17. l \in calls' => world_up
  BY <1>8, <1>9
<1> QED
  BY <1>1, <1>2, <1>6, <1>7, <1>8, <1>12, <1>13, <1>16, <1>17, <1>0,
     AnsweredKeeps DEF TypeOK

\* The map was switched on both sides.
LEMMA RegistryFollows ==
  ASSUME AdminInv, NEW k \in calls, RegistryServes(k, TRUE), k.map \in Catalog
  PROVE  AdminInv'
<1>0. TypeOK /\ CallsOK /\ MapsOK /\ AloneOK
  BY DEF AdminInv
<1>1. /\ k \in Call
      /\ k.map \in Maps
      /\ k.to = "registry"
      /\ registry' \subseteq Catalog
      /\ \A m \in Maps : m # k.map => (m \in registry' <=> m \in registry)
      /\ k.map \in registry' <=> k.act = "activate"
      /\ UNCHANGED <<sessions, world_up, running>>
      /\ running' \subseteq Catalog \cup {DefaultMap}
      /\ AfterRegistry(k)
  BY <1>0, ServedRegistry DEF RegistryServes, TypeOK
<1>2. PICK r \in Requests : r = k.request
  BY <1>0, AwaitedSwitches DEF RegistryServes
<1>3. Awaited(k) /\ Switches(r, k.map) /\ Busy(r)
  BY <1>0, <1>2, AwaitedSwitches, AdminConstants DEF Switches
<1>4. /\ requests' = ToAudit(r)
      /\ calls' = calls \ {k}
      /\ disturbed' = Settled(r, k.map)
  BY <1>1, <1>2 DEF AfterRegistry
<1>5. /\ requests' \in [Requests -> Request \cup {Idle}]
      /\ requests'[r].pc = "audit"
      /\ requests'[r].map = NoMap
      /\ ~requests'[r].alone
      /\ \A x \in Requests \ {r} : requests'[x] = requests[x]
  BY <1>0, <1>3, <1>4, ToAuditTypes
<1>6. /\ disturbed' \subseteq Maps
      /\ \A m \in Maps : m # k.map => (m \in disturbed' <=> m \in disturbed)
  BY <1>0, <1>4 DEF Settled, TypeOK
<1>7. ASSUME k.map \notin disturbed'
      PROVE  /\ \A o \in Requests \ {r} : ~Switches(o, k.map)
             /\ Late(k.map) = {}
             /\ world_up => Told(k)
  <2>1. CASE k.map \notin disturbed
    <3>1. MapOK(k.map)
      BY <1>0, <1>1, <2>1 DEF MapsOK
    <3> QED
      BY <1>1, <1>3, <3>1 DEF MapOK, CallOK
  <2>2. CASE k.map \in disturbed
    <3>1. requests[r].alone /\ Late(k.map) = {}
      BY <1>4, <1>7, <2>2 DEF Settled
    <3>2. Alone(r)
      BY <1>0, <1>3, <3>1, AloneForm
    <3> QED
      BY <1>1, <1>2, <1>3, <3>1, <3>2 DEF Alone, Switches
  <2> QED
    BY <2>1, <2>2
<1>8. ASSUME k.map \notin disturbed'
      PROVE  MapOK(k.map)'
  <2>1. ASSUME NEW c \in calls, c.map = k.map
        PROVE  c = k
    <3>1. c.request # NoRequest
      BY <1>7, <1>8, <2>1 DEF Late
    <3>2. Switches(c.request, k.map) /\ c.request \in Requests
      BY <1>0, <2>1, <3>1, AwaitedSwitches
    <3>3. c.request = r
      BY <1>7, <1>8, <3>2
    <3> QED
      BY <1>0, <1>2, <3>1, <3>3 DEF CallsOK
  <2>2. \A x \in Requests : ~Switches(x, k.map)'
    BY <1>1, <1>5, <1>7, <1>8, AdminConstants DEF Switches, Busy
  <2>3. world_up' => Agree(k.map)'
    BY <1>1, <1>7, <1>8 DEF Agree, Told
  <2> QED
    BY <1>0, <1>1, <1>2, <1>4, <2>1, <2>2, <2>3, LastCall
<1>9. /\ k.request = r
      /\ k \notin calls'
      /\ \A c \in calls' : c = k \/ (c \in calls /\ c # k)
      /\ \A m \in Maps : m # k.map => (m \in running' <=> m \in running)
  BY <1>1, <1>2, <1>4
<1> QED
  BY <1>1, <1>5, <1>6, <1>8, <1>9, AnsweredKeeps

LEMMA RegistryKeeps ==
  ASSUME AdminInv, NEW k \in calls, NEW answered \in BOOLEAN, RegistryServes(k, answered)
  PROVE  AdminInv'
<1>1. CASE answered
  BY <1>1, RegistryUndoes, RegistryFollows
<1>2. CASE ~answered
  <2>1. CarriedOutUnseen(k)
    BY <1>2 DEF RegistryServes
  <2>2. TypeOK /\ running' \subseteq Catalog \cup {DefaultMap}
    BY ServedRegistry DEF AdminInv, TypeOK
  <2> QED
    BY <2>1, <2>2, ServedRegistry, UnseenKeeps
<1> QED
  BY <1>1, <1>2

-----------------------------------------------------------------------------
\* Every step keeps the invariant.

LEMMA RequestStepKeeps ==
  ASSUME AdminInv, NEW r \in Requests, RequestStep(r)
  PROVE  AdminInv'
<1>1. CASE Work(r)
  BY <1>1, WorkKeeps DEF Work
<1>2. CASE Audit(r)
  BY <1>2, WorkKeeps DEF Audit
<1> QED
  BY <1>1, <1>2, BeginOtherKeeps, BeginSwitchKeeps, ControlKeeps, AbortKeeps DEF RequestStep

LEMMA CrashKeeps ==
  ASSUME AdminInv, WorldCrash
  PROVE  AdminInv'
<1>1. requests \in [Requests -> Request \cup {Idle}] /\ StopWorld(requests)
  BY DEF AdminInv, TypeOK, WorldCrash
<1>2. \A x \in Requests : Recorded(requests, x)
  BY DEF Recorded
<1> QED
  BY <1>1, <1>2, StopKeeps

LEMMA RestartKeeps ==
  ASSUME AdminInv, WorldRestart
  PROVE  AdminInv'
<1>1. PICK read_ok \in BOOLEAN : StartWorld(read_ok) /\ requests' = requests
  BY DEF WorldRestart
<1>2. requests' \in [Requests -> Request \cup {Idle}]
  BY <1>1 DEF AdminInv, TypeOK
<1> QED
  BY <1>1, <1>2, UnchangedIsMilder, StartKeeps

LEMMA StutterKeeps ==
  ASSUME AdminInv, UNCHANGED vars
  PROVE  AdminInv'
<1>1. TypeOK'
  BY DEF AdminInv, TypeOK, vars, worldVars
<1>2. RequestsOK' /\ CallsOK' /\ MapsOK' /\ AloneOK'
  BY UnchangedIsMilder, QuietStep DEF vars, worldVars
<1> QED
  BY <1>1, <1>2 DEF AdminInv

\* The whole invariant, which the theorems below draw on.
THEOREM AdminInvariant == Spec => []AdminInv
<1>1. Init => AdminInv
  <2> SUFFICES ASSUME Init
               PROVE  AdminInv
    OBVIOUS
  <2>1. TypeOK
    BY DEF Init, TypeOK
  <2>2. \A x \in Requests : ~Busy(x)
    BY DEF Init, Busy
  <2> QED
    BY <2>1, <2>2 DEF Init, AdminInv, RequestsOK, CallsOK, MapsOK, MapOK, AloneOK,
                      Late, Switches
<1>2. AdminInv /\ [Next]_vars => AdminInv'
  <2> SUFFICES ASSUME AdminInv, [Next]_vars
               PROVE  AdminInv'
    OBVIOUS
  <2>1. ASSUME NEW t \in Tokens, SessionStep(t)
        PROVE  AdminInv'
    BY <2>1, SessionStepKeeps
  <2>2. ASSUME NEW r \in Requests, RequestStep(r)
        PROVE  AdminInv'
    BY <2>2, RequestStepKeeps
  <2>3. ASSUME NEW k \in calls, CallStep(k)
        PROVE  AdminInv'
    BY <2>3, WorldKeeps, RegistryKeeps, LoseKeeps DEF CallStep
  <2>4. CASE WorldCrash
    BY <2>4, CrashKeeps
  <2>5. CASE WorldRestart
    BY <2>5, RestartKeeps
  <2>6. CASE AdminRestart
    BY <2>6, AdminRestartKeeps
  <2>7. CASE UNCHANGED vars
    BY <2>7, StutterKeeps
  <2> QED
    BY <2>1, <2>2, <2>3, <2>4, <2>5, <2>6, <2>7 DEF Next
<1> QED
  BY <1>1, <1>2, PTL DEF Spec

\* Sessions, requests, calls, runtimes and registry keep their types; above all
\* only maps of the catalog, or map 1, ever run or are registered.
THEOREM AdminTypes == Spec => []TypeOK
BY AdminInvariant, PTL DEF AdminInv

\* Whatever requests interleave, fail, are given up or are carried out late, and
\* whoever restarts, the registry and the runtimes agree on every map that no
\* request switches and that is not disturbed.
THEOREM RegistryAlwaysAgrees == Spec => []RegistryAgrees
<1>1. AdminInv => RegistryAgrees
  BY DEF AdminInv, MapsOK, MapOK, Agree, RegistryAgrees
<1> QED
  BY <1>1, AdminInvariant, PTL

\* An endpoint opens only to an administrator on duty, whatever roles the rows of
\* admin_users name.
THEOREM OnlyOnDutyHolds == Spec => []OnlyOnDuty
<1>1. TypeOK => OnlyOnDuty
  <2> SUFFICES ASSUME TypeOK, NEW t \in Tokens, NEW op \in DOMAIN Permission,
                      Authenticated(t, op)
               PROVE  /\ ~sessions[t].expired
                      /\ op \notin Reads => sessions[t].roles \cap Duty(op) # {}
    BY DEF OnlyOnDuty
  <2>1. ~sessions[t].expired /\ sessions[t] \in Session
    BY DEF Authenticated, prune_expired_sessions, TypeOK, NoSession
  <2>2. PICK role \in sessions[t].roles : Permission[op] \in permissions_for_role[role]
    BY DEF Authenticated, effective_permissions
  <2>3. role \in Roles
    BY <2>1, AdminConstants DEF Session, Roles, permissions_for_role
  <2>4. role \in {"superadmin", "admin", "gm", "support", "readonly"}
    BY <2>3 DEF Roles, permissions_for_role
  <2>5. op \notin Reads => role \in Duty(op)
    BY <2>2, <2>4 DEF Permission, permissions_for_role, Permissions, Duty, Reads
  <2> QED
    BY <2>1, <2>2, <2>5
<1> QED
  BY <1>1, AdminTypes, PTL

=============================================================================
