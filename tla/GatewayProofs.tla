----------------------------- MODULE GatewayProofs -----------------------------
(***************************************************************************)
(* The safety properties of Gateway, for every set of sessions, addresses, *)
(* characters and maps and every capacity.                                 *)
(*                                                                         *)
(* None of them is inductive.  They follow from GatewayInv, which relates, *)
(* for each session, its commands that are queued or being handled to the  *)
(* phase of its socket, its entry in the session table and what the two    *)
(* services know of it.                                                    *)
(***************************************************************************)
EXTENDS Gateway, FiniteSetTheorems, TLAPS

-----------------------------------------------------------------------------
\* The inductive invariant.

\* The command the router works on is one that its step may handle.
RouterKinds ==
  /\ RouterAt("check") =>
       router.command.kind \in {"Browse", "EnterWorld", "Play"} \cup CharacterKinds
  /\ RouterAt("call") => router.command.kind # "Disconnect"
  /\ RouterAt("apply") =>
       router.command.kind \in {"Login", "EnterWorld"} \cup CharacterKinds
  /\ RouterAt("authLogout") \/ RouterAt("remove") =>
       router.command.kind \in {"Logout", "Disconnect"}

TypeInv == TypeOK /\ RouterKinds

QueuedKinds(s) ==
  {inbox[i].command.kind : i \in {j \in DOMAIN inbox : inbox[j].session_id = s}}

Handles(s) == ~RouterAt("idle") /\ router.session_id = s

\* The commands of a session that are queued or being handled.
PendingKinds(s) ==
  QueuedKinds(s) \cup (IF Handles(s) THEN {router.command.kind} ELSE {})

\* A socket sends no Login after another or after EnterWorld, and does not turn
\* to a character after EnterWorld.
CanFollow(later, first) ==
  /\ later = "Login" => first \notin {"Login", "EnterWorld"}
  /\ later \in CharacterKinds => first # "EnterWorld"

InOrder ==
  \A i, j \in DOMAIN inbox :
    i < j /\ inbox[i].session_id = inbox[j].session_id
      => CanFollow(inbox[j].command.kind, inbox[i].command.kind)

HandledFirst ==
  ~RouterAt("idle") =>
    \A kind \in QueuedKinds(router.session_id) : CanFollow(kind, router.command.kind)

HasPlayer(s, m) == players[m][s] # Absent

\* The session is in the world, as the table or a map has it.
Entered(s) == IsInWorld(s) \/ \E m \in Maps : HasPlayer(s, m)

\* What is known of a session, or pending, was asked for by its socket.
AskedFor(s) ==
  /\ Known(s) \/ Entered(s) \/ PendingKinds(s) # {} => conn[s] # "none"
  /\ "Login" \in PendingKinds(s) =>
       phase[s] # "PreAuth" /\ ~IsAuthenticated(s) /\ ~Entered(s)
  /\ "EnterWorld" \in PendingKinds(s) \/ Entered(s) => phase[s] \in {"InWorld", "Closed"}
  /\ Entered(s) => PendingKinds(s) \cap CharacterKinds = {}

LoggingOut(s) == Handles(s) /\ router.pc \in {"authLogout", "remove"}

EntryJustified(s) ==
  Known(s) =>
    /\ sessions[s].in_world => sessions[s].character # NoCharacter
    /\ sessions[s].character # NoCharacter =>
         sessions[s].account /\ sessions[s].map_id # NoMap
    /\ sessions[s].account => db[s] # "none" /\ phase[s] # "PreAuth"
    /\ \A m \in Maps : HasPlayer(s, m) => sessions[s].map_id = m
    /\ IsInWorld(s) /\ ~LoggingOut(s) => \E m \in Maps : HasPlayer(s, m)

WorldJustified(s) ==
  /\ presence[s] # NoMap => db[s] # "none"
  /\ \A m, n \in Maps : HasPlayer(s, m) /\ HasPlayer(s, n) => m = n

SessionInv(s) == AskedFor(s) /\ EntryJustified(s) /\ WorldJustified(s)

\* What the router found when it took, checked and sent the command still
\* matters: the entry of the session may only have gone away since.
RouterInv ==
  LET s    == router.session_id
      kind == router.command.kind
  IN ~RouterAt("idle") =>
     /\ Known(s) /\ kind \notin CharacterKinds => router.map_id = ResolveMapId(s)
     /\ RouterAt("call") \/ RouterAt("apply") =>
          /\ kind = "EnterWorld" => db[s] # "none" /\ (Known(s) => IsCharacterSelected(s))
          /\ kind \in CharacterKinds /\ Known(s) => IsAuthenticated(s)
     /\ RouterAt("apply") =>
          /\ kind = "Login" => db[s] # "none"
          /\ kind = "EnterWorld" => HasPlayer(s, router.map_id)
     /\ RouterAt("call") =>
          /\ kind = "EnterWorld" => \A m \in Maps : HasPlayer(s, m) => m = router.map_id
          /\ kind = "Play" => HasPlayer(s, router.map_id)

ProtocolInv ==
  /\ InOrder /\ HandledFirst
  /\ RouterInv
  /\ \A s \in Sessions : SessionInv(s)

GatewayInv == TypeInv /\ ProtocolInv

-----------------------------------------------------------------------------
\* Types.

\* Queueing a command keeps the channel well typed.
LEMMA EnqueueType ==
  ASSUME TypeOK, NEW s \in Sessions,
         NEW command \in Command \cup {[kind |-> "Disconnect"]}, Enqueue(s, command)
  PROVE  inbox' \in Seq(InternalCommand)
<1>1. [session_id |-> s, command |-> command] \in InternalCommand
  BY DEF InternalCommand
<1> QED
  BY <1>1 DEF TypeOK, Enqueue

\* The fields of the command the router works on.
LEMMA RouterShape ==
  ASSUME TypeOK, ~RouterAt("idle")
  PROVE  /\ router \in RouterState
         /\ router.pc \in RouterPc
         /\ router.session_id \in Sessions
         /\ router.command \in Command \cup {[kind |-> "Disconnect"]}
         /\ router.map_id \in Maps
BY DEF TypeOK, RouterAt, IdleRouter, RouterState

\* A router that moves on keeps its command.
LEMMA GotoType ==
  ASSUME TypeOK, ~RouterAt("idle"), NEW pc \in RouterPc, Goto(pc)
  PROVE  /\ router' \in RouterState
         /\ router'.pc = pc
         /\ router'.session_id = router.session_id
         /\ router'.command = router.command
         /\ router'.map_id = router.map_id
BY RouterShape DEF Goto, RouterState

\* A session is resolved to a map.
LEMMA ResolveType ==
  ASSUME TypeOK, NEW s \in Sessions
  PROVE  ResolveMapId(s) \in Maps
BY GatewayConstants DEF TypeOK, ResolveMapId, Known, SessionRuntime

\* The commands that name a character are the two of CharacterKinds.
LEMMA CommandShape ==
  ASSUME NEW command \in Command
  PROVE  /\ command.kind \in PlainKinds \cup CharacterKinds
         /\ command.character \in Characters \cup {NoCharacter}
         /\ command.kind \in CharacterKinds => command.character \in Characters
BY DEF Command, PlainKinds, CharacterKinds

\* What Apply writes into an entry is an entry.
LEMMA UpdatedType ==
  ASSUME NEW entry \in SessionRuntime, NEW command \in Command, NEW m \in Maps,
         command.kind \in {"Login", "EnterWorld"} \cup CharacterKinds
  PROVE  Updated(entry, command, m) \in SessionRuntime
<1>1. AfterLogin \in SessionRuntime
  BY DEF AfterLogin, FreshSession, SessionRuntime
<1>2. AfterEnter(entry) \in SessionRuntime
  BY DEF AfterEnter, SessionRuntime
<1>3. ASSUME NEW c \in Characters
      PROVE  /\ AfterSelect(entry, c, m) \in SessionRuntime
             /\ AfterDelete(entry, c) \in SessionRuntime
  BY DEF AfterSelect, AfterDelete, SessionRuntime
<1> QED
  BY <1>1, <1>2, <1>3, CommandShape DEF Updated, CharacterKinds

\* The router takes a command with a first step that may handle it.
LEMMA TakeType ==
  ASSUME TypeOK, Take
  PROVE  /\ Head(inbox) \in InternalCommand
         /\ inbox' \in Seq(InternalCommand)
         /\ router' \in RouterState
         /\ RouterKinds'
<1>1. Head(inbox) \in InternalCommand /\ inbox' \in Seq(InternalCommand)
  BY DEF TypeOK, Take
<1> DEFINE msg == Head(inbox)
<1>2. /\ msg.session_id \in Sessions
      /\ msg.command \in Command \cup {[kind |-> "Disconnect"]}
      /\ msg.command.kind \in PlainKinds \cup CharacterKinds \cup {"Disconnect"}
  BY <1>1, CommandShape DEF InternalCommand
<1>3. ResolveMapId(msg.session_id) \in Maps
  BY <1>2, ResolveType
<1>4. PICK first \in {"authLogout", "call", "check"} :
        /\ router' = [pc |-> first, session_id |-> msg.session_id,
                      command |-> msg.command, map_id |-> ResolveMapId(msg.session_id)]
        /\ first = "authLogout" <=> msg.command.kind = "Disconnect"
        /\ first = "call" <=> msg.command.kind \in {"Login", "Heartbeat", "Logout"}
  BY DEF Take
<1>5. router' \in RouterState
  BY <1>2, <1>3, <1>4 DEF RouterState, RouterPc
<1>6. RouterKinds'
  BY <1>2, <1>4 DEF RouterKinds, RouterAt, PlainKinds, CharacterKinds
<1> QED
  BY <1>1, <1>5, <1>6

\* The effect of a call on the world keeps its tables well typed.
LEMMA WorldEffectType ==
  ASSUME TypeOK, NEW s \in Sessions, NEW m \in Maps, NEW kind,
         NEW character \in Characters \cup {NoCharacter},
         WorldEffect(s, m, kind, character)
  PROVE  /\ presence' \in [Sessions -> Maps \cup {NoMap}]
         /\ players' \in [Maps -> [Sessions -> Characters \cup {NoCharacter, Absent}]]
<1>0. ASSUME NEW v \in Characters \cup {NoCharacter, Absent}
      PROVE  [players EXCEPT ![m][s] = v] \in
               [Maps -> [Sessions -> Characters \cup {NoCharacter, Absent}]]
  <2>1. [players[m] EXCEPT ![s] = v] \in [Sessions -> Characters \cup {NoCharacter, Absent}]
    BY DEF TypeOK
  <2> QED
    BY <2>1 DEF TypeOK
<1>1. CASE kind = "EnterWorld"
  <2>1. /\ presence' = [presence EXCEPT ![s] = m]
        /\ players' = [players EXCEPT ![m][s] = character]
    BY <1>1 DEF WorldEffect
  <2> QED
    BY <1>0, <2>1 DEF TypeOK
<1>2. CASE kind = "Logout"
  <2>1. /\ presence' = [presence EXCEPT ![s] = NoMap]
        /\ players' = [players EXCEPT ![m][s] = Absent]
    BY <1>2 DEF WorldEffect
  <2> QED
    BY <1>0, <2>1 DEF TypeOK
<1>3. CASE kind \notin {"EnterWorld", "Logout"}
  BY <1>3 DEF WorldEffect, TypeOK
<1> QED
  BY <1>1, <1>2, <1>3

\* A step of a client or of a connection task keeps the types.
LEMMA ConnectionTypeStep ==
  ASSUME TypeInv, NEW s \in Sessions, Client(s) \/ ConnectionTask(s)
  PROVE  TypeInv'
<1> USE DEF TypeInv, TypeOK, RouterKinds, RouterAt, remoteVars
<1>1. ASSUME NEW a \in Ips, Accept(s, a) PROVE TypeInv'
  <2>1. FreshSession \in SessionRuntime
    BY DEF FreshSession, SessionRuntime
  <2> QED
    BY <1>1, <2>1 DEF Accept
<1>2. ASSUME NEW command \in Command, Receive(s, command) PROVE TypeInv'
  <2>1. inbox' \in Seq(InternalCommand)
    BY <1>2, EnqueueType DEF Receive
  <2>2. NextPhase(phase[s], command.kind) \in
          {"PreAuth", "PostAuth", "InCharacterList", "InWorld", "Closed"}
    BY DEF NextPhase
  <2> QED
    BY <1>2, <2>1, <2>2 DEF Receive
<1>3. CASE EndOfSession(s)
  <2>1. inbox' \in Seq(InternalCommand)
    BY <1>3, EnqueueType DEF EndOfSession
  <2> QED
    BY <1>3, <2>1 DEF EndOfSession
<1>4. CASE RemoveSession(s)
  BY <1>4 DEF RemoveSession
<1>5. CASE ReadError(s)
  BY <1>5 DEF ReadError
<1>6. CASE Leave(s)
  <2>1. \A n \in Nat : (IF n <= 1 THEN 0 ELSE n - 1) \in Nat
    OBVIOUS
  <2>2. ip_count' \in [Ips -> Nat]
    <3>1. CASE ip[s] \in Ips
      BY <1>6, <2>1, <3>1 DEF Leave
    <3>2. CASE ip[s] \notin Ips
      BY <1>6, <3>2 DEF Leave
    <3> QED
      BY <3>1, <3>2
  <2> QED
    BY <1>6, <2>2 DEF Leave
<1> QED
  BY <1>1, <1>2, <1>3, <1>4, <1>5, <1>6 DEF Client, ConnectionTask

\* A step of the router keeps the types.
LEMMA RouterTypeStep ==
  ASSUME TypeInv, Router
  PROVE  TypeInv'
<1> DEFINE s == router.session_id
           kind == router.command.kind
<1>a. TypeOK /\ RouterKinds
  BY DEF TypeInv
<1>b. /\ \A pc : RouterAt(pc) /\ pc # "idle" => ~RouterAt("idle")
      /\ Done => RouterKinds' /\ router' \in RouterState \cup {IdleRouter}
  BY DEF RouterAt, Done, RouterKinds, IdleRouter
<1> USE DEF tcpVars, remoteVars
<1>1. CASE Take
  BY <1>1, <1>a, TakeType DEF Take, TypeInv, TypeOK
<1>2. CASE Check
  <2>1. ~RouterAt("idle") /\ RouterAt("check")
    BY <1>2, <1>b DEF Check
  <2>2. CASE Goto("call")
    <3>1. router' \in RouterState /\ RouterKinds'
      BY <1>a, <2>1, <2>2, GotoType DEF RouterPc, RouterKinds, RouterAt, CharacterKinds
    <3> QED
      BY <1>2, <1>a, <3>1 DEF Check, TypeInv, TypeOK
  <2>3. CASE Done
    BY <1>2, <1>a, <1>b, <2>3 DEF Check, TypeInv, TypeOK
  <2> QED
    BY <1>2, <2>2, <2>3 DEF Check
<1>3. ASSUME NEW delivered \in BOOLEAN, NEW replied \in BOOLEAN,
             CallWorld(delivered, replied)
      PROVE  TypeInv'
  <2>1. ~RouterAt("idle") /\ RouterAt("call") /\ s \in Sessions /\ router.map_id \in Maps
    BY <1>3, <1>a, <1>b, RouterShape DEF CallWorld
  <2>2. CharacterOf(s) \in Characters \cup {NoCharacter}
    BY <1>a, <2>1 DEF TypeOK, CharacterOf, Known, SessionRuntime
  <2>3. /\ presence' \in [Sessions -> Maps \cup {NoMap}]
        /\ players' \in [Maps -> [Sessions -> Characters \cup {NoCharacter, Absent}]]
    <3>1. CASE delivered
      BY <1>3, <1>a, <2>1, <2>2, <3>1, WorldEffectType DEF CallWorld
    <3>2. CASE ~delivered
      BY <1>3, <1>a, <3>2 DEF CallWorld, TypeOK
    <3> QED
      BY <3>1, <3>2
  <2>4. router' \in RouterState \cup {IdleRouter} /\ RouterKinds'
    <3>1. CASE Goto("authLogout") /\ kind = "Logout"
      BY <1>a, <2>1, <3>1, GotoType DEF RouterPc, RouterKinds, RouterAt
    <3>2. CASE Goto("apply") /\ kind = "EnterWorld"
      BY <1>a, <2>1, <3>2, GotoType DEF RouterPc, RouterKinds, RouterAt
    <3>3. CASE Done
      BY <1>b, <3>3
    <3> QED
      BY <1>3, <3>1, <3>2, <3>3 DEF CallWorld
  <2> QED
    BY <1>3, <1>a, <2>3, <2>4 DEF CallWorld, TypeInv, TypeOK
<1>4. ASSUME NEW accepted \in BOOLEAN, NEW replied \in BOOLEAN,
             CallLogin(accepted, replied)
      PROVE  TypeInv'
  <2>1. ~RouterAt("idle") /\ RouterAt("call") /\ s \in Sessions
    BY <1>4, <1>a, <1>b, RouterShape DEF CallLogin
  <2>2. db' \in [Sessions -> {"none", "open", "closed"}]
    BY <1>4, <1>a, <2>1 DEF CallLogin, TypeOK
  <2>3. router' \in RouterState \cup {IdleRouter} /\ RouterKinds'
    <3>1. CASE Goto("apply")
      BY <1>4, <1>a, <2>1, <3>1, GotoType DEF CallLogin, RouterPc, RouterKinds, RouterAt
    <3>2. CASE Done
      BY <1>b, <3>2
    <3> QED
      BY <1>4, <3>1, <3>2 DEF CallLogin
  <2> QED
    BY <1>4, <1>a, <2>2, <2>3 DEF CallLogin, TypeInv, TypeOK
<1>5. ASSUME NEW ok \in BOOLEAN, NEW m \in Maps, CallCharacter(ok, m)
      PROVE  TypeInv'
  <2>1. ~RouterAt("idle") /\ RouterAt("call")
    BY <1>5, <1>b DEF CallCharacter
  <2>2. router' \in RouterState \cup {IdleRouter} /\ RouterKinds'
    <3>1. CASE Done
      BY <1>b, <3>1
    <3>2. CASE /\ kind \in CharacterKinds
               /\ router' = [router EXCEPT !.pc = "apply", !.map_id = m]
      BY <1>a, <2>1, <3>2, RouterShape
      DEF RouterState, RouterPc, RouterKinds, RouterAt, CharacterKinds
    <3> QED
      BY <1>5, <3>1, <3>2 DEF CallCharacter
  <2> QED
    BY <1>5, <1>a, <2>2 DEF CallCharacter, TypeInv, TypeOK
<1>6. CASE Apply
  <2>1. ~RouterAt("idle") /\ RouterAt("apply")
    BY <1>6, <1>b DEF Apply
  <2>2. /\ s \in Sessions /\ router.map_id \in Maps
        /\ kind \in {"Login", "EnterWorld"} \cup CharacterKinds
        /\ router.command \in Command
    BY <1>a, <2>1, RouterShape DEF RouterKinds, CharacterKinds
  <2>3. sessions' \in [Sessions -> SessionRuntime \cup {NoSession}]
    BY <1>6, <1>a, <2>2, UpdatedType DEF Apply, Known, TypeOK
  <2> QED
    BY <1>6, <1>a, <1>b, <2>3 DEF Apply, TypeInv, TypeOK
<1>7. ASSUME NEW delivered \in BOOLEAN, AuthLogout(delivered)
      PROVE  TypeInv'
  <2>1. ~RouterAt("idle") /\ RouterAt("authLogout")
    BY <1>7, <1>b DEF AuthLogout
  <2>2. router' \in RouterState /\ RouterKinds'
    BY <1>7, <1>a, <2>1, GotoType DEF AuthLogout, RouterPc, RouterKinds, RouterAt
  <2>3. db' \in [Sessions -> {"none", "open", "closed"}]
    BY <1>7, <1>a DEF AuthLogout, TypeOK
  <2> QED
    BY <1>7, <1>a, <2>2, <2>3 DEF AuthLogout, TypeInv, TypeOK
<1>8. CASE RouterRemove
  BY <1>8, <1>a, <1>b DEF RouterRemove, TypeInv, TypeOK
<1> QED
  BY <1>1, <1>2, <1>3, <1>4, <1>5, <1>6, <1>7, <1>8 DEF Router

\* A restart keeps the types.
LEMMA RestartTypeStep ==
  ASSUME TypeInv, Restart
  PROVE  TypeInv'
<1>1. <<>> \in Seq(InternalCommand)
  OBVIOUS
<1>2. RouterKinds'
  BY DEF Restart, RouterKinds, RouterAt, IdleRouter
<1> QED
  BY <1>1, <1>2, GatewayConstants DEF Restart, TypeInv, TypeOK, remoteVars

\* Every step keeps the types.
LEMMA TypeStep == TypeInv /\ [Next]_vars => TypeInv'
<1>1. ASSUME TypeInv, UNCHANGED vars PROVE TypeInv'
  BY <1>1 DEF TypeInv, TypeOK, RouterKinds, RouterAt, vars, tcpVars, remoteVars
<1> QED
  BY <1>1, ConnectionTypeStep, RouterTypeStep, RestartTypeStep DEF Next

\* The initial values are well typed.
LEMMA TypeInit == Init => TypeInv
<1> SUFFICES ASSUME Init PROVE TypeInv
  OBVIOUS
<1>1. RouterKinds
  BY DEF Init, RouterKinds, RouterAt, IdleRouter
<1>2. TypeOK
  BY GatewayConstants DEF Init, TypeOK
<1> QED
  BY <1>1, <1>2 DEF TypeInv

\* Every reachable state is well typed; in particular a session resolves to a
\* map also when it has none or is gone.
THEOREM GatewayTypes == Spec => []TypeOK
<1>1. Spec => []TypeInv
  BY TypeInit, TypeStep, PTL DEF Spec
<1> QED
  BY <1>1, PTL DEF TypeInv

-----------------------------------------------------------------------------
\* Connections per address.

Live == {"open", "removing", "leaving"}

LimitInv ==
  /\ \A s \in Sessions : conn[s] \in Live => ip[s] \in Ips
  /\ PerIpLimitExact

\* The connections of an address are finitely many.
LEMMA ConnectedFinite ==
  \A a : /\ IsFiniteSet(Connected(a)) /\ Cardinality(Connected(a)) \in Nat
         /\ IsFiniteSet(Connected(a)') /\ Cardinality(Connected(a)') \in Nat
<1> TAKE a
<1>1. Connected(a) \subseteq Sessions /\ Connected(a)' \subseteq Sessions
  BY DEF Connected
<1> QED
  BY <1>1, GatewayConstants, FS_Subset, FS_CardinalityType

\* A step that changes neither which connections are live, nor their addresses,
\* nor a count, keeps the counts exact.
LEMMA LimitUntouched ==
  ASSUME LimitInv, UNCHANGED <<ip, ip_count>>,
         \A s \in Sessions : conn'[s] \in Live <=> conn[s] \in Live
  PROVE  LimitInv'
<1>1. \A a : Connected(a)' = Connected(a)
  BY DEF Connected, Live
<1> QED
  BY <1>1 DEF LimitInv, PerIpLimitExact

\* An accepted connection is counted for its address alone.
LEMMA AcceptLimit ==
  ASSUME TypeOK, LimitInv, NEW s \in Sessions, NEW a \in Ips, Accept(s, a)
  PROVE  LimitInv'
<1>1. /\ \A t \in Sessions : conn'[t] = IF t = s THEN "open" ELSE conn[t]
      /\ \A t \in Sessions : ip'[t] = IF t = s THEN a ELSE ip[t]
      /\ \A b \in Ips : ip_count'[b] = IF b = a THEN ip_count[b] + 1 ELSE ip_count[b]
      /\ conn[s] = "none" /\ ip_count[a] < MaxConnectionsPerIp
  BY DEF Accept, TypeOK
<1>2. \A b \in Ips : Connected(b)' = IF b = a THEN Connected(b) \cup {s} ELSE Connected(b)
  BY <1>1 DEF Connected
<1>3. s \notin Connected(a)
  BY <1>1 DEF Connected
<1>4. Cardinality(Connected(a) \cup {s}) = Cardinality(Connected(a)) + 1
  BY <1>3, ConnectedFinite, FS_AddElement
<1>5. ASSUME NEW b \in Ips
      PROVE  ip_count'[b] = Cardinality(Connected(b)') /\ ip_count'[b] <= MaxConnectionsPerIp
  <2>1. /\ ip_count[b] = Cardinality(Connected(b)) /\ ip_count[b] <= MaxConnectionsPerIp
        /\ ip_count[b] \in Nat /\ MaxConnectionsPerIp \in Nat
    BY GatewayConstants DEF LimitInv, PerIpLimitExact, TypeOK
  <2>2. CASE b = a
    BY <1>1, <1>2, <1>4, <2>1, <2>2
  <2>3. CASE b # a
    BY <1>1, <1>2, <2>1, <2>3
  <2> QED
    BY <2>2, <2>3
<1> QED
  BY <1>1, <1>5 DEF LimitInv, PerIpLimitExact, Live

\* A connection that ends is given back once, for the address it came from.
LEMMA LeaveLimit ==
  ASSUME TypeOK, LimitInv, NEW s \in Sessions, Leave(s)
  PROVE  LimitInv'
<1>1. /\ \A t \in Sessions : conn'[t] = IF t = s THEN "ended" ELSE conn[t]
      /\ ip' = ip /\ conn[s] = "leaving" /\ ip[s] \in Ips
  BY DEF Leave, TypeOK, LimitInv, Live
<1> DEFINE a == ip[s]
<1>2. \A b \in Ips : Connected(b)' = IF b = a THEN Connected(b) \ {s} ELSE Connected(b)
  BY <1>1 DEF Connected
<1>3. s \in Connected(a)
  BY <1>1 DEF Connected
<1>4. /\ Cardinality(Connected(a) \ {s}) = Cardinality(Connected(a)) - 1
      /\ Cardinality(Connected(a)) # 0
  BY <1>3, ConnectedFinite, FS_RemoveElement, FS_EmptySet
<1>5. ASSUME NEW b \in Ips
      PROVE  ip_count'[b] = Cardinality(Connected(b)') /\ ip_count'[b] <= MaxConnectionsPerIp
  <2>1. /\ ip_count[b] = Cardinality(Connected(b)) /\ ip_count[b] <= MaxConnectionsPerIp
        /\ ip_count[b] \in Nat /\ MaxConnectionsPerIp \in Nat
    BY GatewayConstants DEF LimitInv, PerIpLimitExact, TypeOK
  <2>2. CASE b = a
    <3>1. ip_count'[b] = IF ip_count[b] <= 1 THEN 0 ELSE ip_count[b] - 1
      BY <1>1, <2>2 DEF Leave, TypeOK
    <3>2. ip_count[b] # 0
      BY <1>4, <2>1, <2>2
    <3>3. ip_count'[b] = ip_count[b] - 1
      BY <2>1, <3>1, <3>2
    <3>4. Cardinality(Connected(b)') = Cardinality(Connected(b)) - 1
      BY <1>2, <1>4, <2>2
    <3> QED
      BY <2>1, <3>3, <3>4
  <2>3. CASE b # a
    <3>1. ip_count'[b] = ip_count[b]
      BY <1>1, <2>3 DEF Leave, TypeOK
    <3> QED
      BY <1>2, <2>1, <2>3, <3>1
  <2> QED
    BY <2>2, <2>3
<1> QED
  BY <1>1, <1>5 DEF LimitInv, PerIpLimitExact, Live

\* A restart ends all connections and clears all counts.
LEMMA RestartLimit ==
  ASSUME LimitInv, Restart
  PROVE  LimitInv'
<1>1. \A s \in Sessions : conn'[s] \notin Live
  BY DEF Restart, Live
<1>2. \A a : Connected(a)' = {}
  BY <1>1 DEF Connected, Live
<1>3. \A a \in Ips : ip_count'[a] = 0
  BY DEF Restart
<1> QED
  BY <1>1, <1>2, <1>3, FS_EmptySet, GatewayConstants DEF LimitInv, PerIpLimitExact

\* Whatever way connections end, no address is ever above its limit, nor
\* refused for connections that are gone.
THEOREM PerIpLimitHolds == Spec => []PerIpLimitExact
<1>1. Init => LimitInv
  <2> SUFFICES ASSUME Init PROVE LimitInv
    OBVIOUS
  <2>1. \A s \in Sessions : conn[s] \notin Live
    BY DEF Init, Live
  <2>2. \A a : Connected(a) = {}
    BY <2>1 DEF Connected, Live
  <2>3. \A a \in Ips : ip_count[a] = 0
    BY DEF Init
  <2> QED
    BY <2>1, <2>2, <2>3, FS_EmptySet, GatewayConstants DEF LimitInv, PerIpLimitExact
<1>2. TypeOK /\ LimitInv /\ [Next]_vars => LimitInv'
  <2> SUFFICES ASSUME TypeOK, LimitInv, [Next]_vars PROVE LimitInv'
    OBVIOUS
  <2>1. ASSUME NEW s \in Sessions, NEW a \in Ips, Accept(s, a) PROVE LimitInv'
    BY <2>1, AcceptLimit
  <2>2. ASSUME NEW s \in Sessions, NEW command \in Command, Receive(s, command)
        PROVE  LimitInv'
    BY <2>2, LimitUntouched DEF Receive
  <2>3. ASSUME NEW s \in Sessions, EndOfSession(s) \/ RemoveSession(s) \/ ReadError(s)
        PROVE  LimitInv'
    <3>1. \A t \in Sessions : conn'[t] \in Live <=> conn[t] \in Live
      BY <2>3 DEF EndOfSession, RemoveSession, ReadError, TypeOK, Live
    <3> QED
      BY <2>3, <3>1, LimitUntouched DEF EndOfSession, RemoveSession, ReadError
  <2>4. ASSUME NEW s \in Sessions, Leave(s) PROVE LimitInv'
    BY <2>4, LeaveLimit
  <2>5. CASE Router
    <3>1. UNCHANGED tcpVars
      BY <2>5 DEF Router, Take, Check, CallWorld, CallLogin, CallCharacter, Apply,
         AuthLogout, RouterRemove
    <3> QED
      BY <3>1, LimitUntouched DEF tcpVars
  <2>6. CASE Restart
    BY <2>6, RestartLimit
  <2>7. CASE UNCHANGED vars
    BY <2>7, LimitUntouched DEF vars, tcpVars
  <2> QED
    BY <2>1, <2>2, <2>3, <2>4, <2>5, <2>6, <2>7 DEF Next, Client, ConnectionTask
<1>3. LimitInv => PerIpLimitExact
  BY DEF LimitInv
<1> QED
  BY <1>1, <1>2, <1>3, GatewayTypes, PTL DEF Spec

-----------------------------------------------------------------------------
\* The commands of a session and their order.

\* Queueing a command adds its kind to those of its session.
LEMMA EnqueueKinds ==
  ASSUME TypeOK, NEW s \in Sessions, NEW command, Enqueue(s, command)
  PROVE  /\ QueuedKinds(s)' = QueuedKinds(s) \cup {command.kind}
         /\ \A t \in Sessions \ {s} : QueuedKinds(t)' = QueuedKinds(t)
<1> DEFINE msg == [session_id |-> s, command |-> command]
           n == Len(inbox)
<1>1. /\ n \in Nat /\ DOMAIN inbox = 1..n /\ DOMAIN inbox' = 1..(n + 1)
      /\ \A i \in 1..n : inbox'[i] = inbox[i]
      /\ inbox'[n + 1] = msg
  BY DEF TypeOK, Enqueue
<1>2. msg.session_id = s /\ msg.command.kind = command.kind
  OBVIOUS
<1>3. ASSUME NEW t \in Sessions, NEW kind
      PROVE  kind \in QueuedKinds(t)' <=>
               kind \in QueuedKinds(t) \/ (t = s /\ kind = command.kind)
  <2>1. kind \in QueuedKinds(t)' <=>
          \E i \in 1..(n + 1) : inbox'[i].session_id = t /\ inbox'[i].command.kind = kind
    BY <1>1 DEF QueuedKinds
  <2>2. kind \in QueuedKinds(t) <=>
          \E i \in 1..n : inbox[i].session_id = t /\ inbox[i].command.kind = kind
    BY <1>1 DEF QueuedKinds
  <2>3. 1..(n + 1) = 1..n \cup {n + 1}
    BY <1>1
  <2> HIDE DEF msg
  <2> QED
    BY <1>1, <1>2, <2>1, <2>2, <2>3
<1> QED
  BY <1>3

\* Queueing a command keeps the order if it may follow those of its session.
LEMMA EnqueueOrder ==
  ASSUME TypeOK, InOrder, NEW s \in Sessions, NEW command, Enqueue(s, command),
         \A kind \in QueuedKinds(s) : CanFollow(command.kind, kind)
  PROVE  InOrder'
<1> DEFINE msg == [session_id |-> s, command |-> command]
           n == Len(inbox)
<1>1. /\ n \in Nat /\ DOMAIN inbox = 1..n /\ DOMAIN inbox' = 1..(n + 1)
      /\ \A i \in 1..n : inbox'[i] = inbox[i]
      /\ inbox'[n + 1] = msg
  BY DEF TypeOK, Enqueue
<1>2. msg.session_id = s /\ msg.command.kind = command.kind
  OBVIOUS
<1>3. \A i \in 1..n : inbox[i].session_id = s => inbox[i].command.kind \in QueuedKinds(s)
  BY <1>1 DEF QueuedKinds
<1> HIDE DEF msg
<1>4. ASSUME NEW i \in 1..(n + 1), NEW j \in 1..(n + 1), i < j,
             inbox'[i].session_id = inbox'[j].session_id
      PROVE  CanFollow(inbox'[j].command.kind, inbox'[i].command.kind)
  <2>1. i \in 1..n
    BY <1>1, <1>4
  <2>2. CASE j = n + 1
    BY <1>1, <1>2, <1>3, <1>4, <2>1, <2>2
  <2>3. CASE j \in 1..n
    BY <1>1, <1>4, <2>1, <2>3 DEF InOrder
  <2> QED
    BY <1>1, <2>2, <2>3
<1> QED
  BY <1>1, <1>4 DEF InOrder

\* The command taken from the queue was one of its session's, and those that
\* are left may follow it.
LEMMA TakeKinds ==
  ASSUME TypeOK, InOrder, Take
  PROVE  LET msg == Head(inbox) IN
           /\ InOrder'
           /\ \A t \in Sessions : QueuedKinds(t)' \subseteq QueuedKinds(t)
           /\ msg.command.kind \in QueuedKinds(msg.session_id)
           /\ \A s \in Sessions : s = msg.session_id =>
                \A kind \in QueuedKinds(s)' : CanFollow(kind, msg.command.kind)
<1> DEFINE msg == Head(inbox)
           n == Len(inbox)
<1>1. /\ n \in Nat \ {0} /\ DOMAIN inbox = 1..n /\ DOMAIN inbox' = 1..(n - 1)
      /\ \A i \in 1..(n - 1) : inbox'[i] = inbox[i + 1]
      /\ msg = inbox[1]
  BY DEF TypeOK, Take
<1> HIDE DEF msg
<1>2. InOrder'
  <2> SUFFICES ASSUME NEW i \in 1..(n - 1), NEW j \in 1..(n - 1), i < j,
                      inbox[i + 1].session_id = inbox[j + 1].session_id
               PROVE  CanFollow(inbox[j + 1].command.kind, inbox[i + 1].command.kind)
    BY <1>1 DEF InOrder
  <2>1. i + 1 \in 1..n /\ j + 1 \in 1..n /\ i + 1 < j + 1
    BY <1>1
  <2> QED
    BY <1>1, <2>1 DEF InOrder
<1>3. ASSUME NEW t, NEW kind \in QueuedKinds(t)'
      PROVE  \E j \in 2..n : inbox[j].session_id = t /\ inbox[j].command.kind = kind
  <2>1. PICK i \in 1..(n - 1) : inbox'[i].session_id = t /\ inbox'[i].command.kind = kind
    BY <1>1, <1>3 DEF QueuedKinds
  <2>2. i + 1 \in 2..n /\ inbox'[i] = inbox[i + 1]
    BY <1>1
  <2> QED
    BY <2>1, <2>2
<1>4. ASSUME NEW t \in Sessions, NEW kind \in QueuedKinds(t)'
      PROVE  kind \in QueuedKinds(t)
  <2>1. PICK j \in 2..n : inbox[j].session_id = t /\ inbox[j].command.kind = kind
    BY <1>3, <1>4
  <2>2. j \in DOMAIN inbox
    BY <1>1
  <2> QED
    BY <2>1, <2>2 DEF QueuedKinds
<1>5. msg.command.kind \in QueuedKinds(msg.session_id)
  BY <1>1 DEF QueuedKinds
<1>6. ASSUME NEW s \in Sessions, s = msg.session_id, NEW kind \in QueuedKinds(s)'
      PROVE  CanFollow(kind, msg.command.kind)
  <2>1. PICK j \in 2..n : inbox[j].session_id = s /\ inbox[j].command.kind = kind
    BY <1>3, <1>6
  <2>2. j \in DOMAIN inbox /\ 1 \in DOMAIN inbox /\ 1 < j
    BY <1>1
  <2> QED
    BY <1>1, <1>6, <2>1, <2>2 DEF InOrder
<1> QED
  BY <1>2, <1>4, <1>5, <1>6 DEF msg

-----------------------------------------------------------------------------
\* What a step leaves alone.

\* A session keeps its invariant while its entry and its players stay, whatever
\* of its commands is done with, unless it was being logged out.
LEMMA SessionKept ==
  ASSUME NEW t \in Sessions, SessionInv(t),
         sessions'[t] = sessions[t], presence'[t] = presence[t],
         \A m \in Maps : players'[m][t] = players[m][t],
         db[t] # "none" => db'[t] # "none",
         phase'[t] = phase[t], conn[t] # "none" => conn'[t] # "none",
         PendingKinds(t)' \subseteq PendingKinds(t),
         LoggingOut(t) => LoggingOut(t)'
  PROVE  SessionInv(t)'
<1>1. /\ Known(t)' <=> Known(t)
      /\ IsAuthenticated(t)' <=> IsAuthenticated(t)
      /\ IsInWorld(t)' <=> IsInWorld(t)
      /\ \A m \in Maps : HasPlayer(t, m)' <=> HasPlayer(t, m)
  BY DEF Known, IsAuthenticated, IsInWorld, HasPlayer
<1>2. Entered(t)' <=> Entered(t)
  BY <1>1 DEF Entered
<1>3. AskedFor(t)'
  BY <1>1, <1>2 DEF SessionInv, AskedFor
<1>4. EntryJustified(t)'
  BY <1>1 DEF SessionInv, EntryJustified
<1>5. WorldJustified(t)'
  BY <1>1 DEF SessionInv, WorldJustified
<1> QED
  BY <1>3, <1>4, <1>5 DEF SessionInv

\* A session keeps its invariant when its entry leaves the table.
LEMMA SessionGone ==
  ASSUME NEW t \in Sessions, SessionInv(t),
         sessions'[t] = NoSession, presence'[t] = presence[t],
         \A m \in Maps : players'[m][t] = players[m][t],
         db[t] # "none" => db'[t] # "none",
         phase'[t] = phase[t], conn[t] # "none" => conn'[t] # "none",
         PendingKinds(t)' \subseteq PendingKinds(t)
  PROVE  SessionInv(t)'
<1>1. /\ ~Known(t)' /\ ~IsAuthenticated(t)' /\ ~IsInWorld(t)'
      /\ \A m \in Maps : HasPlayer(t, m)' <=> HasPlayer(t, m)
  BY DEF Known, IsAuthenticated, IsInWorld, HasPlayer
<1>2. Entered(t)' => Entered(t)
  BY <1>1 DEF Entered
<1>3. AskedFor(t)'
  BY <1>1, <1>2 DEF SessionInv, AskedFor
<1>4. EntryJustified(t)' /\ WorldJustified(t)'
  BY <1>1 DEF SessionInv, EntryJustified, WorldJustified
<1> QED
  BY <1>3, <1>4 DEF SessionInv

\* What the router relies on stays true while the entry of its session stays or
\* goes away.
LEMMA RouterKept ==
  ASSUME RouterInv, UNCHANGED <<router, remoteVars>>,
         ~RouterAt("idle") =>
           sessions'[router.session_id] \in {sessions[router.session_id], NoSession}
  PROVE  RouterInv'
<1> SUFFICES ASSUME ~RouterAt("idle") PROVE RouterInv'
  BY DEF RouterInv, RouterAt
<1>1. CASE sessions'[router.session_id] = sessions[router.session_id]
  BY <1>1 DEF RouterInv, RouterAt, Known, IsAuthenticated, IsCharacterSelected,
     HasPlayer, ResolveMapId, remoteVars
<1>2. CASE sessions'[router.session_id] = NoSession
  BY <1>2 DEF RouterInv, RouterAt, Known, HasPlayer, remoteVars
<1> QED
  BY <1>1, <1>2

\* Without a change to queue and router, the commands of a session are the same.
LEMMA KindsKept ==
  ASSUME UNCHANGED <<inbox, router>>
  PROVE  /\ \A t : QueuedKinds(t)' = QueuedKinds(t)
         /\ \A t : PendingKinds(t)' = PendingKinds(t)
         /\ \A t : LoggingOut(t)' <=> LoggingOut(t)
         /\ InOrder => InOrder'
         /\ HandledFirst => HandledFirst'
BY DEF QueuedKinds, PendingKinds, LoggingOut, Handles, RouterAt, InOrder, HandledFirst

-----------------------------------------------------------------------------
\* Steps of clients and connection tasks.

\* What the phase a command is accepted in says, and where it leads.
LEMMA PhaseStep ==
  ASSUME NEW p \in {"PreAuth", "PostAuth", "InCharacterList", "InWorld", "Closed"},
         NEW kind \in Allowed(p)
  PROVE  /\ kind = "Login" => p = "PreAuth"
         /\ kind = "EnterWorld" => p # "PreAuth" /\ NextPhase(p, kind) = "InWorld"
         /\ kind \in CharacterKinds => p \in {"PostAuth", "InCharacterList"}
         /\ p \in {"InWorld", "Closed"} => NextPhase(p, kind) \in {"InWorld", "Closed"}
         /\ p # "PreAuth" \/ kind = "Login" => NextPhase(p, kind) # "PreAuth"
<1>1. CASE p = "PreAuth"
  BY <1>1 DEF Allowed, NextPhase, CharacterKinds
<1>2. CASE p = "PostAuth"
  BY <1>2 DEF Allowed, NextPhase, CharacterKinds
<1>3. CASE p = "InCharacterList"
  BY <1>3 DEF Allowed, NextPhase, CharacterKinds
<1>4. CASE p = "InWorld"
  BY <1>4 DEF Allowed, NextPhase, CharacterKinds
<1>5. CASE p = "Closed"
  BY <1>5 DEF Allowed
<1> QED
  BY <1>1, <1>2, <1>3, <1>4, <1>5

\* The command the router works on is pending for its session.
LEMMA HandledPending ==
  ASSUME ~RouterAt("idle")
  PROVE  router.command.kind \in PendingKinds(router.session_id)
BY DEF PendingKinds, Handles

\* A new connection finds nothing of its session anywhere.
LEMMA AcceptStep ==
  ASSUME GatewayInv, NEW s \in Sessions, NEW a \in Ips, Accept(s, a)
  PROVE  ProtocolInv'
<1>1. /\ TypeOK /\ SessionInv(s) /\ conn[s] = "none"
      /\ UNCHANGED <<inbox, router, remoteVars, phase>>
      /\ \A t \in Sessions \ {s} : sessions'[t] = sessions[t] /\ conn'[t] = conn[t]
      /\ sessions'[s] = FreshSession /\ conn'[s] = "open"
  BY DEF GatewayInv, TypeInv, ProtocolInv, Accept, TypeOK
<1>2. /\ ~Known(s) /\ PendingKinds(s) = {}
      /\ \A m \in Maps : ~HasPlayer(s, m)
  BY <1>1 DEF SessionInv, AskedFor, Entered
<1>3. SessionInv(s)'
  <2>1. /\ ~IsAuthenticated(s)' /\ ~IsInWorld(s)'
        /\ \A m \in Maps : ~HasPlayer(s, m)'
    BY <1>1, <1>2 DEF IsAuthenticated, IsInWorld, HasPlayer, FreshSession, remoteVars
  <2>2. ~Entered(s)'
    BY <2>1 DEF Entered
  <2>3. PendingKinds(s)' = {}
    BY <1>1, <1>2, KindsKept
  <2>4. AskedFor(s)'
    BY <1>1, <2>2, <2>3 DEF AskedFor
  <2>5. EntryJustified(s)'
    BY <1>1, <2>1 DEF EntryJustified, FreshSession
  <2>6. WorldJustified(s)'
    BY <1>1, <2>1 DEF SessionInv, WorldJustified, remoteVars
  <2> QED
    BY <2>4, <2>5, <2>6 DEF SessionInv
<1>4. ASSUME NEW t \in Sessions \ {s} PROVE SessionInv(t)'
  <2>1. SessionInv(t)
    BY DEF GatewayInv, ProtocolInv
  <2> QED
    BY <1>1, <2>1, KindsKept, SessionKept DEF remoteVars
<1>5. RouterInv'
  <2>1. ~RouterAt("idle") => router.session_id \in Sessions \ {s}
    BY <1>1, <1>2, HandledPending, RouterShape
  <2> QED
    BY <1>1, <2>1, RouterKept DEF GatewayInv, ProtocolInv
<1> QED
  BY <1>1, <1>3, <1>4, <1>5, KindsKept DEF GatewayInv, ProtocolInv

\* Queueing a command that may follow those of its session keeps the order.
LEMMA EnqueueFits ==
  ASSUME TypeOK, InOrder, HandledFirst, NEW s \in Sessions,
         NEW command, Enqueue(s, command), UNCHANGED router,
         \A kind \in PendingKinds(s) : CanFollow(command.kind, kind)
  PROVE  /\ InOrder' /\ HandledFirst'
         /\ PendingKinds(s)' = PendingKinds(s) \cup {command.kind}
         /\ \A t \in Sessions \ {s} : PendingKinds(t)' = PendingKinds(t)
         /\ \A t : LoggingOut(t)' <=> LoggingOut(t)
<1>1. InOrder'
  BY EnqueueOrder DEF PendingKinds
<1>2. /\ PendingKinds(s)' = PendingKinds(s) \cup {command.kind}
      /\ \A t \in Sessions \ {s} : PendingKinds(t)' = PendingKinds(t)
      /\ \A t : LoggingOut(t)' <=> LoggingOut(t)
  BY EnqueueKinds DEF PendingKinds, LoggingOut, Handles, RouterAt
<1>3. HandledFirst'
  <2> SUFFICES ASSUME ~RouterAt("idle"), NEW kind \in QueuedKinds(router.session_id)'
               PROVE  CanFollow(kind, router.command.kind)
    BY DEF HandledFirst, RouterAt
  <2>1. PICK t \in Sessions : t = router.session_id
    BY RouterShape
  <2>2. kind \in QueuedKinds(t)'
    BY <2>1
  <2>3. CASE t = s
    BY <2>1, <2>2, <2>3, EnqueueKinds, HandledPending DEF HandledFirst
  <2>4. CASE t # s
    BY <2>1, <2>2, <2>4, EnqueueKinds DEF HandledFirst
  <2> QED
    BY <2>3, <2>4
<1> QED
  BY <1>1, <1>2, <1>3

\* A command the phase allows fits in behind those of its session.
LEMMA ReceiveStep ==
  ASSUME GatewayInv, NEW s \in Sessions, NEW command \in Command, Receive(s, command)
  PROVE  ProtocolInv'
<1> DEFINE kind == command.kind
           next == NextPhase(phase[s], kind)
<1>1. /\ TypeOK /\ InOrder /\ HandledFirst /\ RouterInv /\ SessionInv(s)
      /\ conn[s] = "open" /\ kind \in Allowed(phase[s])
      /\ Enqueue(s, command)
      /\ UNCHANGED <<conn, sessions, router, remoteVars>>
      /\ phase'[s] = next
      /\ \A t \in Sessions \ {s} : phase'[t] = phase[t]
      /\ phase[s] \in {"PreAuth", "PostAuth", "InCharacterList", "InWorld", "Closed"}
  BY DEF GatewayInv, TypeInv, ProtocolInv, Receive, TypeOK
<1>2. /\ kind = "Login" => phase[s] = "PreAuth"
      /\ kind = "EnterWorld" => phase[s] # "PreAuth" /\ next = "InWorld"
      /\ kind \in CharacterKinds => phase[s] \in {"PostAuth", "InCharacterList"}
      /\ phase[s] \in {"InWorld", "Closed"} => next \in {"InWorld", "Closed"}
      /\ phase[s] # "PreAuth" \/ kind = "Login" => next # "PreAuth"
  BY <1>1, PhaseStep
<1> HIDE DEF next
<1>3. \A first \in PendingKinds(s) : CanFollow(kind, first)
  BY <1>1, <1>2 DEF SessionInv, AskedFor, CanFollow
<1>4. /\ InOrder' /\ HandledFirst'
      /\ PendingKinds(s)' = PendingKinds(s) \cup {kind}
      /\ \A t \in Sessions \ {s} : PendingKinds(t)' = PendingKinds(t)
      /\ \A t : LoggingOut(t)' <=> LoggingOut(t)
  BY <1>1, <1>3, EnqueueFits
<1>5. SessionInv(s)'
  <2>1. /\ Known(s)' <=> Known(s)
        /\ IsAuthenticated(s)' <=> IsAuthenticated(s)
        /\ IsInWorld(s)' <=> IsInWorld(s)
        /\ Entered(s)' <=> Entered(s)
        /\ \A m \in Maps : HasPlayer(s, m)' <=> HasPlayer(s, m)
    BY <1>1 DEF Known, IsAuthenticated, IsInWorld, Entered, HasPlayer, remoteVars
  <2>2. IsAuthenticated(s) => phase[s] # "PreAuth"
    BY <1>1 DEF SessionInv, EntryJustified, IsAuthenticated
  <2>3. AskedFor(s)'
    BY <1>1, <1>2, <1>4, <2>1, <2>2 DEF SessionInv, AskedFor
  <2>4. EntryJustified(s)'
    BY <1>1, <1>2, <1>4, <2>1 DEF SessionInv, EntryJustified, remoteVars
  <2>5. WorldJustified(s)'
    BY <1>1, <2>1 DEF SessionInv, WorldJustified, remoteVars
  <2> QED
    BY <2>3, <2>4, <2>5 DEF SessionInv
<1>6. ASSUME NEW t \in Sessions \ {s} PROVE SessionInv(t)'
  <2>1. SessionInv(t)
    BY DEF GatewayInv, ProtocolInv
  <2> QED
    BY <1>1, <1>4, <2>1, SessionKept DEF remoteVars
<1>7. RouterInv'
  BY <1>1, RouterKept
<1> QED
  BY <1>4, <1>5, <1>6, <1>7 DEF ProtocolInv

\* The end of a session queues one command more; that the session leaves the
\* table, or that the task ends, takes nothing anyone relies on.
LEMMA EndingStep ==
  ASSUME GatewayInv, NEW s \in Sessions,
         EndOfSession(s) \/ RemoveSession(s) \/ ReadError(s) \/ Leave(s)
  PROVE  ProtocolInv'
<1>1. /\ TypeOK /\ InOrder /\ HandledFirst /\ RouterInv
      /\ UNCHANGED <<router, remoteVars, phase>>
      /\ \A t \in Sessions : conn'[t] # "none" \/ conn'[t] = conn[t]
  BY DEF GatewayInv, TypeInv, ProtocolInv, EndOfSession, RemoveSession, ReadError,
     Leave, TypeOK
<1>2. CASE EndOfSession(s)
  <2> DEFINE command == [kind |-> "Disconnect"]
  <2>1. Enqueue(s, command) /\ UNCHANGED sessions /\ conn[s] = "open"
    BY <1>2 DEF EndOfSession
  <2>2. \A first : CanFollow(command.kind, first)
    BY DEF CanFollow, CharacterKinds
  <2>3. /\ InOrder' /\ HandledFirst'
        /\ PendingKinds(s)' = PendingKinds(s) \cup {command.kind}
        /\ \A t \in Sessions \ {s} : PendingKinds(t)' = PendingKinds(t)
        /\ \A t : LoggingOut(t)' <=> LoggingOut(t)
    BY <1>1, <2>1, <2>2, EnqueueFits
  <2>4. SessionInv(s)'
    <3>1. SessionInv(s) /\ conn'[s] # "none"
      BY <1>2 DEF GatewayInv, TypeInv, TypeOK, ProtocolInv, EndOfSession
    <3>2. /\ Known(s)' <=> Known(s)
          /\ IsAuthenticated(s)' <=> IsAuthenticated(s)
          /\ IsInWorld(s)' <=> IsInWorld(s)
          /\ Entered(s)' <=> Entered(s)
          /\ \A m \in Maps : HasPlayer(s, m)' <=> HasPlayer(s, m)
      BY <1>1, <2>1 DEF Known, IsAuthenticated, IsInWorld, Entered, HasPlayer, remoteVars
    <3>3. AskedFor(s)'
      BY <1>1, <2>3, <3>1, <3>2 DEF SessionInv, AskedFor, CharacterKinds
    <3>4. EntryJustified(s)'
      BY <1>1, <2>1, <2>3, <3>1, <3>2 DEF SessionInv, EntryJustified, remoteVars
    <3>5. WorldJustified(s)'
      BY <1>1, <3>1, <3>2 DEF SessionInv, WorldJustified, remoteVars
    <3> QED
      BY <3>3, <3>4, <3>5 DEF SessionInv
  <2>5. ASSUME NEW t \in Sessions \ {s} PROVE SessionInv(t)'
    <3>1. SessionInv(t)
      BY DEF GatewayInv, ProtocolInv
    <3> QED
      BY <1>1, <2>1, <2>3, <3>1, SessionKept DEF remoteVars
  <2> QED
    BY <1>1, <2>1, <2>3, <2>4, <2>5, RouterKept DEF ProtocolInv
<1>3. CASE RemoveSession(s) \/ ReadError(s) \/ Leave(s)
  <2>1. /\ UNCHANGED inbox
        /\ \A t \in Sessions : sessions'[t] \in {sessions[t], NoSession}
    BY <1>1, <1>3 DEF RemoveSession, ReadError, Leave, TypeOK
  <2>2. ASSUME NEW t \in Sessions PROVE SessionInv(t)'
    <3>1. SessionInv(t)
      BY DEF GatewayInv, ProtocolInv
    <3> QED
      BY <1>1, <2>1, <3>1, KindsKept, SessionKept, SessionGone DEF remoteVars
  <2>3. RouterInv'
    BY <1>1, <2>1, RouterKept, RouterShape
  <2> QED
    BY <1>1, <2>1, <2>2, <2>3, KindsKept DEF ProtocolInv
<1> QED
  BY <1>2, <1>3

-----------------------------------------------------------------------------
\* Steps of the router.

\* A router that is done with its command frees it.
LEMMA RouterFreed ==
  ASSUME InOrder, Done, UNCHANGED inbox
  PROVE  /\ \A t : PendingKinds(t)' = QueuedKinds(t)
         /\ \A t : ~LoggingOut(t)'
         /\ InOrder' /\ HandledFirst' /\ RouterInv'
<1>1. RouterAt("idle")'
  BY DEF Done, RouterAt, IdleRouter
<1> QED
  BY <1>1 DEF PendingKinds, LoggingOut, Handles, QueuedKinds, InOrder, HandledFirst,
     RouterInv

\* A router that goes on to another step keeps its command.
LEMMA RouterMoved ==
  ASSUME InOrder, HandledFirst, ~RouterAt("idle"), ~RouterAt("idle")', UNCHANGED inbox,
         router'.session_id = router.session_id, router'.command = router.command
  PROVE  /\ \A t : PendingKinds(t)' = PendingKinds(t)
         /\ \A t : LoggingOut(t)' <=>
                     t = router.session_id /\ router'.pc \in {"authLogout", "remove"}
         /\ InOrder' /\ HandledFirst'
BY DEF PendingKinds, LoggingOut, Handles, QueuedKinds, InOrder, HandledFirst

\* A step of the router that leaves tables and services alone and is done with
\* its command, or goes on to log its session out.
LEMMA RouterStepKept ==
  ASSUME GatewayInv, ~RouterAt("idle"),
         UNCHANGED <<tcpVars, sessions, inbox, presence, players>>,
         \A t \in Sessions : db[t] # "none" => db'[t] # "none",
         \/ Done /\ ~RouterAt("authLogout") /\ ~RouterAt("remove")
         \/ Goto("authLogout") \/ Goto("remove")
  PROVE  ProtocolInv'
<1>1. TypeOK /\ InOrder /\ HandledFirst /\ RouterInv
  BY DEF GatewayInv, TypeInv, ProtocolInv
<1>2. /\ \A t \in Sessions : PendingKinds(t)' \subseteq PendingKinds(t)
      /\ \A t \in Sessions : LoggingOut(t) => LoggingOut(t)'
      /\ InOrder' /\ HandledFirst' /\ RouterInv'
  <2>1. CASE Done /\ ~RouterAt("authLogout") /\ ~RouterAt("remove")
    BY <1>1, <2>1, RouterFreed DEF PendingKinds, LoggingOut, RouterAt
  <2>2. ASSUME NEW pc \in {"authLogout", "remove"}, Goto(pc)
        PROVE  /\ \A t \in Sessions : PendingKinds(t)' \subseteq PendingKinds(t)
               /\ \A t \in Sessions : LoggingOut(t) => LoggingOut(t)'
               /\ InOrder' /\ HandledFirst' /\ RouterInv'
    <3>1. /\ router'.pc = pc
          /\ router'.session_id = router.session_id
          /\ router'.command = router.command
          /\ router'.map_id = router.map_id
      BY <1>1, <2>2, GotoType DEF RouterPc
    <3>2. ~RouterAt("idle")' /\ ~RouterAt("call")' /\ ~RouterAt("apply")'
      BY <3>1 DEF RouterAt
    <3>3. RouterInv'
      BY <1>1, <3>1, <3>2 DEF RouterInv, Known, ResolveMapId
    <3> QED
      BY <1>1, <3>1, <3>2, <3>3, RouterMoved DEF LoggingOut, Handles
  <2> QED
    BY <2>1, <2>2
<1>3. ASSUME NEW t \in Sessions PROVE SessionInv(t)'
  <2>1. SessionInv(t)
    BY DEF GatewayInv, ProtocolInv
  <2> QED
    BY <1>2, <2>1, SessionKept DEF tcpVars
<1> QED
  BY <1>2, <1>3 DEF ProtocolInv

\* The command taken is of a session whose entry is as the router finds it.
LEMMA TakeStep ==
  ASSUME GatewayInv, Take
  PROVE  ProtocolInv'
<1> DEFINE msg == Head(inbox)
<1>1. /\ TypeOK /\ InOrder
      /\ RouterAt("idle")
      /\ UNCHANGED <<tcpVars, sessions, remoteVars>>
  BY DEF GatewayInv, TypeInv, ProtocolInv, Take
<1>2. msg \in InternalCommand
  BY <1>1, TakeType
<1>3. PICK s \in Sessions : s = msg.session_id
  BY <1>2 DEF InternalCommand
<1>4. PICK first \in {"authLogout", "call", "check"} :
        /\ router' = [pc |-> first, session_id |-> s, command |-> msg.command,
                      map_id |-> ResolveMapId(s)]
        /\ first = "call" <=> msg.command.kind \in {"Login", "Heartbeat", "Logout"}
  BY <1>3 DEF Take
<1>5. /\ InOrder'
      /\ \A t \in Sessions : QueuedKinds(t)' \subseteq QueuedKinds(t)
      /\ msg.command.kind \in QueuedKinds(s)
      /\ \A kind \in QueuedKinds(s)' : CanFollow(kind, msg.command.kind)
  BY <1>1, <1>3, TakeKinds
<1> HIDE DEF msg
<1>6. /\ ~RouterAt("idle")' /\ router'.session_id = s /\ router'.pc = first
      /\ router'.command.kind = msg.command.kind /\ router'.map_id = ResolveMapId(s)
  BY <1>4 DEF RouterAt
<1>7. HandledFirst'
  BY <1>5, <1>6 DEF HandledFirst
<1>8. RouterInv'
  BY <1>1, <1>4, <1>6 DEF RouterInv, RouterAt, ResolveMapId, Known, CharacterKinds
<1>9. ASSUME NEW t \in Sessions PROVE SessionInv(t)'
  <2>1. SessionInv(t) /\ ~LoggingOut(t)
    BY <1>1 DEF GatewayInv, ProtocolInv, LoggingOut, Handles
  <2>2. PendingKinds(t)' \subseteq PendingKinds(t)
    BY <1>5, <1>6 DEF PendingKinds, Handles
  <2> QED
    BY <1>1, <2>1, <2>2, SessionKept DEF tcpVars, remoteVars
<1> QED
  BY <1>5, <1>7, <1>8, <1>9 DEF ProtocolInv

\* What the check admits is what the call needs.
LEMMA CheckStep ==
  ASSUME GatewayInv, Check
  PROVE  ProtocolInv'
<1>1. /\ TypeOK /\ InOrder /\ HandledFirst /\ RouterInv
      /\ RouterAt("check") /\ ~RouterAt("idle")
      /\ UNCHANGED <<tcpVars, sessions, inbox, remoteVars>>
  BY DEF GatewayInv, TypeInv, ProtocolInv, Check, RouterAt
<1>2. PICK s \in Sessions : s = router.session_id
  BY <1>1, RouterShape
<1> DEFINE kind == router.command.kind
<1>3. SessionInv(s) /\ kind \in {"Browse", "EnterWorld", "Play"} \cup CharacterKinds
  BY <1>1 DEF GatewayInv, TypeInv, ProtocolInv, RouterKinds
<1>4. CASE Done
  BY <1>1, <1>4, RouterStepKept DEF RouterAt, remoteVars
<1>5. CASE Goto("call") /\ Admitted(s, kind)
  <2>1. /\ router'.pc = "call" /\ ~RouterAt("idle")'
        /\ router'.session_id = s
        /\ router'.command = router.command
        /\ router'.map_id = router.map_id
    BY <1>1, <1>2, <1>5, GotoType DEF RouterPc, RouterAt
  <2>2. /\ \A t \in Sessions : PendingKinds(t)' = PendingKinds(t)
        /\ InOrder' /\ HandledFirst'
    BY <1>1, <1>2, <2>1, RouterMoved
  <2>3. IsAuthenticated(s) /\ Known(s)
    BY <1>3, <1>5 DEF Admitted, IsCharacterSelected, IsInWorld, IsAuthenticated,
       CharacterKinds
  <2>4. kind \notin CharacterKinds => router.map_id = ResolveMapId(s)
    BY <1>1, <1>2, <2>3 DEF RouterInv
  <2>5. kind = "EnterWorld" =>
          /\ db[s] # "none" /\ IsCharacterSelected(s)
          /\ \A m \in Maps : HasPlayer(s, m) => m = router.map_id
    <3> SUFFICES ASSUME kind = "EnterWorld"
                 PROVE  /\ db[s] # "none" /\ IsCharacterSelected(s)
                        /\ \A m \in Maps : HasPlayer(s, m) => m = router.map_id
      OBVIOUS
    <3>1. /\ IsCharacterSelected(s) /\ db[s] # "none" /\ sessions[s].map_id # NoMap
          /\ \A m \in Maps : HasPlayer(s, m) => m = sessions[s].map_id
      BY <1>3, <1>5, <2>3 DEF Admitted, SessionInv, EntryJustified,
         IsCharacterSelected, IsAuthenticated
    <3>2. router.map_id = sessions[s].map_id
      BY <2>3, <2>4, <3>1 DEF ResolveMapId, CharacterKinds
    <3> QED
      BY <3>1, <3>2
  <2>6. kind = "Play" => HasPlayer(s, router.map_id)
    <3> SUFFICES ASSUME kind = "Play" PROVE HasPlayer(s, router.map_id)
      OBVIOUS
    <3>1. /\ IsInWorld(s) /\ ~LoggingOut(s) /\ sessions[s].map_id # NoMap
          /\ \E m \in Maps : HasPlayer(s, m)
          /\ \A m \in Maps : HasPlayer(s, m) => m = sessions[s].map_id
      BY <1>1, <1>3, <1>5, <2>3 DEF Admitted, SessionInv, EntryJustified,
         IsInWorld, LoggingOut, RouterAt
    <3> QED
      BY <2>3, <2>4, <3>1 DEF ResolveMapId, CharacterKinds
  <2>7. RouterInv'
    <3>1. /\ IsAuthenticated(s)' <=> IsAuthenticated(s)
          /\ IsCharacterSelected(s)' <=> IsCharacterSelected(s)
          /\ ResolveMapId(s)' = ResolveMapId(s)
          /\ \A m : HasPlayer(s, m)' <=> HasPlayer(s, m)
          /\ db'[s] = db[s]
      BY <1>1 DEF IsAuthenticated, IsCharacterSelected, Known, ResolveMapId, HasPlayer,
         remoteVars
    <3>2. ~RouterAt("apply")'
      BY <2>1 DEF RouterAt
    <3> QED
      BY <2>1, <2>3, <2>4, <2>5, <2>6, <3>1, <3>2 DEF RouterInv
  <2>8. ASSUME NEW t \in Sessions PROVE SessionInv(t)'
    <3>1. SessionInv(t) /\ ~LoggingOut(t)
      BY <1>1 DEF GatewayInv, ProtocolInv, LoggingOut, RouterAt
    <3> QED
      BY <1>1, <2>2, <3>1, SessionKept DEF tcpVars, remoteVars
  <2> QED
    BY <2>2, <2>7, <2>8 DEF ProtocolInv
<1> QED
  BY <1>2, <1>4, <1>5 DEF Check

\* A call leaves a session that is not the router's as it is.
LEMMA CallElsewhere ==
  ASSUME GatewayInv, NEW s \in Sessions, NEW m \in Maps, NEW kind, NEW character,
         WorldEffect(s, m, kind, character),
         NEW t \in Sessions \ {s}
  PROVE  /\ presence'[t] = presence[t]
         /\ \A n \in Maps : players'[n][t] = players[n][t]
<1>0. TypeOK
  BY DEF GatewayInv, TypeInv
<1>1. CASE kind = "EnterWorld"
  <2>1. /\ presence' = [presence EXCEPT ![s] = m]
        /\ players' = [players EXCEPT ![m][s] = character]
    BY <1>1 DEF WorldEffect
  <2> QED
    BY <1>0, <2>1 DEF TypeOK
<1>2. CASE kind = "Logout"
  <2>1. /\ presence' = [presence EXCEPT ![s] = NoMap]
        /\ players' = [players EXCEPT ![m][s] = Absent]
    BY <1>2 DEF WorldEffect
  <2> QED
    BY <1>0, <2>1 DEF TypeOK
<1>3. CASE kind \notin {"EnterWorld", "Logout"}
  BY <1>3 DEF WorldEffect
<1> QED
  BY <1>1, <1>2, <1>3

\* EnterWorld makes a player on the one map its session may have a player on.
LEMMA EnterStep ==
  ASSUME GatewayInv, RouterAt("call"), router.command.kind = "EnterWorld",
         WorldEffect(router.session_id, router.map_id, "EnterWorld",
                     CharacterOf(router.session_id)),
         Goto("apply") \/ Done,
         UNCHANGED <<tcpVars, sessions, inbox, db>>
  PROVE  ProtocolInv'
<1>1. TypeOK /\ InOrder /\ HandledFirst /\ RouterInv /\ ~RouterAt("idle")
  BY DEF GatewayInv, TypeInv, ProtocolInv, RouterAt
<1>2. PICK s \in Sessions : s = router.session_id
  BY <1>1, RouterShape
<1>3. PICK m \in Maps : m = router.map_id
  BY <1>1, RouterShape
<1>4. SessionInv(s)
  BY DEF GatewayInv, ProtocolInv
<1>5. /\ presence' = [presence EXCEPT ![s] = m]
      /\ players' = [players EXCEPT ![m][s] = CharacterOf(s)]
  BY <1>2, <1>3 DEF WorldEffect
<1>6. CharacterOf(s) # Absent
  BY <1>1, GatewayConstants DEF TypeOK, CharacterOf, Known, SessionRuntime
<1>7. /\ HasPlayer(s, m)'
      /\ \A n \in Maps \ {m} : HasPlayer(s, n)' <=> HasPlayer(s, n)
  BY <1>1, <1>5, <1>6 DEF HasPlayer, TypeOK
<1>8. /\ db[s] # "none"
      /\ \A n \in Maps : HasPlayer(s, n) => n = m
      /\ Known(s) => IsCharacterSelected(s) /\ m = ResolveMapId(s)
  BY <1>1, <1>2, <1>3 DEF RouterInv, CharacterKinds
<1>9. \A n \in Maps : HasPlayer(s, n)' => n = m
  BY <1>7, <1>8
<1>10. /\ \A t : PendingKinds(t)' \subseteq PendingKinds(t)
       /\ \A t : ~LoggingOut(t) /\ ~LoggingOut(t)'
       /\ InOrder' /\ HandledFirst'
  <2>1. \A t : ~LoggingOut(t)
    BY DEF LoggingOut, RouterAt
  <2>2. CASE Done
    BY <1>1, <2>1, <2>2, RouterFreed DEF PendingKinds
  <2>3. CASE Goto("apply")
    <3>1. /\ router'.pc = "apply" /\ ~RouterAt("idle")'
          /\ router'.session_id = router.session_id /\ router'.command = router.command
      BY <1>1, <2>3, GotoType DEF RouterPc, RouterAt
    <3> QED
      BY <1>1, <2>1, <3>1, RouterMoved
  <2> QED
    BY <2>2, <2>3
<1>11. /\ Known(s)' <=> Known(s)
       /\ IsAuthenticated(s)' <=> IsAuthenticated(s)
       /\ IsInWorld(s)' <=> IsInWorld(s)
       /\ IsCharacterSelected(s)' <=> IsCharacterSelected(s)
       /\ ResolveMapId(s)' = ResolveMapId(s)
  BY DEF Known, IsAuthenticated, IsInWorld, IsCharacterSelected, ResolveMapId
<1>12. SessionInv(s)'
  <2>1. "EnterWorld" \in PendingKinds(s)
    BY <1>1, <1>2, HandledPending
  <2>2. /\ conn[s] # "none" /\ phase[s] \in {"InWorld", "Closed"}
        /\ "Login" \notin QueuedKinds(s) /\ QueuedKinds(s) \cap CharacterKinds = {}
    BY <1>1, <1>2, <1>4, <2>1 DEF SessionInv, AskedFor, HandledFirst, CanFollow
  <2>3. PendingKinds(s) = QueuedKinds(s) \cup {"EnterWorld"}
    BY <1>1, <1>2 DEF PendingKinds, Handles
  <2>4. AskedFor(s)'
    BY <1>10, <2>2, <2>3 DEF AskedFor, tcpVars, CharacterKinds
  <2>5. Known(s) => sessions[s].map_id = m
    BY <1>4, <1>8 DEF SessionInv, EntryJustified, IsCharacterSelected, ResolveMapId
  <2>6. EntryJustified(s)'
    BY <1>3, <1>4, <1>7, <1>9, <1>11, <2>5 DEF SessionInv, EntryJustified, tcpVars
  <2>7. WorldJustified(s)'
    BY <1>1, <1>5, <1>8, <1>9 DEF WorldJustified, TypeOK
  <2> QED
    BY <2>4, <2>6, <2>7 DEF SessionInv
<1>13. ASSUME NEW t \in Sessions \ {s} PROVE SessionInv(t)'
  <2>1. SessionInv(t)
    BY DEF GatewayInv, ProtocolInv
  <2>2. /\ presence'[t] = presence[t]
        /\ \A n \in Maps : players'[n][t] = players[n][t]
    BY <1>2, <1>3, CallElsewhere
  <2> QED
    BY <1>10, <2>1, <2>2, SessionKept DEF tcpVars
<1>14. RouterInv'
  <2>1. CASE Done
    BY <1>1, <2>1, RouterFreed
  <2>2. CASE Goto("apply")
    <3>1. /\ router'.pc = "apply" /\ ~RouterAt("call")'
          /\ router'.session_id = s /\ router'.map_id = m
          /\ router'.command.kind = "EnterWorld"
      BY <1>1, <1>2, <1>3, <2>2, GotoType DEF RouterPc, RouterAt
    <3> QED
      BY <1>7, <1>8, <1>11, <3>1 DEF RouterInv, CharacterKinds
  <2> QED
    BY <2>1, <2>2
<1> QED
  BY <1>10, <1>12, <1>13, <1>14 DEF ProtocolInv

\* Logout takes the player of its session away before the entry goes.
LEMMA LogoutStep ==
  ASSUME GatewayInv, RouterAt("call"),
         WorldEffect(router.session_id, router.map_id, "Logout",
                     CharacterOf(router.session_id)),
         Goto("authLogout"),
         UNCHANGED <<tcpVars, sessions, inbox, db>>
  PROVE  ProtocolInv'
<1>1. TypeOK /\ InOrder /\ HandledFirst /\ RouterInv /\ ~RouterAt("idle")
  BY DEF GatewayInv, TypeInv, ProtocolInv, RouterAt
<1>2. PICK s \in Sessions : s = router.session_id
  BY <1>1, RouterShape
<1>3. PICK m \in Maps : m = router.map_id
  BY <1>1, RouterShape
<1>4. SessionInv(s)
  BY DEF GatewayInv, ProtocolInv
<1>5. /\ presence' = [presence EXCEPT ![s] = NoMap]
      /\ players' = [players EXCEPT ![m][s] = Absent]
  BY <1>2, <1>3 DEF WorldEffect
<1>6. \A n \in Maps : HasPlayer(s, n)' => HasPlayer(s, n)
  BY <1>1, <1>5 DEF HasPlayer, TypeOK
<1>7. /\ router'.pc = "authLogout" /\ ~RouterAt("idle")'
      /\ ~RouterAt("call")' /\ ~RouterAt("apply")'
      /\ router'.session_id = s /\ router'.map_id = m
      /\ router'.command = router.command
  BY <1>1, <1>2, <1>3, GotoType DEF RouterPc, RouterAt
<1>8. /\ \A t : PendingKinds(t)' = PendingKinds(t)
      /\ \A t : LoggingOut(t)' <=> t = s
      /\ InOrder' /\ HandledFirst'
  BY <1>1, <1>2, <1>7, RouterMoved
<1>9. /\ Known(s)' <=> Known(s)
      /\ IsAuthenticated(s)' <=> IsAuthenticated(s)
      /\ IsInWorld(s)' <=> IsInWorld(s)
      /\ ResolveMapId(s)' = ResolveMapId(s)
  BY DEF Known, IsAuthenticated, IsInWorld, ResolveMapId
<1>10. Entered(s)' => Entered(s)
  BY <1>6, <1>9 DEF Entered
<1>11. SessionInv(s)'
  <2>1. AskedFor(s)'
    BY <1>4, <1>8, <1>9, <1>10 DEF SessionInv, AskedFor, tcpVars
  <2>2. EntryJustified(s)'
    BY <1>4, <1>6, <1>8, <1>9 DEF SessionInv, EntryJustified, tcpVars
  <2>3. WorldJustified(s)'
    BY <1>1, <1>4, <1>5, <1>6 DEF SessionInv, WorldJustified, TypeOK
  <2> QED
    BY <2>1, <2>2, <2>3 DEF SessionInv
<1>12. ASSUME NEW t \in Sessions \ {s} PROVE SessionInv(t)'
  <2>1. SessionInv(t) /\ ~LoggingOut(t)
    BY DEF GatewayInv, ProtocolInv, LoggingOut, RouterAt
  <2>2. /\ presence'[t] = presence[t]
        /\ \A n \in Maps : players'[n][t] = players[n][t]
    BY <1>2, <1>3, CallElsewhere
  <2> QED
    BY <1>8, <2>1, <2>2, SessionKept DEF tcpVars
<1>13. RouterInv'
  BY <1>1, <1>2, <1>3, <1>7, <1>9 DEF RouterInv
<1> QED
  BY <1>8, <1>11, <1>12, <1>13 DEF ProtocolInv

\* A call to the world-service, carried out or not, answered or not.
LEMMA CallWorldStep ==
  ASSUME GatewayInv, NEW delivered \in BOOLEAN, NEW replied \in BOOLEAN,
         CallWorld(delivered, replied)
  PROVE  ProtocolInv'
<1> DEFINE kind == router.command.kind
<1>1. /\ RouterAt("call") /\ ~RouterAt("idle")
      /\ ~RouterAt("authLogout") /\ ~RouterAt("remove")
      /\ UNCHANGED <<tcpVars, sessions, inbox, db>>
      /\ kind \in {"EnterWorld", "Play", "Heartbeat", "Logout"}
  BY DEF CallWorld, RouterAt
<1>2. IF kind = "Logout" THEN Goto("authLogout")
      ELSE IF kind = "EnterWorld" /\ replied THEN Goto("apply")
      ELSE Done
  BY DEF CallWorld
<1>3. delivered => WorldEffect(router.session_id, router.map_id, kind,
                               CharacterOf(router.session_id))
  BY DEF CallWorld
<1>4. CASE delivered /\ kind = "EnterWorld"
  BY <1>1, <1>2, <1>3, <1>4, EnterStep
<1>5. CASE delivered /\ kind = "Logout"
  BY <1>1, <1>2, <1>3, <1>5, LogoutStep
<1>6. CASE ~delivered \/ kind \in {"Play", "Heartbeat"}
  <2>1. UNCHANGED <<presence, players>>
    BY <1>3, <1>6 DEF CallWorld, WorldEffect
  <2>2. Goto("authLogout") \/ Done
    BY <1>2, <1>6 DEF CallWorld
  <2> QED
    BY <1>1, <2>1, <2>2, RouterStepKept
<1> QED
  BY <1>1, <1>4, <1>5, <1>6

\* Login: the stored session is open before the entry is authenticated.
LEMMA CallLoginStep ==
  ASSUME GatewayInv, NEW accepted \in BOOLEAN, NEW replied \in BOOLEAN,
         CallLogin(accepted, replied)
  PROVE  ProtocolInv'
<1>1. /\ TypeOK /\ InOrder /\ HandledFirst /\ RouterInv
      /\ RouterAt("call") /\ ~RouterAt("idle")
      /\ ~RouterAt("authLogout") /\ ~RouterAt("remove")
      /\ router.command.kind = "Login"
      /\ UNCHANGED <<tcpVars, sessions, inbox, presence, players>>
  BY DEF GatewayInv, TypeInv, ProtocolInv, CallLogin, RouterAt
<1>2. \A t \in Sessions : db[t] # "none" => db'[t] # "none"
  BY <1>1 DEF CallLogin, TypeOK
<1>3. CASE Done
  BY <1>1, <1>2, <1>3, RouterStepKept
<1>4. CASE Goto("apply") /\ accepted
  <2>1. PICK s \in Sessions : s = router.session_id
    BY <1>1, RouterShape
  <2>2. /\ router'.pc = "apply" /\ ~RouterAt("idle")' /\ ~RouterAt("call")'
        /\ router'.session_id = s /\ router'.map_id = router.map_id
        /\ router'.command = router.command
    BY <1>1, <1>4, <2>1, GotoType DEF RouterPc, RouterAt
  <2>3. /\ \A t : PendingKinds(t)' = PendingKinds(t)
        /\ InOrder' /\ HandledFirst'
    BY <1>1, <2>1, <2>2, RouterMoved
  <2>4. db'[s] # "none"
    BY <1>1, <1>4, <2>1 DEF CallLogin, TypeOK
  <2>5. (Known(s)' <=> Known(s)) /\ ResolveMapId(s)' = ResolveMapId(s)
    BY <1>1 DEF Known, ResolveMapId
  <2>6. RouterInv'
    BY <1>1, <2>1, <2>2, <2>4, <2>5 DEF RouterInv, CharacterKinds
  <2>7. ASSUME NEW t \in Sessions PROVE SessionInv(t)'
    <3>1. SessionInv(t) /\ ~LoggingOut(t)
      BY <1>1 DEF GatewayInv, ProtocolInv, LoggingOut, RouterAt
    <3> QED
      BY <1>1, <1>2, <2>3, <3>1, SessionKept DEF tcpVars
  <2> QED
    BY <2>3, <2>6, <2>7 DEF ProtocolInv
<1> QED
  BY <1>3, <1>4 DEF CallLogin

\* The other calls to the auth-service change nothing the gateway keeps yet.
LEMMA CallCharacterStep ==
  ASSUME GatewayInv, NEW ok \in BOOLEAN, NEW m \in Maps, CallCharacter(ok, m)
  PROVE  ProtocolInv'
<1> DEFINE kind == router.command.kind
<1>1. /\ TypeOK /\ InOrder /\ HandledFirst /\ RouterInv
      /\ RouterAt("call") /\ ~RouterAt("idle")
      /\ ~RouterAt("authLogout") /\ ~RouterAt("remove")
      /\ UNCHANGED <<tcpVars, sessions, inbox, remoteVars>>
  BY DEF GatewayInv, TypeInv, ProtocolInv, CallCharacter, RouterAt
<1>2. CASE Done
  BY <1>1, <1>2, RouterStepKept DEF remoteVars
<1>3. CASE /\ kind \in CharacterKinds
           /\ router' = [router EXCEPT !.pc = "apply", !.map_id = m]
  <2>1. PICK s \in Sessions : s = router.session_id
    BY <1>1, RouterShape
  <2>2. /\ router'.pc = "apply" /\ ~RouterAt("idle")' /\ ~RouterAt("call")'
        /\ router'.session_id = s /\ router'.command = router.command
    BY <1>1, <1>3, <2>1, RouterShape DEF RouterState, RouterAt
  <2>3. /\ \A t : PendingKinds(t)' = PendingKinds(t)
        /\ InOrder' /\ HandledFirst'
    BY <1>1, <2>1, <2>2, RouterMoved
  <2>4. (Known(s)' <=> Known(s)) /\ (IsAuthenticated(s)' <=> IsAuthenticated(s))
    BY <1>1 DEF Known, IsAuthenticated
  <2>5. RouterInv'
    BY <1>1, <1>3, <2>1, <2>2, <2>4 DEF RouterInv, CharacterKinds
  <2>6. ASSUME NEW t \in Sessions PROVE SessionInv(t)'
    <3>1. SessionInv(t) /\ ~LoggingOut(t)
      BY <1>1 DEF GatewayInv, ProtocolInv, LoggingOut, RouterAt
    <3> QED
      BY <1>1, <2>3, <3>1, SessionKept DEF tcpVars, remoteVars
  <2> QED
    BY <2>3, <2>5, <2>6 DEF ProtocolInv
<1> QED
  BY <1>2, <1>3 DEF CallCharacter

\* What the entry of a session becomes, if it is still there.
LEMMA ApplyStep ==
  ASSUME GatewayInv, Apply
  PROVE  ProtocolInv'
<1> DEFINE kind == router.command.kind
<1>1. /\ TypeOK /\ InOrder /\ HandledFirst /\ RouterInv
      /\ RouterAt("apply") /\ ~RouterAt("idle") /\ Done
      /\ UNCHANGED <<tcpVars, inbox, remoteVars>>
  BY DEF GatewayInv, TypeInv, ProtocolInv, Apply, RouterAt
<1>2. PICK s \in Sessions : s = router.session_id
  BY <1>1, RouterShape
<1>3. PICK m \in Maps : m = router.map_id
  BY <1>1, RouterShape
<1>4. /\ SessionInv(s)
      /\ kind \in {"Login", "EnterWorld"} \cup CharacterKinds
  BY <1>1 DEF GatewayInv, TypeInv, ProtocolInv, RouterKinds
<1>5. kind \in CharacterKinds => router.command.character \in Characters
  BY <1>1, RouterShape, CommandShape DEF CharacterKinds
<1>6. /\ \A t : PendingKinds(t)' = QueuedKinds(t)
      /\ \A t : QueuedKinds(t) \subseteq PendingKinds(t)
      /\ \A t : ~LoggingOut(t) /\ ~LoggingOut(t)'
      /\ InOrder' /\ HandledFirst' /\ RouterInv'
  BY <1>1, RouterFreed DEF PendingKinds, LoggingOut, RouterAt
<1>7. /\ \A t \in Sessions \ {s} : sessions'[t] = sessions[t]
      /\ ~Known(s) => sessions'[s] = sessions[s]
      /\ Known(s) => sessions'[s] = Updated(sessions[s], router.command, m)
  BY <1>1, <1>2, <1>3 DEF Apply, TypeOK
<1>8. ASSUME NEW t \in Sessions, sessions'[t] = sessions[t] PROVE SessionInv(t)'
  <2>1. SessionInv(t)
    BY DEF GatewayInv, ProtocolInv
  <2> QED
    BY <1>1, <1>6, <1>8, <2>1, SessionKept DEF tcpVars, remoteVars
<1>9. CASE Known(s)
  <2> DEFINE entry == sessions[s]
             after == Updated(entry, router.command, m)
  <2>1. kind \in PendingKinds(s) /\ entry \in SessionRuntime /\ sessions'[s] = after
    BY <1>1, <1>2, <1>7, <1>9, HandledPending DEF TypeOK, Known
  <2>2. /\ conn[s] # "none"
        /\ \A n \in Maps : HasPlayer(s, n) => entry.map_id = n
        /\ entry.in_world => entry.character # NoCharacter
        /\ entry.character # NoCharacter => entry.account /\ entry.map_id # NoMap
        /\ entry.account => db[s] # "none" /\ phase[s] # "PreAuth"
        /\ IsInWorld(s) => \E n \in Maps : HasPlayer(s, n)
    BY <1>4, <1>6, <1>9 DEF SessionInv, AskedFor, EntryJustified
  <2>3. /\ \A n \in Maps : HasPlayer(s, n)' <=> HasPlayer(s, n)
        /\ IsAuthenticated(s)' <=> Known(s)' /\ after.account
        /\ IsInWorld(s)' <=> Known(s)' /\ after.account /\ after.in_world
    BY <1>1, <2>1 DEF HasPlayer, IsAuthenticated, IsInWorld, Known, remoteVars
  <2>4. WorldJustified(s)'
    BY <1>1, <1>4, <2>3 DEF SessionInv, WorldJustified, remoteVars
  <2>5. ASSUME kind = "Login" PROVE SessionInv(s)'
    <3>1. after.account /\ ~after.in_world /\ after.character = NoCharacter
      BY <2>5 DEF Updated, AfterLogin, FreshSession
    <3>2. /\ ~Entered(s) /\ phase[s] # "PreAuth" /\ db[s] # "none"
          /\ "Login" \notin QueuedKinds(s)
      BY <1>1, <1>2, <1>4, <2>1, <2>5
      DEF SessionInv, AskedFor, RouterInv, HandledFirst, CanFollow
    <3>3. (\A n \in Maps : ~HasPlayer(s, n)) /\ ~IsInWorld(s)'
      BY <2>3, <3>1, <3>2 DEF Entered
    <3>4. ~Entered(s)'
      BY <2>3, <3>3 DEF Entered
    <3>5. AskedFor(s)'
      BY <1>1, <1>4, <1>6, <2>2, <3>2, <3>4 DEF SessionInv, AskedFor, tcpVars
    <3>6. EntryJustified(s)'
      BY <1>1, <2>1, <2>3, <3>1, <3>2, <3>3 DEF EntryJustified, tcpVars, remoteVars
    <3> QED
      BY <2>4, <3>5, <3>6 DEF SessionInv
  <2>6. ASSUME kind = "EnterWorld" PROVE SessionInv(s)'
    <3>1. /\ after.account = entry.account /\ after.in_world
          /\ after.character = entry.character /\ after.map_id = entry.map_id
      BY <2>1, <2>6 DEF Updated, AfterEnter, SessionRuntime
    <3>2. /\ phase[s] \in {"InWorld", "Closed"} /\ db[s] # "none"
          /\ IsCharacterSelected(s) /\ HasPlayer(s, m)
          /\ "Login" \notin QueuedKinds(s) /\ QueuedKinds(s) \cap CharacterKinds = {}
      BY <1>1, <1>2, <1>3, <1>4, <1>9, <2>1, <2>6
      DEF SessionInv, AskedFor, RouterInv, HandledFirst, CanFollow
    <3>3. AskedFor(s)'
      BY <1>1, <1>6, <2>2, <3>2 DEF AskedFor, tcpVars
    <3>4. entry.account /\ entry.character # NoCharacter
      BY <3>2 DEF IsCharacterSelected, IsAuthenticated
    <3>5. EntryJustified(s)'
      BY <1>1, <2>1, <2>2, <2>3, <3>1, <3>2, <3>4 DEF EntryJustified, tcpVars, remoteVars
    <3> QED
      BY <2>4, <3>3, <3>5 DEF SessionInv
  <2>7. ASSUME kind \in CharacterKinds PROVE SessionInv(s)'
    <3> DEFINE character == router.command.character
    <3>1. after = AfterSelect(entry, character, m) \/ after = AfterDelete(entry, character)
      BY <2>7 DEF Updated, CharacterKinds
    <3>2. entry.account /\ character # NoCharacter /\ m # NoMap
      BY <1>1, <1>2, <1>5, <1>9, <2>7, GatewayConstants DEF RouterInv, IsAuthenticated
    <3>3. ~Entered(s)
      BY <1>4, <2>1, <2>7 DEF SessionInv, AskedFor
    <3>4. (\A n \in Maps : ~HasPlayer(s, n)) /\ ~entry.in_world
      BY <1>9, <3>2, <3>3 DEF Entered, IsInWorld, IsAuthenticated
    <3>5. /\ after.account /\ ~after.in_world
          /\ after.character # NoCharacter => after.map_id # NoMap
      BY <2>1, <2>2, <3>1, <3>2, <3>4 DEF AfterSelect, AfterDelete, SessionRuntime
    <3>6. ~Entered(s)'
      BY <2>3, <3>4, <3>5 DEF Entered
    <3>7. IsAuthenticated(s)
      BY <1>9, <3>2 DEF IsAuthenticated
    <3>8. AskedFor(s)'
      BY <1>1, <1>4, <1>6, <2>2, <3>6, <3>7 DEF SessionInv, AskedFor, tcpVars
    <3>9. EntryJustified(s)'
      BY <1>1, <2>1, <2>2, <2>3, <3>2, <3>4, <3>5 DEF EntryJustified, tcpVars, remoteVars
    <3> QED
      BY <2>4, <3>8, <3>9 DEF SessionInv
  <2>8. SessionInv(s)'
    BY <1>4, <2>5, <2>6, <2>7
  <2> QED
    BY <1>6, <1>7, <1>8, <2>8 DEF ProtocolInv
<1>10. CASE ~Known(s)
  BY <1>6, <1>7, <1>8, <1>10 DEF ProtocolInv
<1> QED
  BY <1>9, <1>10

\* The last step but one of a logout closes the stored session.
LEMMA AuthLogoutStep ==
  ASSUME GatewayInv, NEW delivered \in BOOLEAN, AuthLogout(delivered)
  PROVE  ProtocolInv'
<1>1. /\ TypeOK /\ ~RouterAt("idle") /\ Goto("remove")
      /\ UNCHANGED <<tcpVars, sessions, inbox, presence, players>>
  BY DEF GatewayInv, TypeInv, AuthLogout, RouterAt
<1>2. \A t \in Sessions : db[t] # "none" => db'[t] # "none"
  BY <1>1 DEF AuthLogout, TypeOK
<1> QED
  BY <1>1, <1>2, RouterStepKept

\* The last step of a logout removes the entry.
LEMMA RouterRemoveStep ==
  ASSUME GatewayInv, RouterRemove
  PROVE  ProtocolInv'
<1>1. /\ TypeOK /\ InOrder /\ ~RouterAt("idle") /\ Done
      /\ UNCHANGED <<tcpVars, inbox, remoteVars>>
  BY DEF GatewayInv, TypeInv, ProtocolInv, RouterRemove, RouterAt
<1>2. PICK s \in Sessions : s = router.session_id
  BY <1>1, RouterShape
<1>3. /\ \A t : PendingKinds(t)' = QueuedKinds(t)
      /\ \A t : QueuedKinds(t) \subseteq PendingKinds(t)
      /\ InOrder' /\ HandledFirst' /\ RouterInv'
  BY <1>1, RouterFreed DEF PendingKinds
<1>4. /\ sessions'[s] = NoSession
      /\ \A t \in Sessions \ {s} : sessions'[t] = sessions[t]
  BY <1>1, <1>2 DEF RouterRemove, TypeOK
<1>5. ASSUME NEW t \in Sessions PROVE SessionInv(t)'
  <2>1. SessionInv(t)
    BY DEF GatewayInv, ProtocolInv
  <2>2. CASE t = s
    BY <1>1, <1>3, <1>4, <2>1, <2>2, SessionGone DEF tcpVars, remoteVars
  <2>3. CASE t # s
    <3>1. ~LoggingOut(t)
      BY <1>2, <2>3 DEF LoggingOut, Handles
    <3> QED
      BY <1>1, <1>3, <1>4, <2>1, <2>3, <3>1, SessionKept DEF tcpVars, remoteVars
  <2> QED
    BY <2>2, <2>3
<1> QED
  BY <1>3, <1>5 DEF ProtocolInv

\* A restart forgets queue and table, and the services keep what they know.
LEMMA RestartStep ==
  ASSUME GatewayInv, Restart
  PROVE  ProtocolInv'
<1>1. /\ TypeOK /\ Done /\ inbox' = <<>>
      /\ UNCHANGED <<phase, remoteVars>>
      /\ \A t \in Sessions : sessions'[t] = NoSession
      /\ \A t \in Sessions : conn[t] # "none" => conn'[t] # "none"
  BY DEF GatewayInv, TypeInv, Restart, Done, TypeOK
<1>2. /\ RouterAt("idle")'
      /\ \A t : QueuedKinds(t)' = {} /\ PendingKinds(t)' = {}
  BY <1>1 DEF Done, RouterAt, IdleRouter, QueuedKinds, PendingKinds, Handles
<1>3. InOrder' /\ HandledFirst' /\ RouterInv'
  BY <1>1, <1>2 DEF InOrder, HandledFirst, RouterInv
<1>4. ASSUME NEW t \in Sessions PROVE SessionInv(t)'
  <2>1. SessionInv(t)
    BY DEF GatewayInv, ProtocolInv
  <2> QED
    BY <1>1, <1>2, <2>1, SessionGone DEF remoteVars
<1> QED
  BY <1>3, <1>4 DEF ProtocolInv

-----------------------------------------------------------------------------
\* The invariant and what follows from it.

\* Every step keeps the invariant.
LEMMA GatewayStep == GatewayInv /\ [Next]_vars => GatewayInv'
<1> SUFFICES ASSUME GatewayInv, [Next]_vars PROVE GatewayInv'
  OBVIOUS
<1>1. TypeInv'
  BY TypeStep DEF GatewayInv
<1>2. ASSUME NEW s \in Sessions, Client(s) \/ ConnectionTask(s) PROVE ProtocolInv'
  BY <1>2, AcceptStep, ReceiveStep, EndingStep DEF Client, ConnectionTask
<1>3. ASSUME Router PROVE ProtocolInv'
  BY <1>3, TakeStep, CheckStep, CallWorldStep, CallLoginStep, CallCharacterStep,
     ApplyStep, AuthLogoutStep, RouterRemoveStep DEF Router
<1>4. ASSUME Restart PROVE ProtocolInv'
  BY <1>4, RestartStep
<1>5. ASSUME UNCHANGED vars PROVE ProtocolInv'
  <2>1. UNCHANGED <<tcpVars, sessions, inbox, router, remoteVars>>
    BY <1>5 DEF vars
  <2>2. ASSUME NEW t \in Sessions PROVE SessionInv(t)'
    <3>1. SessionInv(t)
      BY DEF GatewayInv, ProtocolInv
    <3> QED
      BY <2>1, <3>1, KindsKept, SessionKept DEF tcpVars, remoteVars
  <2>3. RouterInv'
    BY <2>1, RouterKept, RouterShape DEF GatewayInv, ProtocolInv
  <2> QED
    BY <2>1, <2>2, <2>3, KindsKept DEF GatewayInv, ProtocolInv
<1> QED
  BY <1>1, <1>2, <1>3, <1>4, <1>5 DEF Next, GatewayInv

\* The invariant holds before the first connection.
LEMMA GatewayInit == Init => GatewayInv
<1> SUFFICES ASSUME Init PROVE ProtocolInv
  BY TypeInit DEF GatewayInv
<1>1. RouterAt("idle") /\ inbox = <<>>
  BY DEF Init, RouterAt, IdleRouter
<1>2. \A t : QueuedKinds(t) = {} /\ PendingKinds(t) = {}
  BY <1>1 DEF QueuedKinds, PendingKinds, Handles
<1>3. InOrder /\ HandledFirst /\ RouterInv
  BY <1>1, <1>2 DEF InOrder, HandledFirst, RouterInv
<1>4. ASSUME NEW t \in Sessions PROVE SessionInv(t)
  <2>1. /\ ~Known(t) /\ ~IsInWorld(t) /\ \A m \in Maps : ~HasPlayer(t, m)
    BY DEF Init, Known, IsInWorld, IsAuthenticated, HasPlayer
  <2>2. ~Entered(t)
    BY <2>1 DEF Entered
  <2>3. presence[t] = NoMap
    BY DEF Init
  <2> QED
    BY <1>2, <2>1, <2>2, <2>3 DEF SessionInv, AskedFor, EntryJustified, WorldJustified
<1> QED
  BY <1>3, <1>4 DEF ProtocolInv

\* The invariant holds in every reachable state.
LEMMA GatewayInvariant == Spec => []GatewayInv
  BY GatewayInit, GatewayStep, PTL DEF Spec

\* No session has players on two maps, whatever calls fail, time out after their
\* effect or are repeated, and however many sessions interleave.
THEOREM NeverOnTwoMapsHolds == Spec => []NeverOnTwoMaps
<1>1. GatewayInv => NeverOnTwoMaps
  <2> SUFFICES ASSUME GatewayInv, NEW s \in Sessions
               PROVE  Cardinality({m \in Maps : players[m][s] # Absent}) <= 1
    BY DEF NeverOnTwoMaps
  <2> DEFINE on == {m \in Maps : players[m][s] # Absent}
  <2>1. \A m, n \in on : m = n
    BY DEF GatewayInv, ProtocolInv, SessionInv, WorldJustified, HasPlayer
  <2>2. on = {} \/ \E m : on = {m}
    BY <2>1
  <2>3. Cardinality(on) = 0 \/ Cardinality(on) = 1
    BY <2>2, FS_EmptySet, FS_Singleton
  <2> QED
    BY <2>3
<1> QED
  BY <1>1, GatewayInvariant, PTL

\* The coordinator counts only sessions the auth-service has accepted.
THEOREM PresentWereAuthenticated == Spec => []PresentWasAuthenticated
<1>1. GatewayInv => PresentWasAuthenticated
  BY DEF GatewayInv, ProtocolInv, SessionInv, WorldJustified, PresentWasAuthenticated
<1> QED
  BY <1>1, GatewayInvariant, PTL

\* A session the table has in the world is authenticated, has a character and a
\* map, and its socket asked for it.
THEOREM InWorldIsJustified == Spec => []InWorldJustified
<1>1. GatewayInv => InWorldJustified
  <2> SUFFICES ASSUME GatewayInv, NEW s \in Sessions, IsInWorld(s)
               PROVE  /\ IsCharacterSelected(s) /\ sessions[s].map_id # NoMap
                      /\ phase[s] \in {"InWorld", "Closed"}
    BY DEF InWorldJustified
  <2>1. SessionInv(s) /\ Known(s) /\ IsAuthenticated(s) /\ sessions[s].in_world
    BY DEF GatewayInv, ProtocolInv, IsInWorld, IsAuthenticated
  <2> QED
    BY <2>1 DEF SessionInv, AskedFor, EntryJustified, Entered, IsCharacterSelected
<1> QED
  BY <1>1, GatewayInvariant, PTL

\* Gameplay reaches a map on which the session has its player, although map,
\* session and call are looked up in steps of their own.
THEOREM GameplayHitsPlayer == Spec => []GameplayHitsOwnPlayer
<1>1. GatewayInv => GameplayHitsOwnPlayer
  BY DEF GatewayInv, ProtocolInv, RouterInv, GameplayHitsOwnPlayer, CallingWorld,
     RouterAt, HasPlayer
<1> QED
  BY <1>1, GatewayInvariant, PTL

\* A Logout of a session that is still in the table goes to the only map that
\* may have its player.
THEOREM LogoutReachesPlayer == Spec => []LogoutFindsPlayer
<1>1. GatewayInv => LogoutFindsPlayer
  <2> SUFFICES ASSUME GatewayInv, CallingWorld("Logout"), Known(router.session_id),
                      NEW m \in Maps \ {router.map_id}
               PROVE  players[m][router.session_id] = Absent
    BY DEF LogoutFindsPlayer
  <2> DEFINE s == router.session_id
  <2>1. ~RouterAt("idle") /\ TypeOK /\ RouterInv
    BY DEF GatewayInv, TypeInv, ProtocolInv, CallingWorld, RouterAt
  <2>2. s \in Sessions /\ SessionInv(s)
    BY <2>1, RouterShape DEF GatewayInv, ProtocolInv
  <2>3. router.map_id = ResolveMapId(s)
    BY <2>1 DEF RouterInv, CallingWorld, CharacterKinds
  <2>4. HasPlayer(s, m) => sessions[s].map_id = m
    BY <2>2 DEF SessionInv, EntryJustified
  <2> QED
    BY <2>3, <2>4, GatewayConstants DEF ResolveMapId, HasPlayer
<1> QED
  BY <1>1, GatewayInvariant, PTL

\* The entry of a session in the world is frozen until it is removed: no late
\* reply, selection or second login reaches it.
THEOREM EntryIsFrozenInWorld == Spec => EntryFrozenInWorld
<1>1. GatewayInv /\ [Next]_vars =>
        [\A s \in Sessions : IsInWorld(s) => sessions'[s] \in {sessions[s], NoSession}]_vars
  <2> SUFFICES ASSUME GatewayInv, [Next]_vars, NEW s \in Sessions, IsInWorld(s)
               PROVE  sessions'[s] \in {sessions[s], NoSession}
    OBVIOUS
  <2>1. TypeOK /\ SessionInv(s) /\ Entered(s) /\ Known(s) /\ conn[s] # "none"
    BY DEF GatewayInv, TypeInv, ProtocolInv, SessionInv, AskedFor, Entered, IsInWorld,
       IsAuthenticated
  <2>2. ASSUME NEW t \in Sessions, Client(t) \/ ConnectionTask(t)
        PROVE  sessions'[s] \in {sessions[s], NoSession}
    BY <2>1, <2>2 DEF Client, ConnectionTask, Accept, Receive, EndOfSession,
       ReadError, RemoveSession, Leave, TypeOK
  <2>3. CASE Apply
    <3>1. ~RouterAt("idle") /\ RouterAt("apply")
      BY <2>3 DEF Apply, RouterAt
    <3>2. CASE router.session_id # s
      BY <2>1, <2>3, <3>2 DEF Apply, TypeOK
    <3>3. CASE router.session_id = s
      <4>1. router.command.kind \in PendingKinds(s)
        BY <3>1, <3>3, HandledPending
      <4>2. router.command.kind = "EnterWorld"
        BY <2>1, <3>1, <4>1 DEF GatewayInv, TypeInv, RouterKinds, SessionInv, AskedFor
      <4>3. sessions'[s] = AfterEnter(sessions[s])
        BY <2>1, <2>3, <3>3, <4>2 DEF Apply, Updated, TypeOK
      <4>4. sessions[s] \in SessionRuntime /\ sessions[s].in_world = TRUE
        BY <2>1 DEF TypeOK, Known, IsInWorld, SessionRuntime
      <4>5. AfterEnter(sessions[s]) = sessions[s]
        BY <4>4 DEF AfterEnter, SessionRuntime
      <4> QED
        BY <4>3, <4>5
    <3> QED
      BY <3>2, <3>3
  <2>4. CASE Router /\ ~Apply
    BY <2>1, <2>4 DEF Router, Take, Check, CallWorld, CallLogin, CallCharacter,
       AuthLogout, RouterRemove, TypeOK
  <2>5. CASE Restart \/ UNCHANGED vars
    BY <2>5 DEF Restart, vars
  <2> QED
    BY <2>2, <2>3, <2>4, <2>5 DEF Next
<1> QED
  BY <1>1, GatewayInvariant, PTL DEF Spec, EntryFrozenInWorld

=============================================================================
