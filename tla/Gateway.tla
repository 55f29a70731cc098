-------------------------------- MODULE Gateway --------------------------------
(***************************************************************************)
(* The game gateway (apps/gateway/src/main.rs): one task per TCP           *)
(* connection and one internal router task, joined by a bounded channel    *)
(* and by a table of sessions behind a read-write lock.                    *)
(*                                                                         *)
(* A connection task keeps the protocol phase of its socket, refuses the   *)
(* commands the phase does not allow, moves the phase on as soon as it     *)
(* accepts a command, and queues the command.  The router takes the        *)
(* commands one at a time, checks the session table, calls the             *)
(* auth-service or the world-service over HTTP, and writes the result back *)
(* to the table.  Between its steps a connection may end and take its      *)
(* session out of the table.                                               *)
(*                                                                         *)
(* The auth-service is the state of the database session of each session,  *)
(* the world-service is the presence table of its coordinator and the      *)
(* player table of each map; all maps are registered.                      *)
(***************************************************************************)
EXTENDS Naturals, Sequences, FiniteSets

CONSTANTS
  Sessions,       \* session ids; each accepted connection takes a fresh one
  Ips,            \* client addresses
  Characters,
  Maps,
  DefaultMap,     \* the map assumed for a session that has none (1)
  NoSession,      \* "absent" in the session table
  NoCharacter, NoMap, NoIp,
  Absent,         \* "absent" in the player table of a map
  MaxConnectionsPerIp,
  InboxCapacity,  \* capacity of the internal channel (4096)
  MaxRestarts     \* bound of the model: restarts of the gateway process

ASSUME GatewayConstants ==
  /\ DefaultMap \in Maps /\ NoMap \notin Maps
  /\ NoCharacter \notin Characters /\ Absent \notin Characters \cup {NoCharacter}
  /\ MaxConnectionsPerIp \in Nat /\ InboxCapacity \in Nat \ {0} /\ MaxRestarts \in Nat
  /\ IsFiniteSet(Sessions)

VARIABLES
  conn,      \* what the task of each connection is doing
  ip,        \* the address each session connected from
  phase,     \* the protocol phase of each socket
  ip_count,  \* connections counted per address
  sessions,  \* the session table
  inbox,     \* commands queued for the router
  router,    \* the router task: its step and the command it works on
  db,        \* auth-service: the stored state of each session
  presence,  \* world coordinator: the map each session is counted on
  players,   \* per map and session, the character of its player entry
  restarts

tcpVars    == <<conn, ip, phase, ip_count>>
remoteVars == <<db, presence, players>>
vars == <<tcpVars, sessions, inbox, router, remoteVars, restarts>>

-----------------------------------------------------------------------------
\* Commands.  "Browse" stands for CharacterList and CharacterCreate, whose
\* replies the gateway only logs; "Play" for the ten commands that need a
\* session in the world (Move, Attack, ..., GuildChat).
PlainKinds     == {"Login", "Browse", "EnterWorld", "Play", "Heartbeat", "Logout"}
CharacterKinds == {"CharacterDelete", "CharacterSelect"}

Command ==
  [kind : PlainKinds, character : {NoCharacter}]
    \cup [kind : CharacterKinds, character : Characters]

InternalCommand ==
  [session_id : Sessions, command : Command \cup {[kind |-> "Disconnect"]}]

SessionRuntime ==
  [account : BOOLEAN, character : Characters \cup {NoCharacter},
   map_id : Maps \cup {NoMap}, in_world : BOOLEAN]

FreshSession == [account |-> FALSE, character |-> NoCharacter, map_id |-> NoMap,
                 in_world |-> FALSE]

\* Mutant of Allowed: the character commands stay open in the world.
AllowedLoose(p) ==
  CASE p = "PreAuth"         -> {"Login", "Heartbeat"}
    [] p = "PostAuth"        -> CharacterKinds \cup {"Browse", "Logout", "Heartbeat"}
    [] p = "InCharacterList" ->
         CharacterKinds \cup {"Browse", "EnterWorld", "Logout", "Heartbeat"}
    [] p = "InWorld"         ->
         CharacterKinds \cup {"EnterWorld", "Play", "Heartbeat", "Logout"}
    [] p = "Closed"          -> {}

\* The commands each phase accepts.
Allowed(p) ==
  CASE p = "PreAuth"         -> {"Login", "Heartbeat"}
    [] p = "PostAuth"        -> CharacterKinds \cup {"Browse", "Logout", "Heartbeat"}
    [] p = "InCharacterList" ->
         CharacterKinds \cup {"Browse", "EnterWorld", "Logout", "Heartbeat"}
    [] p = "InWorld"         -> {"EnterWorld", "Play", "Heartbeat", "Logout"}
    [] p = "Closed"          -> {}

\* The phase after a command was accepted, before anything is known of its
\* outcome.
NextPhase(p, kind) ==
  CASE kind = "Logout" -> "Closed"
    [] p = "PreAuth" /\ kind = "Login" -> "PostAuth"
    [] p = "PostAuth" /\ kind \in CharacterKinds \cup {"Browse"} -> "InCharacterList"
    [] p = "InCharacterList" /\ kind = "EnterWorld" -> "InWorld"
    [] OTHER -> p

-----------------------------------------------------------------------------
\* Connection tasks.

\* The accept loop: an address at its limit is refused without any effect.
Accept(s, a) ==
  /\ conn[s] = "none"
  /\ ip_count[a] < MaxConnectionsPerIp
  /\ ip_count' = [ip_count EXCEPT ![a] = @ + 1]
  /\ ip' = [ip EXCEPT ![s] = a]
  /\ conn' = [conn EXCEPT ![s] = "open"]
  /\ sessions' = [sessions EXCEPT ![s] = FreshSession]
  /\ UNCHANGED <<phase, inbox, router, remoteVars, restarts>>

Enqueue(s, command) ==
  /\ Len(inbox) < InboxCapacity
  /\ inbox' = Append(inbox, [session_id |-> s, command |-> command])

\* A frame that passed the rate limit and the decoder and whose command the
\* phase allows; other frames are dropped.
Receive(s, command) ==
  /\ conn[s] = "open"
  /\ command.kind \in Allowed(phase[s])
  /\ phase' = [phase EXCEPT ![s] = NextPhase(@, command.kind)]
  /\ Enqueue(s, command)
  /\ UNCHANGED <<conn, ip, ip_count, sessions, router, remoteVars, restarts>>

\* End of file or idle timeout: DisconnectSession is queued ...
EndOfSession(s) ==
  /\ conn[s] = "open"
  /\ Enqueue(s, [kind |-> "Disconnect"])
  /\ conn' = [conn EXCEPT ![s] = "removing"]
  /\ UNCHANGED <<ip, phase, ip_count, sessions, router, remoteVars, restarts>>

\* ... and the session leaves the table without waiting for the router.
RemoveSession(s) ==
  /\ conn[s] = "removing"
  /\ sessions' = [sessions EXCEPT ![s] = NoSession]
  /\ conn' = [conn EXCEPT ![s] = "leaving"]
  /\ UNCHANGED <<ip, phase, ip_count, inbox, router, remoteVars, restarts>>

\* A read error returns from handle_session at once: nothing is queued and the
\* session stays in the table.
ReadError(s) ==
  /\ conn[s] = "open"
  /\ conn' = [conn EXCEPT ![s] = "leaving"]
  /\ UNCHANGED <<ip, phase, ip_count, sessions, inbox, router, remoteVars, restarts>>

\* Mutant of Leave: a connection task that ends leaves its address counted.
LeaveUncounted(s) ==
  /\ conn[s] = "leaving"
  /\ conn' = [conn EXCEPT ![s] = "ended"]
  /\ UNCHANGED <<ip, phase, ip_count, sessions, inbox, router, remoteVars, restarts>>

\* The spawned task gives the connection of the address back.
Leave(s) ==
  /\ conn[s] = "leaving"
  /\ ip_count' = [ip_count EXCEPT ![ip[s]] = IF @ <= 1 THEN 0 ELSE @ - 1]
  /\ conn' = [conn EXCEPT ![s] = "ended"]
  /\ UNCHANGED <<ip, phase, sessions, inbox, router, remoteVars, restarts>>

-----------------------------------------------------------------------------
\* The router task.

IdleRouter == [pc |-> "idle"]

RouterPc == {"check", "call", "apply", "authLogout", "remove"}

RouterState ==
  [pc : RouterPc, session_id : Sessions,
   command : Command \cup {[kind |-> "Disconnect"]}, map_id : Maps]

RouterAt(pc) == router.pc = pc

Goto(pc) == router' = [router EXCEPT !.pc = pc]

Done == router' = IdleRouter

Known(s) == sessions[s] # NoSession

IsAuthenticated(s) == Known(s) /\ sessions[s].account

IsInWorld(s) == IsAuthenticated(s) /\ sessions[s].in_world

IsCharacterSelected(s) ==
  IsAuthenticated(s) /\ sessions[s].character # NoCharacter

\* Mutant of ResolveMapId: the default of a session without a map is missing.
ResolveMapIdRaw(s) == IF Known(s) THEN sessions[s].map_id ELSE DefaultMap

\* A session that is gone or has no map is taken to be on the default map.
ResolveMapId(s) ==
  IF Known(s) /\ sessions[s].map_id # NoMap THEN sessions[s].map_id ELSE DefaultMap

CharacterOf(s) == IF Known(s) THEN sessions[s].character ELSE NoCharacter

\* Mutant of Take: the router waits for the session of the command to exist.
TakeKnown ==
  /\ RouterAt("idle")
  /\ inbox # <<>>
  /\ Known(Head(inbox).session_id)
  /\ inbox' = Tail(inbox)
  /\ LET msg == Head(inbox)
         first == CASE msg.command.kind = "Disconnect" -> "authLogout"
                    [] msg.command.kind \in {"Login", "Heartbeat", "Logout"} -> "call"
                    [] OTHER -> "check"
     IN router' = [pc |-> first, session_id |-> msg.session_id,
                   command |-> msg.command, map_id |-> ResolveMapId(msg.session_id)]
  /\ UNCHANGED <<tcpVars, sessions, remoteVars, restarts>>

Take ==
  /\ RouterAt("idle")
  /\ inbox # <<>>
  /\ inbox' = Tail(inbox)
  /\ LET msg == Head(inbox)
         first == CASE msg.command.kind = "Disconnect" -> "authLogout"
                    [] msg.command.kind \in {"Login", "Heartbeat", "Logout"} -> "call"
                    [] OTHER -> "check"
     IN router' = [pc |-> first, session_id |-> msg.session_id,
                   command |-> msg.command, map_id |-> ResolveMapId(msg.session_id)]
  /\ UNCHANGED <<tcpVars, sessions, remoteVars, restarts>>

\* Mutant of Admitted: the router trusts the phase of the socket.
AdmittedByPhase(s, kind) == TRUE

\* Mutant of Admitted: gameplay needs only an authenticated session.
AdmittedLoose(s, kind) ==
  IF kind = "EnterWorld" THEN IsCharacterSelected(s) ELSE IsAuthenticated(s)

Admitted(s, kind) ==
  CASE kind = "EnterWorld" -> IsCharacterSelected(s)
    [] kind = "Play"       -> IsInWorld(s)
    [] OTHER               -> IsAuthenticated(s)

Check ==
  /\ RouterAt("check")
  /\ IF Admitted(router.session_id, router.command.kind) THEN Goto("call") ELSE Done
  /\ UNCHANGED <<tcpVars, sessions, inbox, remoteVars, restarts>>

\* What a routed command does in the world-service: the coordinator counts the
\* session, then the map the command was sent to updates its players.
WorldEffect(s, m, kind, character) ==
  CASE kind = "EnterWorld" ->
         /\ presence' = [presence EXCEPT ![s] = m]
         /\ players' = [players EXCEPT ![m][s] = character]
    [] kind = "Logout" ->
         /\ presence' = [presence EXCEPT ![s] = NoMap]
         /\ players' = [players EXCEPT ![m][s] = Absent]
    [] OTHER -> UNCHANGED <<presence, players>>

\* A call to the world-service.  It may fail before it has an effect, or the
\* reply may be lost or come after the two seconds the gateway waits.
CallWorld(delivered, replied) ==
  LET s == router.session_id
      kind == router.command.kind
  IN /\ RouterAt("call")
     /\ kind \in {"EnterWorld", "Play", "Heartbeat", "Logout"}
     /\ replied => delivered
     /\ IF delivered THEN WorldEffect(s, router.map_id, kind, CharacterOf(s))
        ELSE UNCHANGED <<presence, players>>
     /\ IF kind = "Logout" THEN Goto("authLogout")
        ELSE IF kind = "EnterWorld" /\ replied THEN Goto("apply")
        ELSE Done
     /\ UNCHANGED <<tcpVars, sessions, inbox, db, restarts>>

\* Login: the auth-service opens the stored session and accepts, or rejects.
CallLogin(accepted, replied) ==
  /\ RouterAt("call")
  /\ router.command.kind = "Login"
  /\ IF accepted THEN db' = [db EXCEPT ![router.session_id] = "open"] ELSE UNCHANGED db
  /\ IF accepted /\ replied THEN Goto("apply") ELSE Done
  /\ UNCHANGED <<tcpVars, sessions, inbox, presence, players, restarts>>

\* The other auth-service calls; they succeed only for an open stored session.
\* A selection is answered with the map of the character.
CallCharacter(ok, m) ==
  /\ RouterAt("call")
  /\ router.command.kind \in CharacterKinds \cup {"Browse"}
  /\ ok => db[router.session_id] = "open"
  /\ IF ok /\ router.command.kind \in CharacterKinds
     THEN router' = [router EXCEPT !.pc = "apply", !.map_id = m]
     ELSE Done
  /\ UNCHANGED <<tcpVars, sessions, inbox, remoteVars, restarts>>

\* The table entry of a session after its call succeeded.
AfterLogin == [FreshSession EXCEPT !.account = TRUE]

AfterEnter(entry) == [entry EXCEPT !.in_world = TRUE]

AfterSelect(entry, character, m) ==
  [entry EXCEPT !.character = character, !.map_id = m, !.in_world = FALSE]

AfterDelete(entry, character) ==
  IF entry.character = character
  THEN [entry EXCEPT !.character = NoCharacter, !.map_id = NoMap, !.in_world = FALSE]
  ELSE entry

Updated(entry, command, m) ==
  CASE command.kind = "Login"           -> AfterLogin
    [] command.kind = "EnterWorld"      -> AfterEnter(entry)
    [] command.kind = "CharacterSelect" -> AfterSelect(entry, command.character, m)
    [] command.kind = "CharacterDelete" -> AfterDelete(entry, command.character)

\* The result is written only if the session is still in the table.
Apply ==
  LET s == router.session_id IN
    /\ RouterAt("apply")
    /\ sessions' = IF Known(s)
                   THEN [sessions EXCEPT ![s] = Updated(@, router.command, router.map_id)]
                   ELSE sessions
    /\ Done
    /\ UNCHANGED <<tcpVars, inbox, remoteVars, restarts>>

\* The logout call to the auth-service; its errors are ignored.
AuthLogout(delivered) ==
  /\ RouterAt("authLogout")
  /\ db' = IF delivered /\ db[router.session_id] = "open"
           THEN [db EXCEPT ![router.session_id] = "closed"] ELSE db
  /\ Goto("remove")
  /\ UNCHANGED <<tcpVars, sessions, inbox, presence, players, restarts>>

RouterRemove ==
  /\ RouterAt("remove")
  /\ sessions' = [sessions EXCEPT ![router.session_id] = NoSession]
  /\ Done
  /\ UNCHANGED <<tcpVars, inbox, remoteVars, restarts>>

-----------------------------------------------------------------------------
\* The process stops (crash, or shutdown, which aborts its tasks) and starts
\* again: sockets, session table, counts and queue are gone, the database and
\* the world are not.
Restart ==
  /\ restarts < MaxRestarts
  /\ restarts' = restarts + 1
  /\ conn' = [s \in Sessions |-> IF conn[s] = "none" THEN "none" ELSE "ended"]
  /\ ip_count' = [a \in Ips |-> 0]
  /\ sessions' = [s \in Sessions |-> NoSession]
  /\ inbox' = <<>>
  /\ router' = IdleRouter
  /\ UNCHANGED <<ip, phase, remoteVars>>

Init ==
  /\ conn = [s \in Sessions |-> "none"]
  /\ ip = [s \in Sessions |-> NoIp]
  /\ phase = [s \in Sessions |-> "PreAuth"]
  /\ ip_count = [a \in Ips |-> 0]
  /\ sessions = [s \in Sessions |-> NoSession]
  /\ inbox = <<>>
  /\ router = IdleRouter
  /\ db = [s \in Sessions |-> "none"]
  /\ presence = [s \in Sessions |-> NoMap]
  /\ players = [m \in Maps |-> [s \in Sessions |-> Absent]]
  /\ restarts = 0

Router ==
  \/ Take \/ Check
  \/ \E delivered, replied \in BOOLEAN : CallWorld(delivered, replied)
  \/ \E accepted, replied \in BOOLEAN : CallLogin(accepted, replied)
  \/ \E ok \in BOOLEAN, m \in Maps : CallCharacter(ok, m)
  \/ Apply
  \/ \E delivered \in BOOLEAN : AuthLogout(delivered)
  \/ RouterRemove

Client(s) ==
  \/ \E a \in Ips : Accept(s, a)
  \/ \E command \in Command : Receive(s, command)
  \/ EndOfSession(s)
  \/ ReadError(s)

ConnectionTask(s) == RemoveSession(s) \/ Leave(s)

Next ==
  \/ \E s \in Sessions : Client(s) \/ ConnectionTask(s)
  \/ Router
  \/ Restart

Spec == Init /\ [][Next]_vars

\* Every HTTP call ends within its timeout, so the router always moves on; the
\* runtime schedules the connection tasks.
Fairness == WF_vars(Router) /\ \A s \in Sessions : WF_vars(ConnectionTask(s))

FairSpec == Spec /\ Fairness

-----------------------------------------------------------------------------
\* Properties.

TypeOK ==
  /\ conn \in [Sessions -> {"none", "open", "removing", "leaving", "ended"}]
  /\ ip \in [Sessions -> Ips \cup {NoIp}]
  /\ phase \in [Sessions -> {"PreAuth", "PostAuth", "InCharacterList", "InWorld",
                            "Closed"}]
  /\ ip_count \in [Ips -> Nat]
  /\ sessions \in [Sessions -> SessionRuntime \cup {NoSession}]
  /\ inbox \in Seq(InternalCommand)
  /\ router \in RouterState \cup {IdleRouter}
  /\ db \in [Sessions -> {"none", "open", "closed"}]
  /\ presence \in [Sessions -> Maps \cup {NoMap}]
  /\ players \in [Maps -> [Sessions -> Characters \cup {NoCharacter, Absent}]]
  /\ restarts \in 0..MaxRestarts

Connected(a) ==
  {s \in Sessions : conn[s] \in {"open", "removing", "leaving"} /\ ip[s] = a}

\* The count of an address is the number of its connections that have not ended,
\* however each of them ends, and never exceeds the limit.
PerIpLimitExact ==
  \A a \in Ips : /\ ip_count[a] = Cardinality(Connected(a))
                 /\ ip_count[a] <= MaxConnectionsPerIp

\* The table says a session is in the world only for an authenticated session
\* with a character and a map, whose socket had asked to enter: the phase a
\* socket is in before the router acts never lags behind what the router did.
InWorldJustified ==
  \A s \in Sessions : IsInWorld(s) =>
    /\ IsCharacterSelected(s)
    /\ sessions[s].map_id # NoMap
    /\ phase[s] \in {"InWorld", "Closed"}

\* Once in the world, the entry of a session is frozen until it is removed: no
\* late reply, character selection or second login changes its character or map.
EntryFrozenInWorld ==
  [][\A s \in Sessions : IsInWorld(s) => sessions'[s] \in {sessions[s], NoSession}]_vars

\* The coordinator only counts sessions the auth-service accepted, also when the
\* socket's phase moved on after a rejected or failed login.
PresentWasAuthenticated ==
  \A s \in Sessions : presence[s] # NoMap => db[s] # "none"

\* A session never has a player on two maps, whatever calls fail, time out after
\* their effect, or are repeated.
NeverOnTwoMaps ==
  \A s \in Sessions : Cardinality({m \in Maps : players[m][s] # Absent}) <= 1

\* The router is about to make a call to the world-service of this kind.
CallingWorld(kind) == RouterAt("call") /\ router.command.kind = kind

\* A gameplay command only reaches a map on which its session has a player,
\* although the map was resolved, the session checked and the call made in
\* separate steps.
GameplayHitsOwnPlayer ==
  CallingWorld("Play") => players[router.map_id][router.session_id] # Absent

\* A Logout sent on while the session is still in the table goes to the map that
\* has its player.
LogoutFindsPlayer ==
  CallingWorld("Logout") /\ Known(router.session_id) =>
    \A m \in Maps \ {router.map_id} : players[m][router.session_id] = Absent

\* The router has nothing left to do for a session that is out of the table.
Forgotten(s) ==
  /\ ~Known(s)
  /\ router = IdleRouter \/ router.session_id # s
  /\ \A i \in DOMAIN inbox : inbox[i].session_id # s

\* A connection that ends by end of file or idle timeout is eventually forgotten
\* for good: its queued commands are handled and none brings the session back.
EndedSessionsForgotten ==
  \A s \in Sessions : conn[s] = "removing" ~> [](Forgotten(s))

\* The session of a connection that ended leaves the world, so that the
\* coordinator does not go on counting it.
EndedSessionsLeaveWorld ==
  \A s \in Sessions : conn[s] = "ended" ~> presence[s] = NoMap

=============================================================================
