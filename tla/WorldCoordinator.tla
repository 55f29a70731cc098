--------------------------- MODULE WorldCoordinator ---------------------------
(***************************************************************************)
(* The world coordinator (crates/world/src/lib.rs): one task that owns the *)
(* presence table of the world and receives every message from one bounded *)
(* channel, the inbox.  It registers and unregisters map runtimes, counts  *)
(* the players of each map as EnterWorld and Logout commands pass through, *)
(* answers statistics requests, and forwards routed commands to the        *)
(* channel of the map.  The forward is an awaited send: while the channel  *)
(* of one map is full, the coordinator handles no message at all.          *)
(*                                                                         *)
(* The senders (gateway requests, map manager, statistics handlers) and    *)
(* the receiving ends of the map channels are the environment: any sender  *)
(* may queue any message at any time.                                      *)
(***************************************************************************)
EXTENDS Naturals, Sequences, FiniteSets

CONSTANTS
  Maps,          \* map identifiers (i32 in the code)
  Sessions,      \* session identifiers (Uuid)
  Channels,      \* identities of the world -> map channels, one per activation
  Askers,        \* the HTTP handlers that ask for statistics
  NoMap,         \* "absent" in session_map
  NoChannel,     \* "absent" in map_senders
  InboxCapacity, \* capacity of the world channel (4096 in world-service)
  MapCapacity    \* capacity of one map channel (8192 in world-service)

ASSUME SessionsFinite == IsFiniteSet(Sessions)
ASSUME NoMapOutside == NoMap \notin Maps
ASSUME NoChannelOutside == NoChannel \notin Channels
ASSUME CapacitiesPositive ==
  InboxCapacity \in Nat \ {0} /\ MapCapacity \in Nat \ {0}

VARIABLES
  inbox,          \* messages sent to the coordinator and not yet received
  map_senders,    \* the sending end registered for each map
  players_by_map, \* the counter of each map; an absent entry counts as 0
  session_map,    \* the map each session is counted on
  forwarding,     \* the routed command whose send to the map is awaited
  chan,           \* commands waiting in each map channel
  opened,         \* channels created so far
  closed,         \* channels whose receiving end was dropped
  request,        \* state of each statistics request
  stats           \* the last reply each asker received

coordVars == <<map_senders, players_by_map, session_map, forwarding>>
chanVars  == <<chan, opened, closed>>
statVars  == <<request, stats>>
vars == <<inbox, coordVars, chanVars, statVars>>

-----------------------------------------------------------------------------
\* Messages and commands.

\* EnterWorld and Logout are the commands the coordinator looks at; "Play"
\* stands for all the others (Move, Attack, Chat, Heartbeat, ...), which it
\* only forwards.
Commands == {"EnterWorld", "Logout", "Play"}

RegisterMsg(m, c)  == [kind |-> "RegisterMap", map_id |-> m, tx |-> c]
UnregisterMsg(m)   == [kind |-> "UnregisterMap", map_id |-> m]
RouteMsg(m, s, cmd) ==
  [kind |-> "RouteToMap", map_id |-> m, session_id |-> s, command |-> cmd]
BroadcastMsg       == [kind |-> "Broadcast"]
GetStatsMsg(a)     == [kind |-> "GetStats", reply |-> a]

WorldMessage ==
  [kind : {"RegisterMap"}, map_id : Maps, tx : Channels]
    \cup [kind : {"UnregisterMap"}, map_id : Maps]
    \cup [kind : {"RouteToMap"}, map_id : Maps, session_id : Sessions,
          command : Commands]
    \cup [kind : {"Broadcast"}]
    \cup [kind : {"GetStats"}, reply : Askers]

RoutedCommand == [session_id : Sessions, command : Commands]

\* A send in progress, and the coordinator free to receive.
Forward == [tx : Channels, cmd : RoutedCommand]
Idle    == [tx |-> NoChannel]

\* Mutant of Dec: a plain subtraction in place of the saturating one.
DecPlain(n) == n - 1

Dec(n) == IF n = 0 THEN 0 ELSE n - 1    \* u64::saturating_sub(1)

SessionsIn(m) == {s \in Sessions : session_map[s] = m}

-----------------------------------------------------------------------------
\* The coordinator: receive one message and handle it.

Receives(kind) ==
  /\ forwarding = Idle
  /\ inbox # <<>>
  /\ Head(inbox).kind = kind
  /\ inbox' = Tail(inbox)

RegisterMap ==
  /\ Receives("RegisterMap")
  /\ map_senders' = [map_senders EXCEPT ![Head(inbox).map_id] = Head(inbox).tx]
  /\ UNCHANGED <<players_by_map, session_map, forwarding, chanVars, statVars>>

\* Mutant of UnregisterMap: the sessions of the map are not dropped.
UnregisterMapKeepsSessions ==
  /\ Receives("UnregisterMap")
  /\ map_senders' = [map_senders EXCEPT ![Head(inbox).map_id] = NoChannel]
  /\ players_by_map' = [players_by_map EXCEPT ![Head(inbox).map_id] = 0]
  /\ UNCHANGED <<session_map, forwarding, chanVars, statVars>>

UnregisterMap ==
  /\ Receives("UnregisterMap")
  /\ LET m == Head(inbox).map_id IN
       /\ map_senders' = [map_senders EXCEPT ![m] = NoChannel]
       /\ players_by_map' = [players_by_map EXCEPT ![m] = 0]
       /\ session_map' = [s \in Sessions |->
                            IF session_map[s] = m THEN NoMap ELSE session_map[s]]
  /\ UNCHANGED <<forwarding, chanVars, statVars>>

\* Mutant of CountEnter: every EnterWorld counts, a repeated one too.
CountEveryEnter(s, m) ==
  /\ session_map' = [session_map EXCEPT ![s] = m]
  /\ players_by_map' = [players_by_map EXCEPT ![m] = @ + 1]

\* A session that enters a map leaves the map it was counted on, if another.
CountEnter(s, m) ==
  LET prev == session_map[s] IN
    /\ session_map' = [session_map EXCEPT ![s] = m]
    /\ players_by_map' =
         IF prev = m THEN players_by_map
         ELSE [n \in Maps |-> IF n = m THEN players_by_map[n] + 1
                              ELSE IF n = prev THEN Dec(players_by_map[n])
                              ELSE players_by_map[n]]

\* A session that is counted nowhere is taken off the map of the command.
CountLogout(s, m) ==
  LET left == IF session_map[s] = NoMap THEN m ELSE session_map[s] IN
    /\ session_map' = [session_map EXCEPT ![s] = NoMap]
    /\ players_by_map' = [players_by_map EXCEPT ![left] = Dec(@)]

CountNothing == UNCHANGED <<session_map, players_by_map>>

RouteToMap ==
  /\ Receives("RouteToMap")
  /\ LET msg == Head(inbox)
         tx  == map_senders[msg.map_id] IN
       /\ \/ msg.command = "EnterWorld" /\ CountEnter(msg.session_id, msg.map_id)
          \/ msg.command = "Logout" /\ CountLogout(msg.session_id, msg.map_id)
          \/ msg.command = "Play" /\ CountNothing
       /\ forwarding' =
            IF tx = NoChannel THEN Idle
            ELSE [tx |-> tx, cmd |-> [session_id |-> msg.session_id,
                                      command |-> msg.command]]
  /\ UNCHANGED <<map_senders, chanVars, statVars>>

\* The awaited send completes when the channel has room ...
ForwardSent ==
  /\ forwarding # Idle
  /\ forwarding.tx \notin closed
  /\ Len(chan[forwarding.tx]) < MapCapacity
  /\ chan' = [chan EXCEPT ![forwarding.tx] = Append(@, forwarding.cmd)]
  /\ forwarding' = Idle
  /\ UNCHANGED <<inbox, map_senders, players_by_map, session_map, opened, closed,
                 statVars>>

\* ... or fails when its receiver is gone; the error is ignored.
ForwardLost ==
  /\ forwarding # Idle
  /\ forwarding.tx \in closed
  /\ forwarding' = Idle
  /\ UNCHANGED <<inbox, map_senders, players_by_map, session_map, chanVars,
                 statVars>>

Broadcast ==
  /\ Receives("Broadcast")
  /\ UNCHANGED <<coordVars, chanVars, statVars>>

GetStats ==
  /\ Receives("GetStats")
  /\ stats' = [stats EXCEPT ![Head(inbox).reply] = players_by_map]
  /\ request' = [request EXCEPT ![Head(inbox).reply] = "answered"]
  /\ UNCHANGED <<coordVars, chanVars>>

Coordinator ==
  \/ RegisterMap \/ UnregisterMap \/ RouteToMap \/ Broadcast \/ GetStats
  \/ ForwardSent \/ ForwardLost

-----------------------------------------------------------------------------
\* The environment: the senders of the inbox and the receivers of the maps.

\* mpsc::Sender::send completes once the channel has room.
Send(msg) ==
  /\ Len(inbox) < InboxCapacity
  /\ inbox' = Append(inbox, msg)

\* MapRuntimeManager::activate creates a channel and registers its sender.
SendRegister(m, c) ==
  /\ c \notin opened
  /\ opened' = opened \cup {c}
  /\ Send(RegisterMsg(m, c))
  /\ UNCHANGED <<coordVars, chan, closed, statVars>>

SendUnregister(m) ==
  /\ Send(UnregisterMsg(m))
  /\ UNCHANGED <<coordVars, chanVars, statVars>>

\* WorldHandle::route_to_map, for the HTTP route handler.
SendRoute(m, s, cmd) ==
  /\ Send(RouteMsg(m, s, cmd))
  /\ UNCHANGED <<coordVars, chanVars, statVars>>

\* WorldHandle::broadcast.
SendBroadcast ==
  /\ Send(BroadcastMsg)
  /\ UNCHANGED <<coordVars, chanVars, statVars>>

\* WorldHandle::get_stats: the request, and the handler taking the reply.
SendGetStats(a) ==
  /\ request[a] = "none"
  /\ Send(GetStatsMsg(a))
  /\ request' = [request EXCEPT ![a] = "waiting"]
  /\ UNCHANGED <<coordVars, chanVars, stats>>

TakeStats(a) ==
  /\ request[a] = "answered"
  /\ request' = [request EXCEPT ![a] = "none"]
  /\ UNCHANGED <<inbox, coordVars, chanVars, stats>>

\* Mutant of RouterTake: the router task batches, and waits for a second command.
RouterTakeBatch(c) ==
  /\ c \in opened \ closed
  /\ Len(chan[c]) > 1
  /\ chan' = [chan EXCEPT ![c] = <<>>]
  /\ UNCHANGED <<inbox, coordVars, opened, closed, statVars>>

\* The router task of a runtime takes the next command of its channel.
RouterTake(c) ==
  /\ c \in opened \ closed
  /\ chan[c] # <<>>
  /\ chan' = [chan EXCEPT ![c] = Tail(@)]
  /\ UNCHANGED <<inbox, coordVars, opened, closed, statVars>>

\* The router task is aborted: its receiver and what it holds are dropped.
DropReceiver(c) ==
  /\ c \in opened \ closed
  /\ closed' = closed \cup {c}
  /\ chan' = [chan EXCEPT ![c] = <<>>]
  /\ UNCHANGED <<inbox, coordVars, opened, statVars>>

Environment ==
  \/ \E m \in Maps, c \in Channels : SendRegister(m, c)
  \/ \E m \in Maps : SendUnregister(m)
  \/ \E m \in Maps, s \in Sessions, cmd \in Commands : SendRoute(m, s, cmd)
  \/ SendBroadcast
  \/ \E a \in Askers : SendGetStats(a) \/ TakeStats(a)
  \/ \E c \in Channels : RouterTake(c) \/ DropReceiver(c)

-----------------------------------------------------------------------------
Init ==
  /\ inbox = <<>>
  /\ map_senders = [m \in Maps |-> NoChannel]
  /\ players_by_map = [m \in Maps |-> 0]
  /\ session_map = [s \in Sessions |-> NoMap]
  /\ forwarding = Idle
  /\ chan = [c \in Channels |-> <<>>]
  /\ opened = {}
  /\ closed = {}
  /\ request = [a \in Askers |-> "none"]
  /\ stats = [a \in Askers |-> [m \in Maps |-> 0]]

Next == Coordinator \/ Environment

Spec == Init /\ [][Next]_vars

-----------------------------------------------------------------------------
\* Properties.

TypeOK ==
  /\ inbox \in Seq(WorldMessage)
  /\ map_senders \in [Maps -> Channels \cup {NoChannel}]
  /\ players_by_map \in [Maps -> Nat]
  /\ session_map \in [Sessions -> Maps \cup {NoMap}]
  /\ forwarding \in Forward \cup {Idle}
  /\ chan \in [Channels -> Seq(RoutedCommand)]
  /\ opened \subseteq Channels
  /\ closed \subseteq opened
  /\ request \in [Askers -> {"none", "waiting", "answered"}]
  /\ stats \in [Askers -> [Maps -> Nat]]

\* No session is ever counted twice: whatever sequence of enters, map changes,
\* logouts and unregistrations arrives, the counter of a map stays at or below
\* the number of sessions the presence table places on it.
NeverOverCounts ==
  \A m \in Maps : players_by_map[m] <= Cardinality(SessionsIn(m))

\* The counter of every map equals the number of sessions placed on it.
CountsExact ==
  \A m \in Maps : players_by_map[m] = Cardinality(SessionsIn(m))

\* The message at the head of the inbox is a Logout of a session that is
\* counted nowhere.
StrayLogoutNext ==
  /\ inbox # <<>>
  /\ Head(inbox).kind = "RouteToMap"
  /\ Head(inbox).command = "Logout"
  /\ session_map[Head(inbox).session_id] = NoMap

\* Exact counters stay exact: the only message after which a counter can
\* disagree with the presence table is the Logout of a session the table does
\* not hold.
OnlyStrayLogoutMiscounts ==
  [][CountsExact /\ ~StrayLogoutNext => CountsExact']_vars

\* The coordinator accepts every message it was sent: a statistics request is
\* answered although a forward ahead of it may wait for a full map channel.
StatsAnswered ==
  \A a \in Askers : request[a] = "waiting" ~> request[a] = "answered"

=============================================================================
