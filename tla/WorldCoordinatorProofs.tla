------------------------ MODULE WorldCoordinatorProofs ------------------------
(***************************************************************************)
(* Proofs about the world coordinator, for every set of maps, sessions and *)
(* channels and all capacities.                                            *)
(***************************************************************************)
EXTENDS WorldCoordinator, FiniteSetTheorems, TLAPS

\* The fields a message has, from its kind: what each match arm of the
\* coordinator may read from the message it received.
LEMMA MessageShape ==
  ASSUME NEW msg \in WorldMessage
  PROVE  /\ msg.kind = "RegisterMap" => msg.map_id \in Maps /\ msg.tx \in Channels
         /\ msg.kind = "UnregisterMap" => msg.map_id \in Maps
         /\ msg.kind = "RouteToMap" => /\ msg.map_id \in Maps
                                       /\ msg.session_id \in Sessions
                                       /\ msg.command \in Commands
         /\ msg.kind = "GetStats" => msg.reply \in Askers
  BY DEF WorldMessage

\* Receiving takes a well-formed message and leaves a well-formed inbox.
LEMMA ReceiveType ==
  ASSUME TypeOK, NEW kind, Receives(kind)
  PROVE  Head(inbox) \in WorldMessage /\ inbox' \in Seq(WorldMessage)
  BY DEF TypeOK, Receives

\* Every message the environment queues is well formed.
LEMMA SendType ==
  ASSUME TypeOK, NEW msg \in WorldMessage, Send(msg)
  PROVE  inbox' \in Seq(WorldMessage)
  BY DEF TypeOK, Send

\* One message keeps the counters and the presence table well typed.
LEMMA CountType ==
  ASSUME TypeOK, NEW s \in Sessions, NEW m \in Maps,
         CountEnter(s, m) \/ CountLogout(s, m) \/ CountNothing
  PROVE  /\ players_by_map' \in [Maps -> Nat]
         /\ session_map' \in [Sessions -> Maps \cup {NoMap}]
<1>1. CASE CountEnter(s, m)
  BY <1>1 DEF CountEnter, TypeOK, Dec
<1>2. CASE CountLogout(s, m)
  BY <1>2, NoMapOutside DEF CountLogout, TypeOK, Dec
<1>3. CASE CountNothing
  BY <1>3 DEF CountNothing, TypeOK
<1> QED BY <1>1, <1>2, <1>3

\* Every variable keeps its type in every step of the coordinator and of its
\* environment.
LEMMA TypeStep == TypeOK /\ [Next]_vars => TypeOK'
<1> SUFFICES ASSUME TypeOK, [Next]_vars PROVE TypeOK'
  OBVIOUS
<1> USE DEF coordVars, chanVars, statVars
<1>1. CASE RegisterMap
  <2>1. Receives("RegisterMap") BY <1>1 DEF RegisterMap
  <2>2. Head(inbox).map_id \in Maps /\ Head(inbox).tx \in Channels
    BY <2>1, ReceiveType, MessageShape DEF Receives
  <2> QED BY <1>1, <2>1, <2>2, ReceiveType DEF RegisterMap, TypeOK
<1>2. CASE UnregisterMap
  <2>1. Receives("UnregisterMap") BY <1>2 DEF UnregisterMap
  <2>2. Head(inbox).map_id \in Maps
    BY <2>1, ReceiveType, MessageShape DEF Receives
  <2> QED BY <1>2, <2>1, <2>2, ReceiveType DEF UnregisterMap, TypeOK
<1>3. CASE RouteToMap
  <2>1. Receives("RouteToMap") BY <1>3 DEF RouteToMap
  <2> DEFINE msg == Head(inbox)
  <2>2. msg.map_id \in Maps /\ msg.session_id \in Sessions /\ msg.command \in Commands
    BY <2>1, ReceiveType, MessageShape DEF Receives
  <2>3. /\ players_by_map' \in [Maps -> Nat]
        /\ session_map' \in [Sessions -> Maps \cup {NoMap}]
    BY <1>3, <2>2, CountType DEF RouteToMap
  <2>4. forwarding' \in Forward \cup {Idle}
    BY <1>3, <2>2 DEF RouteToMap, TypeOK, Forward, RoutedCommand
  <2> QED BY <1>3, <2>1, <2>3, <2>4, ReceiveType DEF RouteToMap, TypeOK
<1>4. CASE Broadcast
  <2>1. Receives("Broadcast") BY <1>4 DEF Broadcast
  <2> QED BY <1>4, <2>1, ReceiveType DEF Broadcast, TypeOK
<1>5. CASE GetStats
  <2>1. Receives("GetStats") BY <1>5 DEF GetStats
  <2>2. Head(inbox).reply \in Askers
    BY <2>1, ReceiveType, MessageShape DEF Receives
  <2> QED BY <1>5, <2>1, <2>2, ReceiveType DEF GetStats, TypeOK
<1>6. CASE ForwardSent
  <2>1. forwarding.tx \in Channels /\ forwarding.cmd \in RoutedCommand
    BY <1>6 DEF ForwardSent, TypeOK, Forward
  <2>2. chan' \in [Channels -> Seq(RoutedCommand)]
    BY <1>6, <2>1 DEF ForwardSent, TypeOK
  <2> QED BY <1>6, <2>2 DEF ForwardSent, TypeOK
<1>7. CASE ForwardLost
  BY <1>7 DEF ForwardLost, TypeOK
<1>8. ASSUME NEW m \in Maps, NEW c \in Channels, SendRegister(m, c) PROVE TypeOK'
  <2>1. RegisterMsg(m, c) \in WorldMessage BY DEF RegisterMsg, WorldMessage
  <2> QED BY <1>8, <2>1, SendType DEF SendRegister, TypeOK
<1>9. ASSUME NEW m \in Maps, SendUnregister(m) PROVE TypeOK'
  <2>1. UnregisterMsg(m) \in WorldMessage BY DEF UnregisterMsg, WorldMessage
  <2> QED BY <1>9, <2>1, SendType DEF SendUnregister, TypeOK
<1>10. ASSUME NEW m \in Maps, NEW s \in Sessions, NEW cmd \in Commands,
              SendRoute(m, s, cmd)
       PROVE  TypeOK'
  <2>1. RouteMsg(m, s, cmd) \in WorldMessage BY DEF RouteMsg, WorldMessage
  <2> QED BY <1>10, <2>1, SendType DEF SendRoute, TypeOK
<1>11. CASE SendBroadcast
  <2>1. BroadcastMsg \in WorldMessage BY DEF BroadcastMsg, WorldMessage
  <2> QED BY <1>11, <2>1, SendType DEF SendBroadcast, TypeOK
<1>12. ASSUME NEW a \in Askers, SendGetStats(a) \/ TakeStats(a) PROVE TypeOK'
  <2>1. GetStatsMsg(a) \in WorldMessage BY DEF GetStatsMsg, WorldMessage
  <2>2. CASE SendGetStats(a)
    BY <2>1, <2>2, SendType DEF SendGetStats, TypeOK
  <2>3. CASE TakeStats(a)
    BY <2>3 DEF TakeStats, TypeOK
  <2> QED BY <1>12, <2>2, <2>3
<1>13. ASSUME NEW c \in Channels, RouterTake(c) \/ DropReceiver(c) PROVE TypeOK'
  <2>1. CASE RouterTake(c)
    <3>1. Tail(chan[c]) \in Seq(RoutedCommand) BY <2>1 DEF RouterTake, TypeOK
    <3> QED BY <2>1, <3>1 DEF RouterTake, TypeOK
  <2>2. CASE DropReceiver(c)
    <3>1. <<>> \in Seq(RoutedCommand) OBVIOUS
    <3>2. chan' \in [Channels -> Seq(RoutedCommand)]
      BY <2>2, <3>1 DEF DropReceiver, TypeOK
    <3> QED BY <2>2, <3>2 DEF DropReceiver, TypeOK
  <2> QED BY <1>13, <2>1, <2>2
<1>14. CASE UNCHANGED vars
  BY <1>14 DEF vars, TypeOK
<1> QED
  BY <1>1, <1>2, <1>3, <1>4, <1>5, <1>6, <1>7, <1>8, <1>9, <1>10, <1>11, <1>12,
     <1>13, <1>14 DEF Next, Coordinator, Environment

\* The initial values are well typed.
LEMMA TypeInit == Init => TypeOK
  BY DEF Init, TypeOK

\* Every reachable state is well typed: the counters never go negative, and a
\* forward in progress always names a channel and a whole command.
THEOREM TypeCorrect == Spec => []TypeOK
  BY TypeInit, TypeStep, PTL DEF Spec

-----------------------------------------------------------------------------
\* The counters against the presence table.

\* The sessions on a map are finitely many, before and after a step.
LEMMA SessionsInFinite ==
  \A m : /\ IsFiniteSet(SessionsIn(m)) /\ Cardinality(SessionsIn(m)) \in Nat
         /\ IsFiniteSet(SessionsIn(m)') /\ Cardinality(SessionsIn(m)') \in Nat
<1> TAKE m
<1>1. SessionsIn(m) \subseteq Sessions /\ SessionsIn(m)' \subseteq Sessions
  BY DEF SessionsIn
<1> QED BY <1>1, SessionsFinite, FS_Subset, FS_CardinalityType

\* Placing session s on map m adds it there and takes it off every other map.
LEMMA PlaceSession ==
  ASSUME TypeOK, NEW s \in Sessions, NEW m \in Maps,
         session_map' = [session_map EXCEPT ![s] = m]
  PROVE  /\ SessionsIn(m)' = SessionsIn(m) \cup {s}
         /\ \A n \in Maps \ {m} : SessionsIn(n)' = SessionsIn(n) \ {s}
  BY DEF TypeOK, SessionsIn

\* Removing session s from the presence table takes it off every map.
LEMMA RemoveSession ==
  ASSUME TypeOK, NEW s \in Sessions,
         session_map' = [session_map EXCEPT ![s] = NoMap]
  PROVE  \A n \in Maps : SessionsIn(n)' = SessionsIn(n) \ {s}
  BY NoMapOutside DEF TypeOK, SessionsIn

\* The number of sessions on a map after s is added to or removed from it.
LEMMA SizeAfter ==
  ASSUME NEW n, NEW s
  PROVE  /\ SessionsIn(n)' = SessionsIn(n) \cup {s} =>
              Cardinality(SessionsIn(n)') =
                IF s \in SessionsIn(n) THEN Cardinality(SessionsIn(n))
                ELSE Cardinality(SessionsIn(n)) + 1
         /\ SessionsIn(n)' = SessionsIn(n) \ {s} =>
              Cardinality(SessionsIn(n)') =
                IF s \in SessionsIn(n) THEN Cardinality(SessionsIn(n)) - 1
                ELSE Cardinality(SessionsIn(n))
  BY SessionsInFinite, FS_AddElement, FS_RemoveElement

\* A map that holds a session has a positive number of sessions.
LEMMA OccupiedIsPositive ==
  ASSUME NEW n, NEW s \in SessionsIn(n)
  PROVE  Cardinality(SessionsIn(n)) > 0
  BY SessionsInFinite, FS_EmptySet

\* EnterWorld changes each counter by exactly what it changes the number of
\* sessions by, unless the counter of the map left was 0 already.
LEMMA EnterCounts ==
  ASSUME TypeOK, NEW s \in Sessions, NEW m \in Maps, CountEnter(s, m)
  PROVE  /\ NeverOverCounts => NeverOverCounts'
         /\ CountsExact => CountsExact'
<1>1. session_map' = [session_map EXCEPT ![s] = m] BY DEF CountEnter
<1> DEFINE prev == session_map[s]
<1>2. ASSUME NEW n \in Maps
      PROVE  /\ players_by_map[n] <= Cardinality(SessionsIn(n)) =>
                  players_by_map'[n] <= Cardinality(SessionsIn(n)')
             /\ players_by_map[n] = Cardinality(SessionsIn(n)) =>
                  players_by_map'[n] = Cardinality(SessionsIn(n)')
  <2>0. players_by_map[n] \in Nat /\ Cardinality(SessionsIn(n)) \in Nat
    BY SessionsInFinite DEF TypeOK
  <2>1. CASE n = m
    <3>1. s \in SessionsIn(n) <=> prev = m BY <2>1 DEF SessionsIn
    <3>2. players_by_map'[n] = IF prev = m THEN players_by_map[n]
                               ELSE players_by_map[n] + 1
      BY <2>1 DEF CountEnter, TypeOK
    <3>3. Cardinality(SessionsIn(n)') =
            IF prev = m THEN Cardinality(SessionsIn(n))
            ELSE Cardinality(SessionsIn(n)) + 1
      BY <1>1, <2>1, <3>1, PlaceSession, SizeAfter
    <3> QED BY <2>0, <3>2, <3>3
  <2>2. CASE n # m
    <3>1. s \in SessionsIn(n) <=> prev = n BY DEF SessionsIn
    <3>2. players_by_map'[n] = IF prev = n THEN Dec(players_by_map[n])
                               ELSE players_by_map[n]
      BY <2>2 DEF CountEnter, TypeOK
    <3>3. Cardinality(SessionsIn(n)') =
            IF prev = n THEN Cardinality(SessionsIn(n)) - 1
            ELSE Cardinality(SessionsIn(n))
      BY <1>1, <2>2, <3>1, PlaceSession, SizeAfter
    <3>4. prev = n => Cardinality(SessionsIn(n)) > 0
      BY <3>1, OccupiedIsPositive
    <3> QED BY <2>0, <3>2, <3>3, <3>4 DEF Dec
  <2> QED BY <2>1, <2>2
<1> QED BY <1>2 DEF NeverOverCounts, CountsExact

\* Logout never raises a counter above the number of sessions, and keeps exact
\* counters exact when the session is one the table holds.
LEMMA LogoutCounts ==
  ASSUME TypeOK, NEW s \in Sessions, NEW m \in Maps, CountLogout(s, m)
  PROVE  /\ NeverOverCounts => NeverOverCounts'
         /\ CountsExact /\ session_map[s] # NoMap => CountsExact'
<1> DEFINE left == IF session_map[s] = NoMap THEN m ELSE session_map[s]
<1>1. session_map' = [session_map EXCEPT ![s] = NoMap] BY DEF CountLogout
<1>2. left \in Maps BY DEF TypeOK
<1>3. ASSUME NEW n \in Maps
      PROVE  /\ players_by_map[n] <= Cardinality(SessionsIn(n)) =>
                  players_by_map'[n] <= Cardinality(SessionsIn(n)')
             /\ players_by_map[n] = Cardinality(SessionsIn(n)) /\ session_map[s] # NoMap
                  => players_by_map'[n] = Cardinality(SessionsIn(n)')
  <2>0. players_by_map[n] \in Nat /\ Cardinality(SessionsIn(n)) \in Nat
    BY SessionsInFinite DEF TypeOK
  <2>1. players_by_map'[n] = IF n = left THEN Dec(players_by_map[n])
                             ELSE players_by_map[n]
    BY <1>2 DEF CountLogout, TypeOK
  <2>2. s \in SessionsIn(n) <=> session_map[s] = n BY DEF SessionsIn
  <2>3. Cardinality(SessionsIn(n)') =
          IF session_map[s] = n THEN Cardinality(SessionsIn(n)) - 1
          ELSE Cardinality(SessionsIn(n))
    BY <1>1, <2>2, RemoveSession, SizeAfter
  <2>4. session_map[s] = n => Cardinality(SessionsIn(n)) > 0 /\ n = left
    BY <2>2, OccupiedIsPositive, NoMapOutside
  <2>5. n = left /\ session_map[s] # NoMap => session_map[s] = n
    OBVIOUS
  <2> QED BY <2>0, <2>1, <2>3, <2>4, <2>5 DEF Dec
<1> QED BY <1>3 DEF NeverOverCounts, CountsExact

\* Unregistering a map empties its counter and its sessions together.
LEMMA UnregisterCounts ==
  ASSUME TypeOK, UnregisterMap
  PROVE  /\ NeverOverCounts => NeverOverCounts'
         /\ CountsExact => CountsExact'
<1>0. Receives("UnregisterMap") BY DEF UnregisterMap
<1>1. PICK m \in Maps : m = Head(inbox).map_id
  BY <1>0, ReceiveType, MessageShape DEF Receives
<1>2. /\ players_by_map' = [players_by_map EXCEPT ![m] = 0]
      /\ session_map' = [s \in Sessions |->
                           IF session_map[s] = m THEN NoMap ELSE session_map[s]]
  BY <1>1 DEF UnregisterMap
<1>3. SessionsIn(m)' = {}
  BY <1>1, <1>2, NoMapOutside DEF SessionsIn
<1>4. \A n \in Maps \ {m} : SessionsIn(n)' = SessionsIn(n)
  BY <1>1, <1>2, NoMapOutside DEF SessionsIn
<1>5. \A n \in Maps : players_by_map'[n] = IF n = m THEN 0 ELSE players_by_map[n]
  BY <1>1, <1>2 DEF TypeOK
<1>6. \A n \in Maps : Cardinality(SessionsIn(n)') =
                        IF n = m THEN 0 ELSE Cardinality(SessionsIn(n))
  BY <1>3, <1>4, FS_EmptySet
<1> QED BY <1>5, <1>6 DEF NeverOverCounts, CountsExact

\* Only three messages touch the counters or the table.
LEMMA CountingSteps ==
  ASSUME TypeOK, [Next]_vars
  PROVE  \/ UnregisterMap
         \/ /\ RouteToMap
            /\ \E s \in Sessions, m \in Maps :
                 \/ CountEnter(s, m)
                 \/ /\ CountLogout(s, m)
                    /\ inbox # <<>>
                    /\ Head(inbox).kind = "RouteToMap"
                    /\ Head(inbox).command = "Logout"
                    /\ s = Head(inbox).session_id
         \/ UNCHANGED <<players_by_map, session_map>>
<1>1. CASE RouteToMap
  <2>1. Receives("RouteToMap") BY <1>1 DEF RouteToMap
  <2>2. Head(inbox).map_id \in Maps /\ Head(inbox).session_id \in Sessions
    BY <2>1, ReceiveType, MessageShape DEF Receives
  <2> QED BY <1>1, <2>1, <2>2 DEF RouteToMap, Receives, CountNothing
<1>2. CASE ~RouteToMap /\ ~UnregisterMap
  BY <1>2 DEF Next, Coordinator, Environment, RegisterMap, Broadcast, GetStats,
     ForwardSent, ForwardLost, SendRegister, SendUnregister, SendRoute,
     SendBroadcast, SendGetStats, TakeStats, RouterTake, DropReceiver, vars,
     coordVars
<1> QED BY <1>1, <1>2

\* A step that leaves counters and table alone leaves both relations alone.
LEMMA CountsUntouched ==
  ASSUME UNCHANGED <<players_by_map, session_map>>
  PROVE  /\ NeverOverCounts => NeverOverCounts'
         /\ CountsExact => CountsExact'
  BY DEF NeverOverCounts, CountsExact, SessionsIn

\* The counters start at the number of sessions of an empty world.
LEMMA CountsInit == Init => NeverOverCounts
<1> SUFFICES ASSUME Init, NEW m \in Maps
             PROVE  players_by_map[m] <= Cardinality(SessionsIn(m))
  BY DEF NeverOverCounts
<1>1. players_by_map[m] = 0 BY DEF Init
<1> QED BY <1>1, SessionsInFinite

\* The world coordinator never counts a session twice
\* (world_stats_do_not_double_count_same_session, for every message sequence).
THEOREM NeverOverCountsInvariant == Spec => []NeverOverCounts
<1>1. TypeOK /\ NeverOverCounts /\ [Next]_vars => NeverOverCounts'
  BY CountingSteps, CountsUntouched, EnterCounts, LogoutCounts, UnregisterCounts
<1> QED BY <1>1, CountsInit, TypeCorrect, PTL DEF Spec

\* Exact counters are only lost to the Logout of a session counted nowhere.
THEOREM ExactUntilStrayLogout == Spec => OnlyStrayLogoutMiscounts
<1>1. TypeOK /\ [Next]_vars => [CountsExact /\ ~StrayLogoutNext => CountsExact']_vars
  <2> SUFFICES ASSUME TypeOK, [Next]_vars, CountsExact, ~StrayLogoutNext
               PROVE  CountsExact'
    OBVIOUS
  <2>1. CASE UNCHANGED <<players_by_map, session_map>>
    BY <2>1, CountsUntouched
  <2>2. CASE UnregisterMap
    BY <2>2, UnregisterCounts
  <2>3. ASSUME NEW s \in Sessions, NEW m \in Maps, CountEnter(s, m)
        PROVE  CountsExact'
    BY <2>3, EnterCounts
  <2>4. ASSUME NEW s \in Sessions, NEW m \in Maps, CountLogout(s, m),
               inbox # <<>>, Head(inbox).kind = "RouteToMap",
               Head(inbox).command = "Logout", s = Head(inbox).session_id
        PROVE  CountsExact'
    <3>1. session_map[s] # NoMap BY <2>4 DEF StrayLogoutNext
    <3> QED BY <2>4, <3>1, LogoutCounts
  <2> QED BY <2>1, <2>2, <2>3, <2>4, CountingSteps
<1> QED BY <1>1, TypeCorrect, PTL DEF Spec, OnlyStrayLogoutMiscounts

=============================================================================
