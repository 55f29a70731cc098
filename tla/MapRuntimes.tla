------------------------------ MODULE MapRuntimes ------------------------------
(***************************************************************************)
(* The map runtime manager of the world-service                            *)
(* (apps/world-service/src/main.rs) composed with the world coordinator.   *)
(*                                                                         *)
(* HTTP handlers activate and deactivate maps.  The manager keeps a table  *)
(* of the running maps behind an async mutex: activate holds it across the *)
(* send of RegisterMap, deactivate releases it before it sends             *)
(* UnregisterMap, and both only queue a message that the coordinator acts  *)
(* on later.  A handler whose client goes away is dropped at the await it  *)
(* is suspended on.                                                        *)
(*                                                                         *)
(* Each activation has a channel identity of its own, which also stands    *)
(* for the pair of tasks (router and map) that activation spawned.         *)
(***************************************************************************)
EXTENDS WorldCoordinator

\* The askers of WorldCoordinator are the HTTP handlers here.
Handlers == Askers

CONSTANT NoHandler    \* the mutex is free

ASSUME NoHandlerOutside == NoHandler \notin Handlers

VARIABLES
  runtimes,  \* the manager's table: the activation each map runs
  lock,      \* the handler that holds the mutex of the table
  handler,   \* what each HTTP handler is doing
  live,      \* activations whose map task is running
  detached   \* per map, activations whose JoinHandles were dropped unaborted

rtVars  == <<runtimes, lock, handler, live, detached>>
allVars == <<vars, rtVars>>

HandlerPc == {"idle", "activate", "register", "asking", "deactivate",
              "unregister", "abort"}

HandlerState == [pc : HandlerPc, map_id : Maps \cup {NoMap},
                 tx : Channels \cup {NoChannel}]

IdleHandler == [pc |-> "idle", map_id |-> NoMap, tx |-> NoChannel]

At(h, pc) == handler[h].pc = pc

Become(h, pc, m, c) ==
  handler' = [handler EXCEPT ![h] = [pc |-> pc, map_id |-> m, tx |-> c]]

Goto(h, pc) == Become(h, pc, handler[h].map_id, handler[h].tx)

Return(h) == handler' = [handler EXCEPT ![h] = IdleHandler]

-----------------------------------------------------------------------------
\* POST /v1/world/maps/:map_id/activate.

Activating == {h \in Handlers : At(h, "activate") \/ At(h, "register")}

\* The request passed the catalog check (a map that is not in the catalog is
\* refused before any state changes).  The guard on the fresh channels is the
\* bound of the model: an activation that starts finds a channel to create.
BeginActivate(h, m) ==
  /\ At(h, "idle")
  /\ Cardinality(Channels \ opened) > Cardinality(Activating)
  /\ Become(h, "activate", m, NoChannel)
  /\ UNCHANGED <<vars, runtimes, lock, live, detached>>

\* Mutant of ActivateAlready: the early return forgets the mutex.
ActivateAlreadyLocked(h) ==
  /\ At(h, "activate")
  /\ lock = NoHandler
  /\ runtimes[handler[h].map_id] # NoChannel
  /\ Return(h)
  /\ lock' = h
  /\ UNCHANGED <<vars, runtimes, live, detached>>

\* The table already has the map: the mutex is released on return.
ActivateAlready(h) ==
  /\ At(h, "activate")
  /\ lock = NoHandler
  /\ runtimes[handler[h].map_id] # NoChannel
  /\ Return(h)
  /\ UNCHANGED <<vars, runtimes, lock, live, detached>>

\* The mutex is taken and kept across the send of RegisterMap.
ActivateLock(h) ==
  /\ At(h, "activate")
  /\ lock = NoHandler
  /\ runtimes[handler[h].map_id] = NoChannel
  /\ lock' = h
  /\ Goto(h, "register")
  /\ UNCHANGED <<vars, runtimes, live, detached>>

\* RegisterMap is queued; the tasks are spawned and the table updated without
\* another await, and the mutex is released.
ActivateRegister(h) ==
  /\ At(h, "register")
  /\ \E c \in Channels :
       /\ SendRegister(handler[h].map_id, c)
       /\ runtimes' = [runtimes EXCEPT ![handler[h].map_id] = c]
       /\ live' = live \cup {c}
  /\ lock' = NoHandler
  /\ Return(h)
  /\ UNCHANGED detached

-----------------------------------------------------------------------------
\* POST /v1/world/maps/:map_id/deactivate.

BeginDeactivate(h, m) ==
  /\ At(h, "idle")
  /\ SendGetStats(h)
  /\ Become(h, "asking", m, NoChannel)
  /\ UNCHANGED <<runtimes, lock, live, detached>>

DeactivateRefused(h) ==
  /\ At(h, "asking")
  /\ TakeStats(h)
  /\ stats[h][handler[h].map_id] > 0
  /\ Return(h)
  /\ UNCHANGED <<runtimes, lock, live, detached>>

DeactivateAllowed(h) ==
  /\ At(h, "asking")
  /\ TakeStats(h)
  /\ stats[h][handler[h].map_id] = 0
  /\ Goto(h, "deactivate")
  /\ UNCHANGED <<runtimes, lock, live, detached>>

\* Mutant of DeactivateTake: the handle is looked up and left in the table.
DeactivatePeek(h) ==
  LET m == handler[h].map_id IN
    /\ At(h, "deactivate")
    /\ lock = NoHandler
    /\ IF runtimes[m] = NoChannel THEN Return(h)
       ELSE Become(h, "unregister", m, runtimes[m])
    /\ UNCHANGED <<vars, runtimes, lock, live, detached>>

\* The handle is removed under the mutex, which is released at once.
DeactivateTake(h) ==
  LET m == handler[h].map_id IN
    /\ At(h, "deactivate")
    /\ lock = NoHandler
    /\ IF runtimes[m] = NoChannel THEN Return(h) /\ UNCHANGED runtimes
       ELSE /\ Become(h, "unregister", m, runtimes[m])
            /\ runtimes' = [runtimes EXCEPT ![m] = NoChannel]
    /\ UNCHANGED <<vars, lock, live, detached>>

\* Mutant of DeactivateUnregister: the coordinator is not told.
DeactivateSilently(h) ==
  /\ At(h, "unregister")
  /\ Goto(h, "abort")
  /\ UNCHANGED <<vars, runtimes, lock, live, detached>>

\* Mutant of DeactivateUnregister: the manager edits the coordinator's table.
DeactivateDirectly(h) ==
  /\ At(h, "unregister")
  /\ map_senders' = [map_senders EXCEPT ![handler[h].map_id] = NoChannel]
  /\ Goto(h, "abort")
  /\ UNCHANGED <<inbox, players_by_map, session_map, forwarding, chanVars, statVars,
                 runtimes, lock, live, detached>>

DeactivateUnregister(h) ==
  /\ At(h, "unregister")
  /\ SendUnregister(handler[h].map_id)
  /\ Goto(h, "abort")
  /\ UNCHANGED <<runtimes, lock, live, detached>>

\* map_task.abort() and router_task.abort().
DeactivateAbort(h) ==
  /\ At(h, "abort")
  /\ DropReceiver(handler[h].tx)
  /\ live' = live \ {handler[h].tx}
  /\ Return(h)
  /\ UNCHANGED <<runtimes, lock, detached>>

-----------------------------------------------------------------------------
\* The client of a request goes away: the handler is dropped at its await.  A
\* handler dropped while it waits for the mutex changed nothing; one that holds
\* the mutex releases it; one that waits to send UnregisterMap drops the
\* JoinHandles it removed from the table, which leaves their tasks running.
\* (Dropped while it waits for statistics it changed nothing either, and is
\* covered by going away at the next await.)
HangUp(h) ==
  /\ handler[h].pc \in {"activate", "register", "deactivate", "unregister"}
  /\ lock' = IF lock = h THEN NoHandler ELSE lock
  /\ detached' = IF At(h, "unregister")
                 THEN [detached EXCEPT ![handler[h].map_id] = @ \cup {handler[h].tx}]
                 ELSE detached
  /\ Return(h)
  /\ UNCHANGED <<vars, runtimes, live>>

\* Steps of the other tasks: the coordinator, the router tasks of the runtimes,
\* and the HTTP handlers that route commands and broadcast.
WorldStep ==
  /\ \/ Coordinator
     \/ \E c \in Channels : RouterTake(c)
     \/ \E m \in Maps, s \in Sessions, cmd \in Commands : SendRoute(m, s, cmd)
     \/ SendBroadcast
  /\ UNCHANGED rtVars

HandlerStep(h) ==
  \/ ActivateAlready(h) \/ ActivateLock(h) \/ ActivateRegister(h)
  \/ DeactivateRefused(h) \/ DeactivateAllowed(h) \/ DeactivateTake(h)
  \/ DeactivateUnregister(h) \/ DeactivateAbort(h)

RTInit ==
  /\ Init
  /\ runtimes = [m \in Maps |-> NoChannel]
  /\ lock = NoHandler
  /\ handler = [h \in Handlers |-> IdleHandler]
  /\ live = {}
  /\ detached = [m \in Maps |-> {}]

RTNext ==
  \/ WorldStep
  \/ \E h \in Handlers :
       \/ \E m \in Maps : BeginActivate(h, m) \/ BeginDeactivate(h, m)
       \/ HandlerStep(h)
       \/ HangUp(h)

RTSpec == RTInit /\ [][RTNext]_allVars

\* The mutex and the channel both serve their waiters in FIFO order, so a
\* handler that waits for either gets it eventually although others take it in
\* between: strong fairness for the handlers.
RTFairness ==
  /\ WF_allVars(Coordinator /\ UNCHANGED rtVars)
  /\ \A c \in Channels : WF_allVars(RouterTake(c) /\ UNCHANGED rtVars)
  /\ \A h \in Handlers : SF_allVars(HandlerStep(h))

RTFairSpec == RTSpec /\ RTFairness

-----------------------------------------------------------------------------
\* Properties.

RTTypeOK ==
  /\ TypeOK
  /\ runtimes \in [Maps -> Channels \cup {NoChannel}]
  /\ lock \in Handlers \cup {NoHandler}
  /\ handler \in [Handlers -> HandlerState]
  /\ live \subseteq opened
  /\ detached \in [Maps -> SUBSET live]

InInbox(msg) == \E i \in DOMAIN inbox : inbox[i] = msg

\* A handler took activation c of map m off the table and still has to send
\* UnregisterMap.
Unregistering(m, c) ==
  \E h \in Handlers : handler[h] = [pc |-> "unregister", map_id |-> m, tx |-> c]

\* Whoever the coordinator forwards to is a runtime the manager answers for: it
\* is in the table, or its unregistration is on its way, or its deactivation
\* was dropped half way.  No interleaving of activations and deactivations of
\* a map leaves the coordinator with a sender nobody will ever remove.
NoOrphanSender ==
  \A m \in Maps : map_senders[m] # NoChannel =>
    \/ runtimes[m] = map_senders[m]
    \/ Unregistering(m, map_senders[m])
    \/ InInbox(UnregisterMsg(m))
    \/ map_senders[m] \in detached[m]

Detached == UNION {detached[m] : m \in Maps}

\* Who answers for activation c: the table, or a handler about to end it.
Owners(c) ==
  {m \in Maps : runtimes[m] = c}
    \cup {h \in Handlers : handler[h].pc \in {"unregister", "abort"}
                             /\ handler[h].tx = c}

\* A running map task has exactly one owner, and what the table or a handler
\* owns is running: no task leaks, none is aborted twice, and a deactivation
\* never aborts the runtime of a later activation.  Only a deactivation dropped
\* half way leaves a task without an owner.
OneOwnerPerTask ==
  \A c \in Channels :
    IF c \in live \ Detached THEN Cardinality(Owners(c)) = 1 ELSE Owners(c) = {}

\* The composition only uses the coordinator the way its specification allows.
CoordinatorSpec == Spec

\* Every request to activate or deactivate a map ends, although activate keeps
\* the mutex while it waits for room in the coordinator's channel and the
\* coordinator may itself be waiting for a full map channel.
RequestsEnd == \A h \in Handlers : handler[h].pc # "idle" ~> handler[h].pc = "idle"

\* A map the manager reports as active is registered with the coordinator, or
\* its registration is on its way.
ActiveMapsReachable ==
  \A m \in Maps : runtimes[m] # NoChannel =>
    \/ map_senders[m] = runtimes[m]
    \/ InInbox(RegisterMsg(m, runtimes[m]))

\* UnregisterMap is only handled when no session is on the map: a map is not
\* stopped under its players.
StopsOnlyEmptyMaps ==
  [][UnregisterMap => SessionsIn(Head(inbox).map_id) = {}]_allVars

=============================================================================
