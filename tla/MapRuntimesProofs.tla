--------------------------- MODULE MapRuntimesProofs ---------------------------
(***************************************************************************)
(* Proofs about the map runtime manager, for any number of maps, handlers  *)
(* and activations: the composition implements the coordinator's           *)
(* specification, every running task keeps exactly one owner, and the      *)
(* coordinator never keeps a sender nobody will remove.                    *)
(***************************************************************************)
EXTENDS MapRuntimes, WorldCoordinatorProofs

-----------------------------------------------------------------------------
\* The inductive invariant.

\* A handler that works on a request knows its map, and one that owns an
\* activation knows its channel.
HandlerOK ==
  \A h \in Handlers :
    /\ handler[h].pc # "idle" => handler[h].map_id \in Maps
    /\ handler[h].pc \in {"unregister", "abort"} => handler[h].tx \in Channels

\* A handler about to register a map holds the mutex, and the map is not in the
\* table.
LockOK ==
  \A h \in Handlers : At(h, "register") =>
    lock = h /\ runtimes[handler[h].map_id] = NoChannel

\* Handler h took activation c off the table and has not ended it yet.
Ending(h, c) == handler[h].pc \in {"unregister", "abort"} /\ handler[h].tx = c

Owned(c) ==
  (\E m \in Maps : runtimes[m] = c) \/ (\E h \in Handlers : Ending(h, c))

\* What has an owner is running and not detached; no two owners share an
\* activation; what is running and not detached has an owner.
Ownership ==
  /\ \A c \in Channels : Owned(c) <=> c \in live \ Detached
  /\ \A c \in Channels, m \in Maps, n \in Maps :
       runtimes[m] = c /\ runtimes[n] = c => m = n
  /\ \A c \in Channels, h \in Handlers, g \in Handlers :
       Ending(h, c) /\ Ending(g, c) => h = g
  /\ \A c \in Channels, h \in Handlers, m \in Maps :
       Ending(h, c) => runtimes[m] # c

\* Somebody answers for activation c of map m.
Backed(m, c) ==
  runtimes[m] = c \/ Unregistering(m, c) \/ c \in detached[m]

\* A queued registration will be followed by an unregistration, if nobody
\* answers for its activation any more.
PendingBacked ==
  \A i \in DOMAIN inbox, m \in Maps, c \in Channels :
    inbox[i] = RegisterMsg(m, c) =>
      \/ Backed(m, c)
      \/ \E j \in DOMAIN inbox : j > i /\ inbox[j] = UnregisterMsg(m)

\* The same for the senders the coordinator holds.
SendersBacked ==
  \A m \in Maps, c \in Channels : map_senders[m] = c =>
    \/ Backed(m, c)
    \/ \E j \in DOMAIN inbox : inbox[j] = UnregisterMsg(m)

RTInv ==
  /\ RTTypeOK
  /\ HandlerOK
  /\ LockOK
  /\ Ownership
  /\ PendingBacked
  /\ SendersBacked

-----------------------------------------------------------------------------
\* Every step of the composition is a step of the coordinator's specification or
\* leaves its variables alone.
LEMMA StepRefines ==
  ASSUME RTTypeOK, HandlerOK, [RTNext]_allVars
  PROVE  [Next]_vars
<1>1. CASE WorldStep
  BY <1>1 DEF WorldStep, Next, Environment
<1>2. ASSUME NEW h \in Handlers, NEW m \in Maps,
             BeginActivate(h, m) \/ BeginDeactivate(h, m)
      PROVE  [Next]_vars
  BY <1>2 DEF BeginActivate, BeginDeactivate, Next, Environment, Handlers
<1>3. ASSUME NEW h \in Handlers, HandlerStep(h) PROVE [Next]_vars
  <2>1. CASE ActivateAlready(h) BY <2>1 DEF ActivateAlready
  <2>2. CASE ActivateLock(h) BY <2>2 DEF ActivateLock
  <2>3. CASE ActivateRegister(h)
    <3>1. handler[h].map_id \in Maps BY <2>3 DEF ActivateRegister, HandlerOK, At
    <3> QED BY <2>3, <3>1 DEF ActivateRegister, Next, Environment
  <2>4. CASE DeactivateRefused(h)
    BY <2>4 DEF DeactivateRefused, Next, Environment, Handlers
  <2>5. CASE DeactivateAllowed(h)
    BY <2>5 DEF DeactivateAllowed, Next, Environment, Handlers
  <2>6. CASE DeactivateTake(h) BY <2>6 DEF DeactivateTake
  <2>7. CASE DeactivateUnregister(h)
    <3>1. handler[h].map_id \in Maps BY <2>7 DEF DeactivateUnregister, HandlerOK, At
    <3> QED BY <2>7, <3>1 DEF DeactivateUnregister, Next, Environment
  <2>8. CASE DeactivateAbort(h)
    <3>1. handler[h].tx \in Channels BY <2>8 DEF DeactivateAbort, HandlerOK, At
    <3> QED BY <2>8, <3>1 DEF DeactivateAbort, Next, Environment
  <2> QED BY <1>3, <2>1, <2>2, <2>3, <2>4, <2>5, <2>6, <2>7, <2>8 DEF HandlerStep
<1>4. ASSUME NEW h \in Handlers, HangUp(h) PROVE [Next]_vars
  BY <1>4 DEF HangUp
<1>5. CASE UNCHANGED allVars
  BY <1>5 DEF allVars
<1> QED BY <1>1, <1>2, <1>3, <1>4, <1>5 DEF RTNext

\* The coordinator's variables stay well typed.
LEMMA CoordinatorType ==
  ASSUME RTTypeOK, HandlerOK, [RTNext]_allVars
  PROVE  TypeOK'
  BY StepRefines, TypeStep DEF RTTypeOK

-----------------------------------------------------------------------------
\* What a handler may do to the handler table: nothing is assumed of the others.
LEMMA HandlerStepOK ==
  ASSUME RTTypeOK, HandlerOK, LockOK, [RTNext]_allVars
  PROVE  /\ handler' \in [Handlers -> HandlerState]
         /\ lock' \in Handlers \cup {NoHandler}
         /\ runtimes' \in [Maps -> Channels \cup {NoChannel}]
         /\ HandlerOK'
         /\ LockOK'
<1> USE DEF RTTypeOK, HandlerOK, LockOK, At, Become, Goto, Return, HandlerState,
            HandlerPc, IdleHandler
<1>1. CASE WorldStep \/ UNCHANGED allVars
  BY <1>1 DEF WorldStep, rtVars, allVars
<1>2. ASSUME NEW h \in Handlers, NEW m \in Maps, BeginActivate(h, m)
      PROVE  /\ handler' \in [Handlers -> HandlerState]
             /\ lock' \in Handlers \cup {NoHandler}
             /\ runtimes' \in [Maps -> Channels \cup {NoChannel}]
             /\ HandlerOK' /\ LockOK'
  BY <1>2 DEF BeginActivate
<1>3. ASSUME NEW h \in Handlers, NEW m \in Maps, BeginDeactivate(h, m)
      PROVE  /\ handler' \in [Handlers -> HandlerState]
             /\ lock' \in Handlers \cup {NoHandler}
             /\ runtimes' \in [Maps -> Channels \cup {NoChannel}]
             /\ HandlerOK' /\ LockOK'
  BY <1>3 DEF BeginDeactivate
<1>4. ASSUME NEW h \in Handlers, HandlerStep(h) \/ HangUp(h)
      PROVE  /\ handler' \in [Handlers -> HandlerState]
             /\ lock' \in Handlers \cup {NoHandler}
             /\ runtimes' \in [Maps -> Channels \cup {NoChannel}]
             /\ HandlerOK' /\ LockOK'
  <2>1. CASE ActivateAlready(h) BY <2>1 DEF ActivateAlready
  <2>2. CASE ActivateLock(h) BY <2>2, NoHandlerOutside DEF ActivateLock
  <2>3. CASE ActivateRegister(h) BY <2>3 DEF ActivateRegister
  <2>4. CASE DeactivateRefused(h) BY <2>4 DEF DeactivateRefused
  <2>5. CASE DeactivateAllowed(h) BY <2>5 DEF DeactivateAllowed
  <2>6. CASE DeactivateTake(h) BY <2>6 DEF DeactivateTake
  <2>7. CASE DeactivateUnregister(h) BY <2>7 DEF DeactivateUnregister
  <2>8. CASE DeactivateAbort(h) BY <2>8 DEF DeactivateAbort
  <2>9. CASE HangUp(h) BY <2>9 DEF HangUp
  <2> QED BY <1>4, <2>1, <2>2, <2>3, <2>4, <2>5, <2>6, <2>7, <2>8, <2>9 DEF HandlerStep
<1> QED BY <1>1, <1>2, <1>3, <1>4 DEF RTNext

-----------------------------------------------------------------------------
\* The owners of the running tasks.

\* The types of live and detached, which rest on ownership: the activation a
\* handler aborts is not among the detached ones.
LiveOK ==
  /\ live \subseteq opened
  /\ detached \in [Maps -> SUBSET live]

\* A step that changes neither the table, the running tasks nor what any
\* handler is ending keeps everything about owners.
LEMMA SameOwners ==
  ASSUME Ownership, LiveOK, UNCHANGED <<runtimes, live, detached>>,
         \A h \in Handlers, c \in Channels : Ending(h, c)' <=> Ending(h, c),
         opened \subseteq opened'
  PROVE  Ownership' /\ LiveOK'
<1>1. Detached' = Detached BY DEF Detached
<1>2. \A c \in Channels : Owned(c)' <=> Owned(c) BY DEF Owned
<1> QED BY <1>1, <1>2 DEF Ownership, LiveOK

LEMMA OwnershipStep ==
  ASSUME RTTypeOK, HandlerOK, LockOK, Ownership, [RTNext]_allVars
  PROVE  Ownership' /\ LiveOK'
<1> USE DEF At, Become, Goto, Return, IdleHandler, Ending, Handlers
<1>a. /\ handler \in [Handlers -> HandlerState]
      /\ runtimes \in [Maps -> Channels \cup {NoChannel}]
      /\ live \subseteq opened /\ detached \in [Maps -> SUBSET live]
      /\ opened \subseteq Channels
      /\ LiveOK
  BY DEF RTTypeOK, TypeOK, LiveOK
<1>1. CASE UNCHANGED allVars
  BY <1>1, <1>a, SameOwners DEF allVars, vars, rtVars, chanVars
<1>2. CASE WorldStep
  <2>1. opened' = opened
    BY <1>2 DEF WorldStep, Coordinator, RegisterMap, UnregisterMap, RouteToMap,
       Broadcast, GetStats, ForwardSent, ForwardLost, RouterTake, SendRoute,
       SendBroadcast, chanVars
  <2> QED BY <1>2, <2>1, <1>a, SameOwners DEF WorldStep, rtVars
<1>3. ASSUME NEW h \in Handlers, NEW m \in Maps,
             BeginActivate(h, m) \/ BeginDeactivate(h, m)
      PROVE  Ownership' /\ LiveOK'
  <2>1. \A g \in Handlers, c \in Channels : Ending(g, c)' <=> Ending(g, c)
    BY <1>3, <1>a DEF BeginActivate, BeginDeactivate
  <2>2. opened' = opened
    BY <1>3 DEF BeginActivate, BeginDeactivate, SendGetStats, vars, chanVars
  <2> QED BY <1>3, <2>1, <2>2, <1>a, SameOwners DEF BeginActivate, BeginDeactivate
<1>4. ASSUME NEW h \in Handlers,
             ActivateAlready(h) \/ ActivateLock(h) \/ DeactivateRefused(h)
               \/ DeactivateAllowed(h) \/ DeactivateUnregister(h)
      PROVE  Ownership' /\ LiveOK'
  <2>1. \A g \in Handlers, c \in Channels : Ending(g, c)' <=> Ending(g, c)
    BY <1>4, <1>a DEF ActivateAlready, ActivateLock, DeactivateRefused,
       DeactivateAllowed, DeactivateUnregister
  <2>2. UNCHANGED <<runtimes, live, detached>> /\ opened' = opened
    BY <1>4 DEF ActivateAlready, ActivateLock, DeactivateRefused,
       DeactivateAllowed, DeactivateUnregister, TakeStats, SendUnregister, vars,
       chanVars
  <2> QED BY <2>1, <2>2, <1>a, SameOwners
<1>5. ASSUME NEW h \in Handlers, ActivateRegister(h) PROVE Ownership' /\ LiveOK'
  <2> DEFINE m == handler[h].map_id
  <2>1. m \in Maps /\ runtimes[m] = NoChannel
    BY <1>5 DEF ActivateRegister, HandlerOK, LockOK
  <2>2. PICK c \in Channels : /\ c \notin opened /\ opened' = opened \cup {c}
                              /\ runtimes' = [runtimes EXCEPT ![m] = c]
                              /\ live' = live \cup {c}
    BY <1>5 DEF ActivateRegister, SendRegister
  <2>3. c \notin live /\ c \notin Detached /\ ~Owned(c)
    BY <2>2, <1>a DEF Detached, Ownership
  <2>4. Detached' = Detached BY <1>5 DEF ActivateRegister, Detached
  <2>5. \A g \in Handlers, d \in Channels : Ending(g, d)' <=> Ending(g, d)
    BY <1>5, <1>a DEF ActivateRegister
  <2>6. \A d \in Channels, n \in Maps :
          runtimes'[n] = d <=> (n = m /\ d = c) \/ (n # m /\ runtimes[n] = d)
    BY <2>1, <2>2, <1>a
  <2>7. \A d \in Channels : Owned(d)' <=> Owned(d) \/ d = c
    BY <2>1, <2>5, <2>6, NoChannelOutside DEF Owned
  <2>8. Ownership'
    <3>1. \A d \in Channels : Owned(d)' <=> d \in live' \ Detached'
      BY <2>2, <2>3, <2>4, <2>7 DEF Ownership
    <3>2. \A d \in Channels, n \in Maps, k \in Maps :
            runtimes'[n] = d /\ runtimes'[k] = d => n = k
      BY <2>3, <2>6 DEF Ownership, Owned
    <3>3. \A d \in Channels, g \in Handlers, k \in Handlers :
            Ending(g, d)' /\ Ending(k, d)' => g = k
      BY <2>5 DEF Ownership
    <3>4. \A d \in Channels, g \in Handlers, n \in Maps :
            Ending(g, d)' => runtimes'[n] # d
      BY <2>3, <2>5, <2>6 DEF Ownership, Owned
    <3> QED BY <3>1, <3>2, <3>3, <3>4 DEF Ownership
  <2>9. LiveOK' BY <2>2, <1>a, <1>5 DEF LiveOK, ActivateRegister
  <2> QED BY <2>8, <2>9
<1>6. ASSUME NEW h \in Handlers, DeactivateTake(h) PROVE Ownership' /\ LiveOK'
  <2> DEFINE m == handler[h].map_id
  <2>1. m \in Maps BY <1>6 DEF DeactivateTake, HandlerOK
  <2>2. UNCHANGED <<live, detached, opened>>
    BY <1>6 DEF DeactivateTake, vars, chanVars
  <2>3. CASE runtimes[m] = NoChannel
    <3>1. \A g \in Handlers, c \in Channels : Ending(g, c)' <=> Ending(g, c)
      BY <1>6, <2>3, <1>a DEF DeactivateTake
    <3> QED BY <1>6, <2>2, <2>3, <3>1, <1>a, SameOwners DEF DeactivateTake
  <2>4. CASE runtimes[m] # NoChannel
    <3> DEFINE c == runtimes[m]
    <3>1. c \in Channels BY <2>1, <2>4, <1>a
    <3>2. /\ handler' = [handler EXCEPT ![h] = [pc |-> "unregister", map_id |-> m,
                                                 tx |-> c]]
          /\ runtimes' = [runtimes EXCEPT ![m] = NoChannel]
          /\ handler[h].pc = "deactivate"
      BY <1>6, <2>4 DEF DeactivateTake
    <3>3. \A g \in Handlers, d \in Channels :
            Ending(g, d)' <=> (g = h /\ d = c) \/ Ending(g, d)
      BY <3>2, <1>a
    <3>4. \A n \in Maps, d \in Channels :
            runtimes'[n] = d <=> n # m /\ runtimes[n] = d
      BY <3>2, <2>1, <1>a, NoChannelOutside
    <3>5. \A d \in Channels : Owned(d)' <=> Owned(d)
      BY <3>3, <3>4, <2>1, <3>1 DEF Owned
    <3>6. Detached' = Detached BY <2>2 DEF Detached
    <3>7. \A d \in Channels : Owned(d)' <=> d \in live' \ Detached'
      BY <3>5, <3>6, <2>2 DEF Ownership
    <3>8. \A d \in Channels, n \in Maps, k \in Maps :
            runtimes'[n] = d /\ runtimes'[k] = d => n = k
      BY <3>4 DEF Ownership
    <3>9. \A d \in Channels, g \in Handlers, k \in Handlers :
            Ending(g, d)' /\ Ending(k, d)' => g = k
      BY <3>3, <3>1, <2>1 DEF Ownership
    <3>10. \A d \in Channels, g \in Handlers, n \in Maps :
             Ending(g, d)' => runtimes'[n] # d
      BY <3>3, <3>4, <3>1, <2>1 DEF Ownership
    <3>11. Ownership' BY <3>7, <3>8, <3>9, <3>10 DEF Ownership
    <3> QED BY <3>11, <2>2, <1>a DEF LiveOK
  <2> QED BY <2>3, <2>4
<1>7. ASSUME NEW h \in Handlers, DeactivateAbort(h) PROVE Ownership' /\ LiveOK'
  <2> DEFINE c == handler[h].tx
  <2>1. c \in Channels /\ Ending(h, c)
    BY <1>7 DEF DeactivateAbort, HandlerOK
  <2>2. c \in live /\ c \notin Detached BY <2>1 DEF Ownership, Owned
  <2>3. /\ UNCHANGED <<runtimes, detached, opened>>
        /\ live' = live \ {c}
        /\ handler' = [handler EXCEPT ![h] = IdleHandler]
    BY <1>7 DEF DeactivateAbort, DropReceiver
  <2>4. \A g \in Handlers, d \in Channels :
          Ending(g, d)' <=> Ending(g, d) /\ d # c
    <3>1. \A d \in Channels : Ending(h, d) <=> d = c BY <2>1
    <3>2. \A g \in Handlers, d \in Channels : g # h =>
            (Ending(g, d)' <=> Ending(g, d))
      BY <2>3, <1>a
    <3>3. \A d \in Channels : ~Ending(h, d)' BY <2>3, <1>a
    <3> QED BY <3>1, <3>2, <3>3, <2>1 DEF Ownership
  <2>5. \A d \in Channels : Owned(d)' <=> Owned(d) /\ d # c
    BY <2>1, <2>3, <2>4 DEF Owned, Ownership
  <2>6. Detached' = Detached BY <2>3 DEF Detached
  <2>7. Ownership' BY <2>2, <2>3, <2>4, <2>5, <2>6 DEF Ownership
  <2>8. LiveOK' BY <2>2, <2>3, <1>a DEF LiveOK, Detached
  <2> QED BY <2>7, <2>8
<1>8. ASSUME NEW h \in Handlers, HangUp(h) PROVE Ownership' /\ LiveOK'
  <2>1. UNCHANGED <<runtimes, live, opened>>
    BY <1>8 DEF HangUp, vars, chanVars
  <2>2. CASE handler[h].pc # "unregister"
    <3>1. detached' = detached BY <1>8, <2>2 DEF HangUp
    <3>2. \A g \in Handlers, c \in Channels : Ending(g, c)' <=> Ending(g, c)
      BY <1>8, <2>2, <1>a DEF HangUp
    <3> QED BY <2>1, <3>1, <3>2, <1>a, SameOwners
  <2>3. CASE handler[h].pc = "unregister"
    <3> DEFINE c == handler[h].tx
               m == handler[h].map_id
    <3>1. c \in Channels /\ m \in Maps /\ Ending(h, c) BY <2>3 DEF HandlerOK
    <3>2. c \in live /\ c \notin Detached BY <3>1 DEF Ownership, Owned
    <3>3. /\ detached' = [detached EXCEPT ![m] = @ \cup {c}]
          /\ handler' = [handler EXCEPT ![h] = IdleHandler]
      BY <1>8, <2>3 DEF HangUp
    <3>4. Detached' = Detached \cup {c} BY <3>1, <3>3, <1>a DEF Detached
    <3>5. \A g \in Handlers, d \in Channels :
            Ending(g, d)' <=> Ending(g, d) /\ d # c
      <4>1. \A d \in Channels : Ending(h, d) <=> d = c BY <3>1
      <4>2. \A g \in Handlers, d \in Channels : g # h =>
              (Ending(g, d)' <=> Ending(g, d))
        BY <3>3, <1>a
      <4>3. \A d \in Channels : ~Ending(h, d)' BY <3>3, <1>a
      <4> QED BY <4>1, <4>2, <4>3, <3>1 DEF Ownership
    <3>6. \A d \in Channels : Owned(d)' <=> Owned(d) /\ d # c
      BY <2>1, <3>1, <3>5 DEF Owned, Ownership
    <3>7. Ownership' BY <2>1, <3>4, <3>5, <3>6 DEF Ownership
    <3>8. LiveOK' BY <2>1, <3>1, <3>2, <3>3, <1>a DEF LiveOK
    <3> QED BY <3>7, <3>8
  <2> QED BY <2>2, <2>3
<1> QED BY <1>1, <1>2, <1>3, <1>4, <1>5, <1>6, <1>7, <1>8 DEF RTNext, HandlerStep

-----------------------------------------------------------------------------
\* Who answers for the senders of the coordinator.

\* Receiving a message keeps the queued registrations backed, and the registered
\* senders too unless the message unregisters a map.
LEMMA ReceiveBacked ==
  ASSUME inbox \in Seq(WorldMessage), inbox # <<>>, inbox' = Tail(inbox),
         PendingBacked,
         \A m \in Maps, c \in Channels : Backed(m, c) => Backed(m, c)'
  PROVE  PendingBacked'
<1> SUFFICES ASSUME NEW i \in DOMAIN inbox', NEW m \in Maps, NEW c \in Channels,
                    inbox'[i] = RegisterMsg(m, c), ~Backed(m, c)'
             PROVE  \E j \in DOMAIN inbox' : j > i /\ inbox'[j] = UnregisterMsg(m)
  BY DEF PendingBacked, RegisterMsg, UnregisterMsg
<1>1. /\ DOMAIN inbox = 1..Len(inbox) /\ DOMAIN inbox' = 1..(Len(inbox) - 1)
      /\ Len(inbox) \in Nat
      /\ \A k \in DOMAIN inbox' : inbox'[k] = inbox[k + 1]
  OBVIOUS
<1>2. i + 1 \in DOMAIN inbox /\ inbox[i + 1] = RegisterMsg(m, c) BY <1>1
<1>3. PICK j \in DOMAIN inbox : j > i + 1 /\ inbox[j] = UnregisterMsg(m)
  BY <1>2 DEF PendingBacked
<1>4. /\ j - 1 \in DOMAIN inbox' /\ j - 1 > i
      /\ inbox'[j - 1] = inbox[j]
  BY <1>1, <1>3
<1> QED BY <1>3, <1>4

\* Queueing a message keeps everything backed, if what is no longer backed is
\* what the message unregisters and what it registers is backed.
LEMMA SendBacked ==
  ASSUME inbox \in Seq(WorldMessage), NEW msg, Send(msg),
         PendingBacked, SendersBacked, map_senders' = map_senders,
         \A m \in Maps, c \in Channels :
           Backed(m, c) => Backed(m, c)' \/ msg = UnregisterMsg(m),
         \A m \in Maps, c \in Channels : msg = RegisterMsg(m, c) => Backed(m, c)'
  PROVE  PendingBacked' /\ SendersBacked'
<1>1. /\ DOMAIN inbox = 1..Len(inbox) /\ Len(inbox) \in Nat
      /\ inbox' = Append(inbox, msg)
      /\ DOMAIN inbox' = 1..(Len(inbox) + 1)
      /\ \A k \in DOMAIN inbox : inbox'[k] = inbox[k]
      /\ inbox'[Len(inbox) + 1] = msg
  BY DEF Send
<1>2. PendingBacked'
  <2> SUFFICES ASSUME NEW i \in DOMAIN inbox', NEW m \in Maps, NEW c \in Channels,
                      inbox'[i] = RegisterMsg(m, c), ~Backed(m, c)'
               PROVE  \E j \in DOMAIN inbox' : j > i /\ inbox'[j] = UnregisterMsg(m)
    BY DEF PendingBacked, RegisterMsg, UnregisterMsg
  <2>1. i \in DOMAIN inbox /\ inbox[i] = RegisterMsg(m, c) BY <1>1
  <2>2. CASE Backed(m, c)
    <3>1. msg = UnregisterMsg(m) BY <2>2
    <3>2. Len(inbox) + 1 \in DOMAIN inbox' /\ Len(inbox) + 1 > i BY <1>1, <2>1
    <3> QED BY <1>1, <3>1, <3>2
  <2>3. CASE \E j \in DOMAIN inbox : j > i /\ inbox[j] = UnregisterMsg(m)
    BY <1>1, <2>3
  <2> QED BY <2>1, <2>2, <2>3 DEF PendingBacked
<1>3. SendersBacked'
  <2> SUFFICES ASSUME NEW m \in Maps, NEW c \in Channels, map_senders[m] = c,
                      ~Backed(m, c)'
               PROVE  \E j \in DOMAIN inbox' : inbox'[j] = UnregisterMsg(m)
    BY DEF SendersBacked, UnregisterMsg
  <2>1. CASE Backed(m, c)
    <3>1. msg = UnregisterMsg(m) BY <2>1
    <3> QED BY <1>1, <3>1
  <2>2. CASE \E j \in DOMAIN inbox : inbox[j] = UnregisterMsg(m)
    BY <1>1, <2>2
  <2> QED BY <2>1, <2>2 DEF SendersBacked
<1> QED BY <1>2, <1>3

\* A message the coordinator receives that does not unregister a map leaves the
\* senders it already held backed.
LEMMA ReceiveSenders ==
  ASSUME inbox \in Seq(WorldMessage), inbox # <<>>, inbox' = Tail(inbox),
         SendersBacked, map_senders' = map_senders,
         Head(inbox).kind # "UnregisterMap",
         \A m \in Maps, c \in Channels : Backed(m, c) => Backed(m, c)'
  PROVE  SendersBacked'
<1> SUFFICES ASSUME NEW m \in Maps, NEW c \in Channels, map_senders[m] = c,
                    ~Backed(m, c)'
             PROVE  \E j \in DOMAIN inbox' : inbox'[j] = UnregisterMsg(m)
  BY DEF SendersBacked, UnregisterMsg
<1>1. /\ DOMAIN inbox = 1..Len(inbox) /\ DOMAIN inbox' = 1..(Len(inbox) - 1)
      /\ Len(inbox) \in Nat
      /\ \A k \in DOMAIN inbox' : inbox'[k] = inbox[k + 1]
      /\ Head(inbox) = inbox[1]
  OBVIOUS
<1>2. PICK j \in DOMAIN inbox : inbox[j] = UnregisterMsg(m) BY DEF SendersBacked
<1>3. j # 1 BY <1>1, <1>2 DEF UnregisterMsg
<1>4. j - 1 \in DOMAIN inbox' /\ inbox'[j - 1] = inbox[j] BY <1>1, <1>3
<1> QED BY <1>2, <1>4

\* What is backed stays backed in every step but the one that queues its
\* unregistration.
LEMMA StaysBacked ==
  ASSUME RTTypeOK, HandlerOK, LockOK, [RTNext]_allVars,
         NEW m \in Maps, NEW c \in Channels, Backed(m, c)
  PROVE  \/ Backed(m, c)'
         \/ \E h \in Handlers : /\ DeactivateUnregister(h)
                                /\ handler[h].map_id = m
<1> USE DEF At, Become, Goto, Return, IdleHandler, Backed, Unregistering
<1>a. /\ handler \in [Handlers -> HandlerState]
      /\ runtimes \in [Maps -> Channels \cup {NoChannel}]
      /\ detached \in [Maps -> SUBSET live]
  BY DEF RTTypeOK
<1>1. CASE WorldStep \/ UNCHANGED allVars
  BY <1>1 DEF WorldStep, rtVars, allVars
<1>2. ASSUME NEW h \in Handlers, NEW n \in Maps,
             BeginActivate(h, n) \/ BeginDeactivate(h, n)
      PROVE  Backed(m, c)'
  BY <1>2, <1>a DEF BeginActivate, BeginDeactivate
<1>3. ASSUME NEW h \in Handlers,
             ActivateAlready(h) \/ ActivateLock(h) \/ DeactivateRefused(h)
               \/ DeactivateAllowed(h) \/ DeactivateAbort(h)
      PROVE  Backed(m, c)'
  BY <1>3, <1>a DEF ActivateAlready, ActivateLock, DeactivateRefused,
     DeactivateAllowed, DeactivateAbort
<1>4. ASSUME NEW h \in Handlers, ActivateRegister(h) PROVE Backed(m, c)'
  <2>1. runtimes[handler[h].map_id] = NoChannel
    BY <1>4 DEF ActivateRegister, LockOK
  <2>2. runtimes[m] = c => runtimes'[m] = c
    BY <1>4, <2>1, <1>a, NoChannelOutside DEF ActivateRegister
  <2> QED BY <1>4, <2>2, <1>a DEF ActivateRegister
<1>5. ASSUME NEW h \in Handlers, DeactivateTake(h) PROVE Backed(m, c)'
  <2>1. CASE runtimes[m] = c /\ handler[h].map_id = m
    <3>1. handler' = [handler EXCEPT ![h] = [pc |-> "unregister", map_id |-> m,
                                             tx |-> c]]
      BY <1>5, <2>1, NoChannelOutside DEF DeactivateTake
    <3> QED BY <3>1, <1>a
  <2>2. CASE runtimes[m] = c /\ handler[h].map_id # m
    BY <1>5, <2>2, <1>a DEF DeactivateTake
  <2>3. CASE runtimes[m] # c
    BY <1>5, <2>3, <1>a DEF DeactivateTake
  <2> QED BY <2>1, <2>2, <2>3
<1>6. ASSUME NEW h \in Handlers, DeactivateUnregister(h), handler[h].map_id # m
      PROVE  Backed(m, c)'
  BY <1>6, <1>a DEF DeactivateUnregister
<1>7. ASSUME NEW h \in Handlers, HangUp(h) PROVE Backed(m, c)'
  <2>1. CASE handler[h] = [pc |-> "unregister", map_id |-> m, tx |-> c]
    BY <1>7, <2>1, <1>a DEF HangUp
  <2>2. CASE handler[h] # [pc |-> "unregister", map_id |-> m, tx |-> c]
    BY <1>7, <2>2, <1>a DEF HangUp
  <2> QED BY <2>1, <2>2
<1> QED BY <1>1, <1>2, <1>3, <1>4, <1>5, <1>6, <1>7 DEF RTNext, HandlerStep

LEMMA BackedStep ==
  ASSUME RTInv, [RTNext]_allVars
  PROVE  PendingBacked' /\ SendersBacked'
<1> USE DEF At, Become, Goto, Return, Handlers
<1>a. /\ RTTypeOK /\ HandlerOK /\ LockOK /\ PendingBacked /\ SendersBacked
      /\ inbox \in Seq(WorldMessage)
      /\ map_senders \in [Maps -> Channels \cup {NoChannel}]
      /\ runtimes \in [Maps -> Channels \cup {NoChannel}]
      /\ handler \in [Handlers -> HandlerState]
  BY DEF RTInv, RTTypeOK, TypeOK
<1>b. ASSUME \A h \in Handlers : ~DeactivateUnregister(h)
      PROVE  \A m \in Maps, c \in Channels : Backed(m, c) => Backed(m, c)'
  BY <1>a, <1>b, StaysBacked
\* A step that leaves the inbox and the senders alone.
<1>c. ASSUME UNCHANGED <<inbox, map_senders>>,
             \A m \in Maps, c \in Channels : Backed(m, c) => Backed(m, c)'
      PROVE  PendingBacked' /\ SendersBacked'
  BY <1>a, <1>c DEF PendingBacked, SendersBacked, RegisterMsg, UnregisterMsg
<1>1. CASE UNCHANGED allVars
  <2>1. \A m \in Maps, c \in Channels : Backed(m, c) => Backed(m, c)'
    BY <1>1 DEF Backed, Unregistering, allVars, rtVars
  <2> QED BY <1>1, <1>c, <2>1 DEF allVars, vars, coordVars
<1>2. CASE WorldStep
  <2>1. \A m \in Maps, c \in Channels : Backed(m, c) => Backed(m, c)'
    BY <1>2 DEF WorldStep, Backed, Unregistering, rtVars
  <2>2. CASE RegisterMap
    <3> DEFINE n == Head(inbox).map_id
               d == Head(inbox).tx
    <3>1. inbox # <<>> /\ inbox' = Tail(inbox) /\ Head(inbox).kind = "RegisterMap"
      BY <2>2 DEF RegisterMap, Receives
    <3>2. Head(inbox) \in WorldMessage BY <1>a, <3>1
    <3>3. n \in Maps /\ d \in Channels /\ inbox[1] = RegisterMsg(n, d)
      BY <1>a, <3>1, <3>2 DEF WorldMessage, RegisterMsg
    <3>4. map_senders' = [map_senders EXCEPT ![n] = d]
      BY <2>2 DEF RegisterMap
    <3>5. PendingBacked' BY <1>a, <2>1, <3>1, ReceiveBacked
    <3>6. /\ DOMAIN inbox = 1..Len(inbox) /\ DOMAIN inbox' = 1..(Len(inbox) - 1)
          /\ Len(inbox) \in Nat /\ Len(inbox) > 0
          /\ \A k \in DOMAIN inbox' : inbox'[k] = inbox[k + 1]
      BY <1>a, <3>1
    <3>7. ASSUME NEW m \in Maps, NEW c \in Channels, map_senders'[m] = c,
                 ~Backed(m, c)'
          PROVE  \E j \in DOMAIN inbox' : inbox'[j] = UnregisterMsg(m)
      <4>1. PICK j \in DOMAIN inbox : j > 1 /\ inbox[j] = UnregisterMsg(m)
        <5>1. CASE m = n
          BY <1>a, <2>1, <3>3, <3>4, <3>6, <3>7, <5>1 DEF PendingBacked
        <5>2. CASE m # n
          <6>1. PICK j \in DOMAIN inbox : inbox[j] = UnregisterMsg(m)
            BY <1>a, <2>1, <3>4, <3>7, <5>2 DEF SendersBacked
          <6>2. j # 1 BY <3>3, <6>1 DEF RegisterMsg, UnregisterMsg
          <6> QED BY <3>6, <6>1, <6>2
        <5> QED BY <5>1, <5>2
      <4>2. j - 1 \in DOMAIN inbox' /\ inbox'[j - 1] = inbox[j] BY <3>6, <4>1
      <4> QED BY <4>1, <4>2
    <3>8. SendersBacked' BY <3>7 DEF SendersBacked, UnregisterMsg
    <3> QED BY <3>5, <3>8
  <2>3. CASE UnregisterMap
    <3> DEFINE n == Head(inbox).map_id
    <3>1. inbox # <<>> /\ inbox' = Tail(inbox) /\ Head(inbox).kind = "UnregisterMap"
      BY <2>3 DEF UnregisterMap, Receives
    <3>2. Head(inbox) \in WorldMessage BY <1>a, <3>1
    <3>3. n \in Maps /\ inbox[1].map_id = n BY <1>a, <3>1, <3>2, MessageShape
    <3>4. map_senders' = [map_senders EXCEPT ![n] = NoChannel]
      BY <2>3 DEF UnregisterMap
    <3>5. PendingBacked' BY <1>a, <2>1, <3>1, ReceiveBacked
    <3>6. /\ DOMAIN inbox = 1..Len(inbox) /\ DOMAIN inbox' = 1..(Len(inbox) - 1)
          /\ Len(inbox) \in Nat /\ Len(inbox) > 0
          /\ \A k \in DOMAIN inbox' : inbox'[k] = inbox[k + 1]
      BY <1>a, <3>1
    <3>7. ASSUME NEW m \in Maps, NEW c \in Channels, map_senders'[m] = c,
                 ~Backed(m, c)'
          PROVE  \E j \in DOMAIN inbox' : inbox'[j] = UnregisterMsg(m)
      <4>1. m # n /\ map_senders[m] = c
        BY <1>a, <3>3, <3>4, <3>7, NoChannelOutside
      <4>2. PICK j \in DOMAIN inbox : inbox[j] = UnregisterMsg(m)
        BY <1>a, <2>1, <3>7, <4>1 DEF SendersBacked
      <4>3. j # 1 BY <3>3, <4>1, <4>2 DEF UnregisterMsg
      <4>4. j - 1 \in DOMAIN inbox' /\ inbox'[j - 1] = inbox[j] BY <3>6, <4>2, <4>3
      <4> QED BY <4>2, <4>4
    <3>8. SendersBacked' BY <3>7 DEF SendersBacked, UnregisterMsg
    <3> QED BY <3>5, <3>8
  <2>4. CASE RouteToMap \/ Broadcast \/ GetStats
    <3>1. /\ inbox # <<>> /\ inbox' = Tail(inbox)
          /\ Head(inbox).kind # "UnregisterMap" /\ map_senders' = map_senders
      BY <2>4 DEF RouteToMap, Broadcast, GetStats, Receives, coordVars
    <3> QED BY <1>a, <2>1, <3>1, ReceiveBacked, ReceiveSenders
  <2>5. CASE ForwardSent \/ ForwardLost \/ \E c \in Channels : RouterTake(c)
    <3>1. UNCHANGED <<inbox, map_senders>>
      BY <2>5 DEF ForwardSent, ForwardLost, RouterTake, coordVars
    <3> QED BY <1>c, <2>1, <3>1
  <2>6. ASSUME NEW m \in Maps, NEW s \in Sessions, NEW cmd \in Commands,
               SendRoute(m, s, cmd)
        PROVE  PendingBacked' /\ SendersBacked'
    <3>1. Send(RouteMsg(m, s, cmd)) /\ map_senders' = map_senders
      BY <2>6 DEF SendRoute, coordVars
    <3>2. \A n \in Maps, c \in Channels : RouteMsg(m, s, cmd) # RegisterMsg(n, c)
      BY DEF RouteMsg, RegisterMsg
    <3> QED BY <1>a, <2>1, <3>1, <3>2, SendBacked
  <2>7. CASE SendBroadcast
    <3>1. Send(BroadcastMsg) /\ map_senders' = map_senders
      BY <2>7 DEF SendBroadcast, coordVars
    <3>2. \A n \in Maps, c \in Channels : BroadcastMsg # RegisterMsg(n, c)
      BY DEF BroadcastMsg, RegisterMsg
    <3> QED BY <1>a, <2>1, <3>1, <3>2, SendBacked
  <2> QED BY <1>2, <2>2, <2>3, <2>4, <2>5, <2>6, <2>7 DEF WorldStep, Coordinator
<1>3. ASSUME NEW h \in Handlers, NEW m \in Maps, BeginActivate(h, m)
      PROVE  PendingBacked' /\ SendersBacked'
  <2>1. \A n \in Maps, c \in Channels : Backed(n, c) => Backed(n, c)'
    BY <1>3, <1>a DEF BeginActivate, Backed, Unregistering
  <2> QED BY <1>3, <1>c, <2>1 DEF BeginActivate, vars, coordVars
<1>4. ASSUME NEW h \in Handlers, NEW m \in Maps, BeginDeactivate(h, m)
      PROVE  PendingBacked' /\ SendersBacked'
  <2>1. \A n \in Maps, c \in Channels : Backed(n, c) => Backed(n, c)'
    BY <1>4, <1>a DEF BeginDeactivate, Backed, Unregistering
  <2>2. Send(GetStatsMsg(h)) /\ map_senders' = map_senders
    BY <1>4 DEF BeginDeactivate, SendGetStats, coordVars
  <2>3. \A n \in Maps, c \in Channels : GetStatsMsg(h) # RegisterMsg(n, c)
    BY DEF GetStatsMsg, RegisterMsg
  <2> QED BY <1>a, <2>1, <2>2, <2>3, SendBacked
<1>5. ASSUME NEW h \in Handlers, ActivateRegister(h)
      PROVE  PendingBacked' /\ SendersBacked'
  <2> DEFINE m == handler[h].map_id
  <2>1. m \in Maps BY <1>5, <1>a DEF ActivateRegister, HandlerOK
  <2>2. PICK c \in Channels : /\ Send(RegisterMsg(m, c))
                              /\ runtimes' = [runtimes EXCEPT ![m] = c]
                              /\ map_senders' = map_senders
    BY <1>5 DEF ActivateRegister, SendRegister, coordVars
  <2>3. \A n \in Maps, d \in Channels : Backed(n, d) => Backed(n, d)'
    <3>1. runtimes[m] = NoChannel BY <1>5, <1>a DEF ActivateRegister, LockOK
    <3>2. \A n \in Maps, d \in Channels : runtimes[n] = d => runtimes'[n] = d
      BY <1>a, <2>2, <3>1, NoChannelOutside
    <3> QED BY <1>5, <1>a, <3>2
        DEF ActivateRegister, Backed, Unregistering, IdleHandler
  <2>4. \A n \in Maps, d \in Channels :
          RegisterMsg(m, c) = RegisterMsg(n, d) => Backed(n, d)'
    BY <1>a, <2>1, <2>2 DEF RegisterMsg, Backed
  <2> QED BY <1>a, <2>2, <2>3, <2>4, SendBacked
<1>6. ASSUME NEW h \in Handlers, DeactivateUnregister(h)
      PROVE  PendingBacked' /\ SendersBacked'
  <2> DEFINE m == handler[h].map_id
  <2>1. Send(UnregisterMsg(m)) /\ map_senders' = map_senders
    BY <1>6 DEF DeactivateUnregister, SendUnregister, coordVars
  <2>2. \A n \in Maps, c \in Channels : n # m /\ Backed(n, c) => Backed(n, c)'
    BY <1>6, <1>a DEF DeactivateUnregister, Backed, Unregistering
  <2>3. \A n \in Maps, c \in Channels : UnregisterMsg(m) # RegisterMsg(n, c)
    BY DEF UnregisterMsg, RegisterMsg
  <2> QED BY <1>a, <2>1, <2>2, <2>3, SendBacked
<1>7. ASSUME NEW h \in Handlers,
             \/ ActivateAlready(h) \/ ActivateLock(h) \/ DeactivateRefused(h)
             \/ DeactivateAllowed(h) \/ DeactivateTake(h) \/ DeactivateAbort(h)
             \/ HangUp(h)
      PROVE  PendingBacked' /\ SendersBacked'
  <2>1. UNCHANGED <<inbox, map_senders>>
    BY <1>7 DEF ActivateAlready, ActivateLock, DeactivateRefused, DeactivateAllowed,
       DeactivateTake, DeactivateAbort, HangUp, TakeStats, DropReceiver, vars,
       coordVars
  <2>2. \A g \in Handlers : ~DeactivateUnregister(g)
    <3> SUFFICES ASSUME NEW g \in Handlers, Send(UnregisterMsg(handler[g].map_id))
                 PROVE  FALSE
      BY DEF DeactivateUnregister, SendUnregister
    <3>1. Len(inbox') = Len(inbox) + 1 BY <1>a DEF Send
    <3>2. Len(inbox') = Len(inbox) /\ Len(inbox) \in Nat BY <1>a, <2>1
    <3> QED BY <3>1, <3>2
  <2> QED BY <1>b, <1>c, <2>1, <2>2
<1> QED BY <1>1, <1>2, <1>3, <1>4, <1>5, <1>6, <1>7 DEF RTNext, HandlerStep

-----------------------------------------------------------------------------
\* The invariant holds initially and in every step.
LEMMA RTInvInit == RTInit => RTInv
<1> SUFFICES ASSUME RTInit PROVE RTInv
  OBVIOUS
<1>1. RTTypeOK
  BY TypeInit DEF RTInit, RTTypeOK, IdleHandler, HandlerState, HandlerPc, Init
<1>2. HandlerOK /\ LockOK
  BY DEF RTInit, HandlerOK, LockOK, At, IdleHandler
<1>3. Ownership
  BY NoChannelOutside DEF RTInit, Ownership, Owned, Ending, IdleHandler, Detached
<1>4. PendingBacked /\ SendersBacked
  BY NoChannelOutside DEF RTInit, Init, PendingBacked, SendersBacked
<1> QED BY <1>1, <1>2, <1>3, <1>4 DEF RTInv

LEMMA RTInvStep == RTInv /\ [RTNext]_allVars => RTInv'
<1> SUFFICES ASSUME RTInv, [RTNext]_allVars PROVE RTInv'
  OBVIOUS
<1>1. RTTypeOK /\ HandlerOK /\ LockOK /\ Ownership BY DEF RTInv
<1>2. RTTypeOK'
  BY <1>1, CoordinatorType, HandlerStepOK, OwnershipStep DEF RTTypeOK, LiveOK
<1> QED BY <1>1, <1>2, HandlerStepOK, OwnershipStep, BackedStep DEF RTInv

LEMMA RTInvariant == RTSpec => []RTInv
  BY RTInvInit, RTInvStep, PTL DEF RTSpec

\* Every reachable state of the manager and the coordinator is well typed; a
\* detached task is never one that was aborted.
THEOREM RTTypeCorrect == RTSpec => []RTTypeOK
<1>1. RTInv => RTTypeOK BY DEF RTInv
<1> QED BY <1>1, RTInvariant, PTL

\* Composed with the manager and its handlers, the coordinator behaves as its own
\* specification says: what is proved of it there holds here.
THEOREM ImplementsCoordinator == RTSpec => CoordinatorSpec
<1>1. RTInit => Init BY DEF RTInit
<1>2. RTInv /\ [RTNext]_allVars => [Next]_vars
  BY StepRefines DEF RTInv
<1> QED BY <1>1, <1>2, RTInvariant, PTL DEF RTSpec, CoordinatorSpec, Spec

\* A map task has exactly one owner as long as it runs, unless its deactivation
\* was dropped half way, however activations and deactivations of any number
\* of handlers interleave.
THEOREM OneOwner == RTSpec => []OneOwnerPerTask
<1>1. RTInv => OneOwnerPerTask
  <2> SUFFICES ASSUME RTInv, NEW c \in Channels
               PROVE  IF c \in live \ Detached THEN Cardinality(Owners(c)) = 1
                      ELSE Owners(c) = {}
    BY DEF OneOwnerPerTask
  <2>1. Ownership BY DEF RTInv
  <2>2. Owners(c) = {m \in Maps : runtimes[m] = c}
                      \cup {h \in Handlers : Ending(h, c)}
    BY DEF Owners, Ending
  <2>3. CASE c \in live \ Detached
    <3>1. \E x : Owners(c) = {x}
      <4>1. CASE \E m \in Maps : runtimes[m] = c
        <5>1. PICK m \in Maps : runtimes[m] = c BY <4>1
        <5>2. Owners(c) = {m} BY <2>1, <2>2, <5>1 DEF Ownership
        <5> QED BY <5>2
      <4>2. CASE \E h \in Handlers : Ending(h, c)
        <5>1. PICK h \in Handlers : Ending(h, c) BY <4>2
        <5>2. Owners(c) = {h} BY <2>1, <2>2, <5>1 DEF Ownership
        <5> QED BY <5>2
      <4> QED BY <2>1, <2>3, <4>1, <4>2 DEF Ownership, Owned
    <3> QED BY <2>3, <3>1, FS_Singleton
  <2>4. CASE c \notin live \ Detached
    BY <2>1, <2>2, <2>4 DEF Ownership, Owned
  <2> QED BY <2>3, <2>4
<1> QED BY <1>1, RTInvariant, PTL

\* The coordinator never keeps a sender nobody will remove, for any number of
\* maps, handlers and activations.
THEOREM NoOrphans == RTSpec => []NoOrphanSender
<1>1. RTInv => NoOrphanSender
  <2> SUFFICES ASSUME RTInv, NEW m \in Maps, map_senders[m] # NoChannel
               PROVE  \/ runtimes[m] = map_senders[m]
                      \/ Unregistering(m, map_senders[m])
                      \/ InInbox(UnregisterMsg(m))
                      \/ map_senders[m] \in detached[m]
    BY DEF NoOrphanSender
  <2>1. map_senders[m] \in Channels BY DEF RTInv, RTTypeOK, TypeOK
  <2> QED BY <2>1 DEF RTInv, SendersBacked, Backed, InInbox
<1> QED BY <1>1, RTInvariant, PTL

=============================================================================
