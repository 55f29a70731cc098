-------------------------------- MODULE AdminApi --------------------------------
(***************************************************************************)
(* The admin API (apps/admin-api, crates/admin_portal) with the two places *)
(* that know which maps run: the map runtimes of the world-service, which  *)
(* do, and the registry table map_instances, which a restarted             *)
(* world-service reads to start them again.                                *)
(*                                                                         *)
(* A map is switched by one call to the world-service, which answers       *)
(* within 900 ms or is given up, and one statement to the database, in     *)
(* this order.  A call that was given up may still be carried out later.   *)
(* How the world-service carries it out is the matter of MapRuntimes: here *)
(* it is one step.                                                         *)
(***************************************************************************)
EXTENDS Naturals, FiniteSets

CONSTANTS
  Maps,         \* map ids a request may name
  Catalog,      \* rows of the table maps
  DefaultMap,   \* map 1
  Tokens, Requests,
  Operations,   \* the endpoints in use
  AdminUsers,   \* the sets of roles of the active rows of admin_users
  NoMap,
  NoRequest,    \* nobody awaits the answer of a call
  MaxLate       \* bound on the calls given up and still under way

VARIABLES
  sessions,     \* AppState.sessions: the admin session of each token
  requests,     \* what each request is doing
  calls,        \* calls and statements that were sent and not yet carried out
  world_up,     \* the world-service runs
  running,      \* maps whose runtime runs
  registry,     \* maps that are active in map_instances
  disturbed     \* history: maps on which something went wrong since the last
                \* request that switched them undisturbed

worldVars == <<world_up, running>>
vars      == <<sessions, requests, calls, worldVars, registry, disturbed>>

-----------------------------------------------------------------------------
\* Roles and permissions (crates/admin_portal).

Permissions ==
  {"accounts.read", "accounts.write", "accounts.ban", "characters.read",
   "characters.write", "characters.disconnect", "world.read", "world.write",
   "moderation.write", "broadcast.send", "audit.read", "metrics.read"}

permissions_for_role ==
  [superadmin |-> Permissions,
   admin |-> Permissions \ {"characters.disconnect", "moderation.write"},
   gm |-> {"characters.read", "characters.write", "characters.disconnect",
           "world.read", "world.write", "moderation.write", "broadcast.send",
           "metrics.read"},
   support |-> {"accounts.read", "characters.read", "moderation.write"},
   readonly |-> {"accounts.read", "characters.read", "world.read", "audit.read",
                 "metrics.read"}]

Roles == DOMAIN permissions_for_role

effective_permissions(roles) == UNION {permissions_for_role[role] : role \in roles}

\* The permission each endpoint asks for.
Permission ==
  [dashboard |-> "metrics.read", services |-> "metrics.read", logs |-> "audit.read",
   audit |-> "audit.read", accounts |-> "accounts.read", sanctions |-> "accounts.read",
   characters |-> "characters.read", inventory |-> "characters.read",
   maps |-> "world.read",
   block |-> "accounts.ban", unblock |-> "accounts.ban", move |-> "characters.write",
   moderation |-> "moderation.write", broadcast |-> "broadcast.send",
   control |-> "world.write",
   reset_password |-> "accounts.write", disconnect |-> "characters.disconnect",
   event |-> "world.write",
   activate |-> "world.write", deactivate |-> "world.write", restart |-> "world.write"]

\* Endpoints that only read, and those of them that leave no audit record.
Reads == {"dashboard", "services", "logs", "audit", "accounts", "sanctions",
          "characters", "inventory", "maps"}

Unlogged == {"dashboard", "audit"}

\* Endpoints that change something with one statement or call.
Changes == {"block", "unblock", "move", "moderation", "broadcast", "control"}

\* Endpoints whose whole effect is their audit record.
Notes == {"reset_password", "disconnect", "event"}

MapOps == {"activate", "deactivate", "restart"}

ASSUME AdminConstants ==
  /\ Catalog \subseteq Maps
  /\ DefaultMap \in Maps
  /\ NoMap \notin Maps
  /\ NoRequest \notin Requests
  /\ Operations \subseteq DOMAIN Permission
  /\ AdminUsers \subseteq SUBSET Roles

-----------------------------------------------------------------------------
\* State.

Session == [roles : AdminUsers \cup {{"superadmin"}}, expired : BOOLEAN]

NoSession == [expired |-> TRUE]

Call == [to : {"world", "registry"}, act : {"activate", "deactivate"}, map : Maps,
         request : Requests \cup {NoRequest}]

Request ==
  [op : Operations, pc : {"work", "wait", "undo", "audit"}, map : Maps \cup {NoMap},
   alone : BOOLEAN]   \* history: nothing else touched its map so far

Idle == [op |-> "none"]

Busy(r) == requests[r] # Idle

\* A request that has still to do with map m, and what earlier ones left behind.
Switches(r, m) == Busy(r) /\ requests[r].map = m

Late(m) == {k \in calls : k.map = m /\ k.request = NoRequest}

Finish(r) == requests' = [requests EXCEPT ![r] = Idle]

\* The request has only its audit record left to write.
ToAudit(r) ==
  [requests EXCEPT ![r].pc = "audit", ![r].map = NoMap, ![r].alone = FALSE]

\* Something touches the maps in M.
Touched(rs, M) ==
  [r \in Requests |-> IF rs[r] # Idle /\ rs[r].map \in M
                      THEN [rs[r] EXCEPT !.alone = FALSE] ELSE rs[r]]

Send(to, act, m, r) ==
  calls \cup {[to |-> to, act |-> act, map |-> m, request |-> r]}

\* A call to a world-service that is down is refused at once, which is a call
\* that nobody carries out.
CallWorld(act, m, r) == IF world_up THEN Send("world", act, m, r) ELSE calls

Opposite(act) == IF act = "activate" THEN "deactivate" ELSE "activate"

-----------------------------------------------------------------------------
\* Sessions.

\* admin_login: a row of admin_users, or the bootstrap administrator.
Login(t) ==
  /\ sessions[t] = NoSession
  /\ \E roles \in AdminUsers \cup {{"superadmin"}} :
       sessions' = [sessions EXCEPT ![t] = [roles |-> roles, expired |-> FALSE]]
  /\ UNCHANGED <<requests, calls, worldVars, registry, disturbed>>

Logout(t) ==
  /\ sessions[t] # NoSession
  /\ sessions' = [sessions EXCEPT ![t] = NoSession]
  /\ UNCHANGED <<requests, calls, worldVars, registry, disturbed>>

\* Time passes the expires_at of a session.
Expire(t) ==
  /\ ~sessions[t].expired
  /\ sessions' = [sessions EXCEPT ![t].expired = TRUE]
  /\ UNCHANGED <<requests, calls, worldVars, registry, disturbed>>

\* Mutant of prune_expired_sessions: there is none.
prune_nothing == sessions

prune_expired_sessions ==
  [t \in Tokens |-> IF sessions[t].expired THEN NoSession ELSE sessions[t]]

\* authenticate: the token names a session that is left after pruning, and one
\* of its roles has the permission of the endpoint.
Authenticated(t, op) ==
  /\ prune_expired_sessions[t] # NoSession
  /\ Permission[op] \in effective_permissions(sessions[t].roles)

Begin(r, t, op, m, pc) ==
  /\ ~Busy(r)
  /\ Authenticated(t, op)
  /\ sessions' = prune_expired_sessions
  /\ requests' = [Touched(requests, {m}) EXCEPT ![r] =
       [op |-> op, pc |-> pc, map |-> m,
        alone |-> op \in MapOps /\ ~\E o \in Requests : Switches(o, m)]]

\* A rejected request prunes as well.
Reject(t, op) ==
  /\ ~Authenticated(t, op)
  /\ sessions' = prune_expired_sessions
  /\ UNCHANGED <<requests, calls, worldVars, registry, disturbed>>

BeginOther(r, t, op) ==
  /\ op \notin MapOps
  /\ Begin(r, t, op, NoMap, IF op \in Notes THEN "audit" ELSE "work")
  /\ UNCHANGED <<calls, worldVars, registry, disturbed>>

\* Activation, deactivation and restart begin with a call to the world-service.
BeginSwitch(r, t, op, m) ==
  /\ op \in MapOps
  /\ Begin(r, t, op, m, "wait")
  /\ calls' = CallWorld(IF op = "activate" THEN op ELSE "deactivate", m, r)
  /\ disturbed' = IF \E o \in Requests : Switches(o, m) THEN disturbed \cup {m}
                  ELSE disturbed
  /\ UNCHANGED <<worldVars, registry>>

-----------------------------------------------------------------------------
\* The world-service carries out a call.

\* Mutant of Accepts: any map may be activated.
AcceptsUnknown(k, willing) == willing

\* world_map_activate looks the map up in the catalog, which may be unavailable;
\* world_map_deactivate refuses a map with players (they come and go unseen from
\* here), and asks no catalog.
Accepts(k, willing) == willing /\ (k.act = "activate" => k.map \in Catalog)

\* Nobody learns that the call was carried out.
CarriedOutUnseen(k) ==
  /\ calls' = calls \ {k}
  /\ requests' = Touched(requests, {k.map})
  /\ UNCHANGED disturbed

\* The request goes on with the answer: a restart to its second call, any other
\* to the registry, and an undo to its end, whatever the answer.
AfterWorld(k, ok) ==
  LET r == k.request
      q == requests[r]
  IN IF ~ok \/ q.pc = "undo"
     THEN /\ Finish(r)
          /\ calls' = calls \ {k}
          /\ disturbed' = IF q.op = "restart" /\ k.act = "activate"
                          THEN disturbed \cup {k.map} ELSE disturbed
     ELSE IF q.op = "restart" /\ k.act = "deactivate"
     THEN /\ calls' = CallWorld("activate", k.map, r) \ {k}
          /\ UNCHANGED <<requests, disturbed>>
     ELSE /\ UNCHANGED <<requests, disturbed>>
          /\ calls' = Send("registry", k.act, k.map, r) \ {k}

\* The answer may get lost on its way, or come too late.
WorldServes(k, willing, answered) ==
  /\ k.to = "world"
  /\ answered => k.request # NoRequest
  /\ running' = IF ~Accepts(k, willing) THEN running
                ELSE IF k.act = "activate" THEN running \cup {k.map}
                ELSE running \ {k.map}
  /\ IF answered THEN AfterWorld(k, Accepts(k, willing))
     ELSE CarriedOutUnseen(k)
  /\ UNCHANGED <<sessions, world_up, registry>>

-----------------------------------------------------------------------------
\* The database carries out a statement of activate_map or deactivate_map.

\* The map was switched on both sides, and nothing interfered.
Settled(r, m) == IF requests[r].alone /\ Late(m) = {} THEN disturbed \ {m} ELSE disturbed

\* A map that is not in the catalog leaves the registry alone, and the call to
\* the world-service is undone by its opposite.
AfterRegistry(k) ==
  LET r == k.request IN
    IF k.map \notin Catalog
    THEN /\ requests' = [requests EXCEPT ![r].pc = "undo"]
         /\ calls' = CallWorld(Opposite(k.act), k.map, r) \ {k}
         /\ UNCHANGED disturbed
    ELSE /\ requests' = ToAudit(r)
         /\ calls' = calls \ {k}
         /\ disturbed' = Settled(r, k.map)

RegistryServes(k, answered) ==
  /\ k.to = "registry"
  /\ answered => k.request # NoRequest
  /\ registry' = IF k.map \notin Catalog THEN registry
                 ELSE IF k.act = "activate" THEN registry \cup {k.map}
                 ELSE registry \ {k.map}
  /\ IF answered THEN AfterRegistry(k)
     ELSE CarriedOutUnseen(k)
  /\ UNCHANGED <<sessions, worldVars>>

-----------------------------------------------------------------------------
\* The other endpoints.

\* The statement or the call of an endpoint succeeds.
Work(r) ==
  /\ Busy(r)
  /\ requests[r].pc = "work"
  /\ requests[r].op # "control"
  /\ IF requests[r].op \in Unlogged THEN Finish(r) ELSE requests' = ToAudit(r)
  /\ UNCHANGED <<sessions, calls, worldVars, registry, disturbed>>

\* audit_action: whether the record was stored or only an error was logged, the
\* request ends well.
Audit(r) ==
  /\ Busy(r)
  /\ requests[r].pc = "audit"
  /\ Finish(r)
  /\ UNCHANGED <<sessions, calls, worldVars, registry, disturbed>>

-----------------------------------------------------------------------------
\* Failures.

\* The calls of the requests in R are not awaited any more, and may be lost.
GivenUp(R) ==
  LET kept == {k \in calls : k.request \notin R}
      late == {[k EXCEPT !.request = NoRequest] : k \in calls \ kept}
  IN IF Cardinality({k \in kept \cup late : k.request = NoRequest}) <= MaxLate
     THEN kept \cup late ELSE kept

\* What the requests in R leave when they end before their time.
LeftBy(R) == disturbed' = disturbed \cup {m \in Maps : \E r \in R : Switches(r, m)}

\* A request ends at any of its awaits: an error of the database, 900 ms without
\* an answer of the world-service, a client that goes away.
Abort(r) ==
  /\ Busy(r)
  /\ Finish(r)
  /\ calls' = GivenUp({r})
  /\ LeftBy({r})
  /\ UNCHANGED <<sessions, worldVars, registry>>

\* A call that was given up is not carried out at all.
LoseCall(k) ==
  /\ k.request = NoRequest
  /\ calls' = calls \ {k}
  /\ UNCHANGED <<sessions, requests, worldVars, registry, disturbed>>

\* The admin API restarts: its sessions are in memory.
AdminRestart ==
  LET B == {r \in Requests : Busy(r)} IN
    /\ sessions' = [t \in Tokens |-> NoSession]
    /\ requests' = [r \in Requests |-> Idle]
    /\ calls' = GivenUp(B)
    /\ LeftBy(B)
    /\ UNCHANGED <<worldVars, registry>>

-----------------------------------------------------------------------------
\* The world-service stops and starts.

StopWorld(rs) ==
  /\ world_up
  /\ world_up' = FALSE
  /\ running' = {}
  /\ calls' = {k \in calls : k.to # "world"}
  /\ requests' = Touched(rs, Maps)
  /\ UNCHANGED <<sessions, registry, disturbed>>

\* Mutant of startup_maps: the default map is always among them.
startup_maps_default(read_ok) ==
  (IF read_ok THEN registry ELSE {}) \cup {DefaultMap}

\* The registry read at startup, or the default map when it has none or cannot
\* be read.
startup_maps(read_ok) ==
  IF read_ok /\ registry # {} THEN registry ELSE {DefaultMap}

StartWorld(read_ok) ==
  /\ ~world_up
  /\ world_up' = TRUE
  /\ running' = startup_maps(read_ok)
  /\ disturbed' = IF ~read_ok \/ registry = {} THEN Maps
                  ELSE {m \in Maps : Late(m) # {} \/ \E r \in Requests : Switches(r, m)}
  /\ UNCHANGED <<sessions, calls, registry>>

\* managed_service_control: systemctl starts or stops the world-service, or
\* does something to another one.
Control(r) ==
  /\ Busy(r)
  /\ requests[r].pc = "work"
  /\ requests[r].op = "control"
  /\ \/ StopWorld(ToAudit(r))
     \/ /\ requests' = ToAudit(r)
        /\ \/ \E read_ok \in BOOLEAN : StartWorld(read_ok)
           \/ UNCHANGED <<sessions, calls, worldVars, registry, disturbed>>

WorldCrash == StopWorld(requests)

WorldRestart == \E read_ok \in BOOLEAN : StartWorld(read_ok) /\ UNCHANGED requests

-----------------------------------------------------------------------------
Init ==
  /\ sessions = [t \in Tokens |-> NoSession]
  /\ requests = [r \in Requests |-> Idle]
  /\ calls = {}
  /\ world_up = FALSE
  /\ running = {}
  /\ registry = {}
  /\ disturbed = {}

SessionStep(t) == Login(t) \/ Logout(t) \/ Expire(t) \/ \E op \in Operations : Reject(t, op)

RequestStep(r) ==
  \/ \E t \in Tokens, op \in Operations :
       BeginOther(r, t, op) \/ \E m \in Maps : BeginSwitch(r, t, op, m)
  \/ Work(r) \/ Control(r) \/ Audit(r) \/ Abort(r)

CallStep(k) ==
  \/ \E willing, answered \in BOOLEAN : WorldServes(k, willing, answered)
  \/ \E answered \in BOOLEAN : RegistryServes(k, answered)
  \/ LoseCall(k)

Next ==
  \/ \E t \in Tokens : SessionStep(t)
  \/ \E r \in Requests : RequestStep(r)
  \/ \E k \in calls : CallStep(k)
  \/ WorldCrash \/ WorldRestart \/ AdminRestart

Spec == Init /\ [][Next]_vars

-----------------------------------------------------------------------------
\* Properties.

TypeOK ==
  /\ sessions \in [Tokens -> Session \cup {NoSession}]
  /\ requests \in [Requests -> Request \cup {Idle}]
  /\ calls \subseteq Call
  /\ world_up \in BOOLEAN
  /\ running \subseteq Catalog \cup {DefaultMap}
  /\ registry \subseteq Catalog
  /\ disturbed \subseteq Maps

\* What the registry says of a map is what the world-service runs, once the
\* requests on the map have ended, unless one of them failed or overlapped with
\* another since the map was last switched undisturbed, or the world-service
\* started without the registry.
RegistryAgrees ==
  \A m \in Maps \ disturbed :
    world_up /\ (\A r \in Requests : ~Switches(r, m)) =>
      (m \in registry <=> m \in running)

\* The administrators who may use an endpoint.
Duty(op) ==
  IF op \in {"block", "unblock", "reset_password"} THEN {"superadmin", "admin"}
  ELSE IF op \in {"moderation", "disconnect"} THEN {"superadmin", "gm", "support"}
  ELSE {"superadmin", "admin", "gm"}

\* Whatever happened to a session before, an endpoint opens to an administrator
\* whose session has not run out.  Accounts are for administrators, moderation
\* is for game masters and support, and who only reads changes nothing.
OnlyOnDuty ==
  \A t \in Tokens, op \in DOMAIN Permission :
    Authenticated(t, op) =>
      /\ ~sessions[t].expired
      /\ op \notin Reads => sessions[t].roles \cap Duty(op) # {}

=============================================================================
