----------------------------- MODULE MapInstance -----------------------------
(***************************************************************************)
(* The tick loop of one map (crates/map_server/src/lib.rs) with the two    *)
(* workers of the world-service that read what it emits.                   *)
(*                                                                         *)
(* On every tick the map drains its command channel up to a budget, then   *)
(* runs its systems in a fixed order: scheduled events, input, movement,   *)
(* combat, skills, AI, AOI and inventory.  The systems emit events and     *)
(* persistence operations on bounded channels and await room for each of   *)
(* them, so the loop stands still while a channel is full.  A command, an  *)
(* attack, a cast or a system without a queue is one step here, which      *)
(* fills "sending" with what it is going to emit; Flush then emits it one  *)
(* item at a time.  The code strikes all blows, and takes the mana of all  *)
(* casts, before it announces the first: nobody else reads the map's own   *)
(* state, so the order of updates and sends cannot be told apart.          *)
(***************************************************************************)
EXTENDS Integers, FiniteSets, Sequences

CONSTANTS
  Sessions,          \* gateway sessions
  Characters,        \* rows of the characters table
  NoCharacter,       \* an EnterWorld that names no character
  NoTarget,          \* a skill cast at nobody; also "nobody" in mover
  Positions,         \* places on the map
  Spawn,             \* where every player enters
  Commands,          \* the commands the model sends, some of AllCommands
  StartHp, StartMp,  \* 100 and 100 in the code
  RxCapacity,        \* room in the command channel (8192)
  Budget,            \* map_command_budget
  OutboundCapacity,  \* room in the event channel (8192)
  PersistCapacity,   \* room in the persistence channel (8192)
  TickPeriod,        \* ticks are counted modulo this
  AiPeriod,          \* 100 in the code
  AoiPeriod          \* 40 in the code

SkillCost == 10

\* What a cast can take: 10 + skill_id.abs() % 7, which is 8 for i32::MIN in a
\* release build, where abs wraps to itself.
SkillDamage == (10..16) \cup {8}

CastCommands ==
  [kind : {"cast"}, session : Sessions, target : Sessions \cup {NoTarget},
   damage : SkillDamage]

AllCommands ==
  [kind : {"enter"}, session : Sessions, character : Characters \cup {NoCharacter}]
    \cup [kind : {"move"}, session : Sessions, pos : Positions]
    \cup [kind : {"attack"}, session : Sessions, target : Sessions]
    \cup CastCommands
    \cup [kind : {"say", "item", "npc", "logout"}, session : Sessions]

ASSUME Capacities ==
  /\ {StartHp, StartMp} \subseteq Nat
  /\ {RxCapacity, Budget, OutboundCapacity, PersistCapacity} \subseteq Nat \ {0}

\* The variance of an attack and the two periods see the tick modulo a common
\* multiple, and the tick after this one differs from it.
ASSUME Periods ==
  /\ {TickPeriod, AiPeriod, AoiPeriod} \subseteq Nat \ {0}
  /\ TickPeriod % 4 = 0 /\ TickPeriod % AiPeriod = 0 /\ TickPeriod % AoiPeriod = 0

ASSUME FiniteSessions == IsFiniteSet(Sessions)

ASSUME Inputs == Commands \subseteq AllCommands /\ Spawn \in Positions

ASSUME Outsiders ==
  /\ NoCharacter \notin Characters \cup Sessions
  /\ NoTarget \notin Sessions

VARIABLES
  rx,         \* commands in the channel
  pending,    \* commands drained and not yet handled
  phase,      \* the system that runs next; "wait" between ticks
  tick,       \* tick_index
  players,    \* per session, the player it has on the map
  attacks,    \* pending_attacks
  casts,      \* pending_skill_casts
  paid,       \* resolved_skills: casts whose mana is taken
  items,      \* how many pending_inventory_changes
  scheduled,  \* per tick, how many events are scheduled for it
  sending,    \* emissions of the running system that are still awaited
  outbound,   \* how many events are in the event channel
  persist,    \* operations in the persistence channel
  saved,      \* per character, the position in the database
  mover,      \* history: the session whose present player last moved as it
  lost,       \* history: characters whose latest save failed
  reported    \* history: per session, damage announced since it entered

channels == <<rx, outbound, persist>>
queued   == <<attacks, casts, paid, items, scheduled>>
history  == <<mover, lost, reported>>
vars == <<rx, pending, phase, tick, players, attacks, casts, paid, items,
          scheduled, sending, outbound, persist, saved, mover, lost, reported>>

\* A player without a character of its own goes by the session's identifier.
Identities == Characters \cup Sessions

Absent == [on |-> FALSE]
Player == [on : {TRUE}, character : Identities, pos : Positions,
           hp : 0..StartHp, mp : 0..StartMp]

On(s) == players[s].on

\* What the map emits.  Text and position events are alike to every property.
Text == [kind |-> "text"]
Hit(d, n) == [kind |-> "hit", defender |-> d, damage |-> n]
SavePosition(c, p) == [kind |-> "position", character |-> c, pos |-> p]
SaveCombatLog == [kind |-> "combat"]
SaveInventoryChange == [kind |-> "inventory"]

Events == {Text} \cup [kind : {"hit"}, defender : Sessions, damage : Nat]
PersistOps == {SaveCombatLog, SaveInventoryChange}
                \cup [kind : {"position"}, character : Identities, pos : Positions]

IsOp(e) == e.kind \in {"position", "combat", "inventory"}

Hurt(hp, damage) == IF damage < hp THEN hp - damage ELSE 0

Repeat(e, n) == [i \in 1..n |-> e]

Population == Cardinality({s \in Sessions : On(s)})

-----------------------------------------------------------------------------
\* The command channel and the start of a tick.

Deliver(cmd) ==
  /\ Len(rx) < RxCapacity
  /\ rx' = Append(rx, cmd)
  /\ UNCHANGED <<pending, phase, tick, players, queued, sending, outbound,
                 persist, saved, history>>

\* drain_incoming_queue and process_scheduled_events.
Tick ==
  LET next == (tick + 1) % TickPeriod
      n == IF Len(rx) < Budget THEN Len(rx) ELSE Budget
  IN /\ phase = "wait" /\ sending = <<>>
     /\ tick' = next
     /\ pending' = pending \o SubSeq(rx, 1, n)
     /\ rx' = SubSeq(rx, n + 1, Len(rx))
     /\ sending' = Repeat(Text, scheduled[next])
     /\ scheduled' = [scheduled EXCEPT ![next] = 0]
     /\ phase' = "input"
     /\ UNCHANGED <<players, attacks, casts, paid, items, outbound, persist, saved,
                    history>>

-----------------------------------------------------------------------------
\* system_input: one command.

Handling(kind) ==
  /\ phase = "input" /\ sending = <<>> /\ pending # <<>>
  /\ Head(pending).kind = kind
  /\ pending' = Tail(pending)
  /\ UNCHANGED <<phase, tick, channels, saved, lost>>

Command == Head(pending)
Sender == Head(pending).session

\* The characters s last moved under are nobody's from now on.
Disown(s) == [c \in Characters |-> IF mover[c] = s THEN NoTarget ELSE mover[c]]

\* Mutant of EnterWorld: insert where the code has or_insert.
EnterWorldInsert ==
  LET c == IF Command.character = NoCharacter THEN Sender ELSE Command.character
  IN /\ Handling("enter")
     /\ players' = [players EXCEPT ![Sender] =
          [on |-> TRUE, character |-> c, pos |-> Spawn, hp |-> StartHp, mp |-> StartMp]]
     /\ reported' = [reported EXCEPT ![Sender] = 0]
     /\ mover' = Disown(Sender)
     /\ UNCHANGED <<queued, sending>>

\* A session that is on the map already keeps its place, health and mana under
\* the character it now names.
EnterWorld ==
  LET c == IF Command.character = NoCharacter THEN Sender ELSE Command.character
      fresh == [on |-> TRUE, character |-> c, pos |-> Spawn,
                hp |-> StartHp, mp |-> StartMp]
  IN /\ Handling("enter")
     /\ IF On(Sender)
        THEN /\ players' = [players EXCEPT ![Sender].character = c]
             /\ mover' = IF players[Sender].character = c THEN mover ELSE Disown(Sender)
             /\ UNCHANGED reported
        ELSE /\ players' = [players EXCEPT ![Sender] = fresh]
             /\ reported' = [reported EXCEPT ![Sender] = 0]
             /\ UNCHANGED mover
     /\ UNCHANGED <<queued, sending>>

Move ==
  LET c == players[Sender].character
  IN /\ Handling("move")
     /\ IF On(Sender)
        THEN /\ players' = [players EXCEPT ![Sender].pos = Command.pos]
             /\ sending' = <<SavePosition(c, Command.pos)>>
             /\ mover' = [x \in Characters |-> IF x = c THEN Sender ELSE mover[x]]
        ELSE UNCHANGED <<players, sending, mover>>
     /\ UNCHANGED <<queued, reported>>

\* Chat, Whisper, GuildChat and Heartbeat: each answers its sender.
Say ==
  /\ Handling("say")
  /\ sending' = <<Text>>
  /\ UNCHANGED <<players, queued, mover, reported>>

Attack ==
  /\ Handling("attack")
  /\ attacks' = Append(attacks, [attacker |-> Sender, defender |-> Command.target])
  /\ UNCHANGED <<players, casts, paid, items, scheduled, sending, mover, reported>>

CastSkill ==
  /\ Handling("cast")
  /\ casts' = Append(casts, Command)
  /\ UNCHANGED <<players, attacks, paid, items, scheduled, sending, mover, reported>>

\* PickupItem, DropItem and UseItem.
ItemCommand ==
  /\ Handling("item")
  /\ items' = items + 1
  /\ UNCHANGED <<players, attacks, casts, paid, scheduled, sending, mover, reported>>

\* Mutant of NpcInteraction: scheduled for the tick that is running.
NpcInteractionNow ==
  /\ Handling("npc")
  /\ scheduled' = [scheduled EXCEPT ![tick] = @ + 1]
  /\ UNCHANGED <<players, attacks, casts, paid, items, sending, mover, reported>>

NpcInteraction ==
  /\ Handling("npc")
  /\ scheduled' = [scheduled EXCEPT ![(tick + 1) % TickPeriod] = @ + 1]
  /\ UNCHANGED <<players, attacks, casts, paid, items, sending, mover, reported>>

Logout ==
  /\ Handling("logout")
  /\ players' = [players EXCEPT ![Sender] = Absent]
  /\ mover' = Disown(Sender)
  /\ UNCHANGED <<queued, sending, reported>>

-----------------------------------------------------------------------------
\* The systems after input.

\* The system called now begins once the emissions of the last one are sent.
System(now, after) ==
  /\ phase = now /\ sending = <<>>
  /\ phase' = after
  /\ UNCHANGED <<pending, tick, channels, saved, history>>

\* All commands are handled: system_movement tells every player its place.
Movement ==
  /\ pending = <<>>
  /\ System("input", "combat")
  /\ sending' = Repeat(Text, Population)
  /\ UNCHANGED <<players, queued>>

\* A system works off its queue.
Resolving(now, queue) ==
  /\ phase = now /\ sending = <<>> /\ queue # <<>>
  /\ UNCHANGED <<pending, phase, tick, channels, saved, history>>

\* The events of a hit: the result, the log, and the notice of a defeat.
Outcome(d, damage, hp) ==
  <<Hit(d, damage), SaveCombatLog>> \o (IF hp = 0 THEN <<Text>> ELSE <<>>)

\* Mutant of Strike: the blow lands before the attacker is looked up.
StrikeUnseen ==
  LET a == Head(attacks)
      damage == 5 + (tick % 4)
      hp == Hurt(players[a.defender].hp, damage)
  IN /\ Resolving("combat", attacks)
     /\ attacks' = Tail(attacks)
     /\ IF On(a.defender)
        THEN /\ players' = [players EXCEPT ![a.defender].hp = hp]
             /\ sending' = IF On(a.attacker) THEN Outcome(a.defender, damage, hp) ELSE <<>>
        ELSE UNCHANGED <<players, sending>>
     /\ UNCHANGED <<casts, paid, items, scheduled>>

\* One pending attack; one whose attacker or defender has left is skipped.
Strike ==
  LET a == Head(attacks)
      damage == 5 + (tick % 4)
      hp == Hurt(players[a.defender].hp, damage)
  IN /\ Resolving("combat", attacks)
     /\ attacks' = Tail(attacks)
     /\ IF On(a.attacker) /\ On(a.defender)
        THEN /\ players' = [players EXCEPT ![a.defender].hp = hp]
             /\ sending' = Outcome(a.defender, damage, hp)
        ELSE UNCHANGED <<players, sending>>
     /\ UNCHANGED <<casts, paid, items, scheduled>>

\* Mutant of Pay: the mana is never looked at.
PayUnchecked ==
  LET cast == Head(casts)
  IN /\ Resolving("skills", casts)
     /\ casts' = Tail(casts)
     /\ IF On(cast.session)
        THEN /\ players' = [players EXCEPT ![cast.session].mp = @ - SkillCost]
             /\ paid' = Append(paid, cast)
        ELSE UNCHANGED <<players, paid>>
     /\ UNCHANGED <<attacks, items, scheduled, sending>>

\* One pending cast is paid for, or refused for lack of mana; a caster that has
\* left is skipped.
Pay ==
  LET cast == Head(casts)
      mp == players[cast.session].mp
  IN /\ Resolving("skills", casts)
     /\ casts' = Tail(casts)
     /\ \/ /\ ~On(cast.session)
           /\ UNCHANGED <<players, paid, sending>>
        \/ /\ On(cast.session) /\ mp < SkillCost
           /\ sending' = <<Text>>
           /\ UNCHANGED <<players, paid>>
        \/ /\ On(cast.session) /\ mp >= SkillCost
           /\ players' = [players EXCEPT ![cast.session].mp = @ - SkillCost]
           /\ paid' = Append(paid, cast)
           /\ UNCHANGED sending
     /\ UNCHANGED <<attacks, items, scheduled>>

\* One paid cast takes effect; a target that is not on the map is passed over.
Cast ==
  LET cast == Head(paid)
  IN /\ Resolving("effects", paid)
     /\ paid' = Tail(paid)
     /\ \/ /\ cast.target = NoTarget
           /\ sending' = <<Text>>
           /\ UNCHANGED players
        \/ /\ cast.target # NoTarget /\ On(cast.target)
           /\ players' = [players EXCEPT ![cast.target].hp = Hurt(@, cast.damage)]
           /\ sending' = <<Hit(cast.target, cast.damage), SaveCombatLog>>
        \/ /\ cast.target # NoTarget /\ ~On(cast.target)
           /\ UNCHANGED <<players, sending>>
     /\ UNCHANGED <<attacks, casts, items, scheduled>>

\* Everybody has paid before the first skill takes effect, and all skills have
\* taken effect before the AI runs.
Resolved ==
  /\ \/ attacks = <<>> /\ System("combat", "skills")
     \/ casts = <<>> /\ System("skills", "effects")
     \/ paid = <<>> /\ System("effects", "ai")
  /\ UNCHANGED <<players, queued, sending>>

Ai ==
  /\ System("ai", "aoi")
  /\ sending' = IF tick % AiPeriod = 0 /\ Population > 0 THEN <<Text>> ELSE <<>>
  /\ UNCHANGED <<players, queued>>

Aoi ==
  /\ System("aoi", "inventory")
  /\ sending' = IF tick % AoiPeriod = 0 THEN Repeat(Text, Population) ELSE <<>>
  /\ UNCHANGED <<players, queued>>

Inventory ==
  /\ System("inventory", "wait")
  /\ sending' = Repeat(SaveInventoryChange, items)
  /\ items' = 0
  /\ UNCHANGED <<players, attacks, casts, paid, scheduled>>

-----------------------------------------------------------------------------
\* The channels behind the map.

\* The send the map awaits finds room in its channel.
Flush ==
  LET e == Head(sending)
  IN /\ sending # <<>>
     /\ sending' = Tail(sending)
     /\ IF IsOp(e)
        THEN /\ Len(persist) < PersistCapacity
             /\ persist' = Append(persist, e)
             /\ UNCHANGED outbound
        ELSE /\ outbound < OutboundCapacity
             /\ outbound' = outbound + 1
             /\ UNCHANGED persist
     /\ reported' =
          IF e.kind = "hit"
          THEN [reported EXCEPT ![e.defender] =
                  IF @ + e.damage < StartHp THEN @ + e.damage ELSE StartHp]
          ELSE reported
     /\ UNCHANGED <<rx, pending, phase, tick, players, queued, saved, mover, lost>>

OutboundWorker ==
  /\ outbound > 0
  /\ outbound' = outbound - 1
  /\ UNCHANGED <<rx, pending, phase, tick, players, queued, sending, persist,
                 saved, history>>

\* What the database holds after an operation, and which saves it then lacks.
\* The update of a player without a character matches no row.
Apply(op, ok) ==
  IF op.kind = "position" /\ op.character \in Characters
  THEN /\ saved' = IF ok THEN [saved EXCEPT ![op.character] = op.pos] ELSE saved
       /\ lost' = IF ok THEN lost \ {op.character} ELSE lost \cup {op.character}
  ELSE UNCHANGED <<saved, lost>>

\* Mutant of PersistWorker: each operation runs in a task of its own.
PersistWorkerSpawns(ok) ==
  /\ \E i \in DOMAIN persist :
       /\ Apply(persist[i], ok)
       /\ persist' = SubSeq(persist, 1, i - 1) \o SubSeq(persist, i + 1, Len(persist))
  /\ UNCHANGED <<rx, pending, phase, tick, players, queued, sending, outbound,
                 mover, reported>>

\* Mutant of PersistWorker: an operation that failed is queued again.
PersistWorkerRequeues(ok) ==
  /\ persist # <<>>
  /\ Apply(Head(persist), ok)
  /\ persist' = IF ok THEN Tail(persist) ELSE Append(Tail(persist), Head(persist))
  /\ UNCHANGED <<rx, pending, phase, tick, players, queued, sending, outbound,
                 mover, reported>>

\* One operation at a time; one the database refuses is logged and dropped.
PersistWorker(ok) ==
  /\ persist # <<>>
  /\ Apply(Head(persist), ok)
  /\ persist' = Tail(persist)
  /\ UNCHANGED <<rx, pending, phase, tick, players, queued, sending, outbound,
                 mover, reported>>

-----------------------------------------------------------------------------
Init ==
  /\ rx = <<>> /\ pending = <<>> /\ sending = <<>> /\ persist = <<>>
  /\ phase = "wait" /\ tick = 0
  /\ players = [s \in Sessions |-> Absent]
  /\ attacks = <<>> /\ casts = <<>> /\ paid = <<>> /\ items = 0
  /\ scheduled = [t \in 0..(TickPeriod - 1) |-> 0]
  /\ outbound = 0
  /\ saved = [c \in Characters |-> Spawn]
  /\ mover = [c \in Characters |-> NoTarget]
  /\ lost = {}
  /\ reported = [s \in Sessions |-> 0]

Input == EnterWorld \/ Move \/ Say \/ Attack \/ CastSkill \/ ItemCommand
           \/ NpcInteraction \/ Logout

MapTask == Tick \/ Input \/ Movement \/ Strike \/ Pay \/ Cast \/ Resolved
             \/ Ai \/ Aoi \/ Inventory \/ Flush

Next ==
  \/ \E cmd \in Commands : Deliver(cmd)
  \/ MapTask
  \/ OutboundWorker
  \/ \E ok \in BOOLEAN : PersistWorker(ok)

Spec == Init /\ [][Next]_vars

\* The runtime polls each task; whether the database answers is not assumed.
FairSpec ==
  Spec /\ WF_vars(MapTask) /\ WF_vars(OutboundWorker)
       /\ WF_vars(\E ok \in BOOLEAN : PersistWorker(ok))

-----------------------------------------------------------------------------
\* Type correctness of the loop's state.
TypeOK ==
  /\ rx \in Seq(AllCommands) /\ Len(rx) <= RxCapacity
  /\ pending \in Seq(AllCommands) /\ Len(pending) <= Budget
  /\ phase \in {"wait", "input", "combat", "skills", "effects", "ai", "aoi", "inventory"}
  /\ tick \in 0..(TickPeriod - 1)
  /\ players \in [Sessions -> Player \cup {Absent}]
  /\ attacks \in Seq([attacker : Sessions, defender : Sessions])
  /\ {casts, paid} \subseteq Seq(CastCommands)
  /\ items \in Nat
  /\ scheduled \in [0..(TickPeriod - 1) -> Nat]
  /\ sending \in Seq(Events \cup PersistOps)
  /\ outbound \in 0..OutboundCapacity
  /\ persist \in Seq(PersistOps) /\ Len(persist) <= PersistCapacity
  /\ saved \in [Characters -> Positions]
  /\ mover \in [Characters -> Sessions \cup {NoTarget}]
  /\ lost \subseteq Characters
  /\ reported \in [Sessions -> 0..StartHp]

\* The damage of a blow the map is about to announce.
Owed(s) ==
  IF sending # <<>> /\ Head(sending).kind = "hit" /\ Head(sending).defender = s
  THEN Head(sending).damage ELSE 0

\* A player's health is what it entered with less every hit announced since, and
\* the one the map is about to announce: no damage without its CombatResult, none
\* announced and not taken, whoever leaves or enters between a blow's queueing
\* and its resolution.
DamageReported ==
  \A s \in Sessions : On(s) => players[s].hp = Hurt(StartHp, reported[s] + Owed(s))

\* The operations in the persistence channel and those still to be sent there,
\* and those of them that save a character's position.
Operations == persist \o sending

Saves(c) ==
  {i \in DOMAIN Operations :
     Operations[i].kind = "position" /\ Operations[i].character = c}

\* The position the database has for a character, or is going to have once the
\* operations in the channel and the one being sent are through, is where the
\* player that last moved under its name stands; a save the database refused is
\* the only excuse.
PositionsSaved ==
  \A c \in Characters \ lost : mover[c] # NoTarget =>
    LET place == players[mover[c]].pos IN
      /\ Saves(c) = {} => saved[c] = place
      /\ \A i \in Saves(c) :
           (\A j \in Saves(c) : j <= i) => Operations[i].pos = place

\* Between ticks the only events left are those of the very next tick: an event
\* scheduled for a tick that has begun would wait for ever, since the loop only
\* looks up the tick it is at.
NoStrandedEvent ==
  phase = "wait" =>
    \A t \in 0..(TickPeriod - 1) : scheduled[t] > 0 => t = (tick + 1) % TickPeriod

\* As long as a session stays on the map nothing restores its health or mana:
\* entering again, under the same character or another, does not heal.
ReenterDoesNotHeal ==
  [][\A s \in Sessions :
       On(s) /\ On(s)' => players'[s].hp <= players[s].hp /\ players'[s].mp <= players[s].mp]_vars

\* A full command channel is drained again, whatever the map was awaiting and
\* even when the database never accepts another operation.
RxDrains == Len(rx) = RxCapacity ~> Len(rx) < RxCapacity

=============================================================================
