--------------------------- MODULE MapInstanceProofs ---------------------------
(***************************************************************************)
(* Nobody is hurt unannounced, no position is forgotten and no event is    *)
(* stranded, for any number of players, any commands and any capacities.   *)
(***************************************************************************)
EXTENDS MapInstance, SequenceTheorems, FiniteSetTheorems, TLAPS

Emissions == Events \cup PersistOps

\* Only the first of the emissions a system awaits is a hit or a position.
Plain(q) == \A i \in 2..Len(q) : q[i].kind \notin {"hit", "position"}

\* A system emits q.
Emits(q) == q \in Seq(Emissions) /\ Plain(q)

LoopOK ==
  /\ phase # "input" => pending = <<>>
  /\ Plain(sending)

-----------------------------------------------------------------------------
\* Constants, players and sequences.

LEMMA PlayerOn ==
  ASSUME TypeOK, NEW s \in Sessions, On(s)
  PROVE  players[s] \in Player
BY DEF TypeOK, On, Absent

LEMMA PlayerFields ==
  ASSUME NEW p \in Player
  PROVE  /\ p.on
         /\ p.character \in Identities
         /\ p.pos \in Positions
         /\ p.hp \in 0..StartHp
         /\ p.mp \in 0..StartMp
         /\ \A h \in 0..StartHp : [p EXCEPT !.hp = h] \in Player
         /\ \A m \in 0..StartMp : [p EXCEPT !.mp = m] \in Player
         /\ \A x \in Positions : [p EXCEPT !.pos = x] \in Player
         /\ \A c \in Identities : [p EXCEPT !.character = c] \in Player
BY DEF Player

LEMMA HurtType ==
  ASSUME NEW h \in 0..StartHp, NEW n \in Nat
  PROVE  Hurt(h, n) \in 0..StartHp
BY Capacities DEF Hurt

LEMMA RepeatType ==
  ASSUME NEW S, NEW e \in S, NEW n \in Nat
  PROVE  /\ Repeat(e, n) \in Seq(S)
         /\ Len(Repeat(e, n)) = n
         /\ \A i \in 1..n : Repeat(e, n)[i] = e
<1>1. Repeat(e, n) \in [1..n -> S]
  BY DEF Repeat
<1>2. Repeat(e, n) \in Seq(S)
  BY <1>1, SeqDef
<1> QED
  BY <1>1, <1>2, LenProperties DEF Repeat

LEMMA PopulationType == Population \in Nat
<1>1. IsFiniteSet({s \in Sessions : On(s)})
  BY FiniteSessions, FS_Subset
<1> QED
  BY <1>1, FS_CardinalityType DEF Population

LEMMA Kinds ==
  /\ Text \in Emissions
  /\ SaveCombatLog \in Emissions
  /\ SaveInventoryChange \in Emissions
  /\ Text.kind = "text"
  /\ SaveCombatLog.kind = "combat"
  /\ SaveInventoryChange.kind = "inventory"
  /\ \A s \in Sessions, n \in Nat :
       /\ Hit(s, n) \in Emissions
       /\ Hit(s, n).kind = "hit"
       /\ Hit(s, n).defender = s
       /\ Hit(s, n).damage = n
  /\ \A c \in Identities, p \in Positions :
       /\ SavePosition(c, p) \in Emissions
       /\ SavePosition(c, p).kind = "position"
       /\ SavePosition(c, p).character = c
       /\ SavePosition(c, p).pos = p
BY DEF Emissions, Events, PersistOps, Text, SaveCombatLog, SaveInventoryChange, Hit,
       SavePosition

\* An emission is an event or an operation.
LEMMA EmissionKinds ==
  ASSUME NEW e \in Emissions
  PROVE  /\ IsOp(e) => e \in PersistOps
         /\ e.kind = "hit" => e.defender \in Sessions /\ e.damage \in Nat
         /\ e.kind = "position" => e.character \in Identities /\ e.pos \in Positions
         /\ e.kind = "position" => IsOp(e)
         /\ e.kind = "hit" => ~IsOp(e)
BY DEF Emissions, Events, PersistOps, Text, SaveCombatLog, SaveInventoryChange, IsOp

LEMMA EmitsNothing == Emits(<<>>)
BY DEF Emits, Plain

LEMMA EmitsOne ==
  ASSUME NEW e \in Emissions
  PROVE  Emits(<<e>>) /\ Head(<<e>>) = e /\ <<e>> # <<>>
BY DEF Emits, Plain

LEMMA EmitsRepeat ==
  ASSUME NEW e \in {Text, SaveInventoryChange}, NEW n \in Nat
  PROVE  Emits(Repeat(e, n)) /\ \A i \in 1..Len(Repeat(e, n)) : Repeat(e, n)[i] = e
<1>1. e \in Emissions /\ e.kind \notin {"hit", "position"}
  BY Kinds
<1>2. /\ Repeat(e, n) \in Seq(Emissions)
      /\ Len(Repeat(e, n)) = n
      /\ \A i \in 1..n : Repeat(e, n)[i] = e
  BY <1>1, RepeatType
<1> QED
  BY <1>1, <1>2 DEF Emits, Plain

LEMMA PairAndOne ==
  ASSUME NEW S, NEW a \in S, NEW b \in S, NEW c \in S
  PROVE  <<a, b>> \o <<c>> = <<a, b, c>>
<1>1. <<a, b>> \in Seq(S) /\ <<c>> \in Seq(S) /\ <<a, b, c>> \in Seq(S)
  OBVIOUS
<1>2. Len(<<a, b>>) = 2 /\ Len(<<c>>) = 1 /\ Len(<<a, b, c>>) = 3
  OBVIOUS
<1>3. <<a, b>> \o <<c>> \in Seq(S) /\ Len(<<a, b>> \o <<c>>) = 3
  BY <1>1, <1>2, ConcatProperties
<1>4. \A i \in 1..3 : (<<a, b>> \o <<c>>)[i] =
                       IF i <= 2 THEN <<a, b>>[i] ELSE <<c>>[i - 2]
  BY <1>1, <1>2, ConcatProperties
<1>5. \A i \in 1..3 : (<<a, b>> \o <<c>>)[i] = <<a, b, c>>[i]
  BY <1>4
<1> QED
  BY <1>1, <1>2, <1>3, <1>5, SeqEqual

LEMMA EmitsOutcome ==
  ASSUME NEW d \in Sessions, NEW n \in Nat, NEW hp
  PROVE  /\ Emits(Outcome(d, n, hp))
         /\ Outcome(d, n, hp) # <<>>
         /\ Head(Outcome(d, n, hp)) = Hit(d, n)
<1>1. CASE hp = 0
  <2>1. <<Hit(d, n), SaveCombatLog>> \o <<Text>> = <<Hit(d, n), SaveCombatLog, Text>>
    BY Kinds, PairAndOne
  <2>2. Outcome(d, n, hp) = <<Hit(d, n), SaveCombatLog, Text>>
    BY <1>1, <2>1 DEF Outcome
  <2> QED
    BY <2>2, Kinds DEF Emits, Plain
<1>2. CASE hp # 0
  <2>1. Outcome(d, n, hp) = <<Hit(d, n), SaveCombatLog>>
    BY <1>2, Kinds DEF Outcome
  <2> QED
    BY <2>1, Kinds DEF Emits, Plain
<1> QED
  BY <1>1, <1>2

LEMMA EmitsSkill ==
  ASSUME NEW d \in Sessions, NEW n \in Nat
  PROVE  Emits(<<Hit(d, n), SaveCombatLog>>)
BY Kinds DEF Emits, Plain

-----------------------------------------------------------------------------
\* Types.

Base == TypeOK /\ LoopOK

\* What every step of the loop but Flush may do to the state it works on.
Works ==
  /\ players' \in [Sessions -> Player \cup {Absent}]
  /\ attacks' \in Seq([attacker : Sessions, defender : Sessions])
  /\ {casts', paid'} \subseteq Seq(CastCommands)
  /\ items' \in Nat
  /\ scheduled' \in [0..(TickPeriod - 1) -> Nat]
  /\ Emits(sending')

LEMMA SendingOK == TypeOK /\ LoopOK => Emits(sending)
BY DEF TypeOK, LoopOK, Emits, Emissions

\* Players keep their type when one of them changes.
LEMMA PlayersExcept ==
  ASSUME TypeOK, NEW s \in Sessions, NEW p \in Player \cup {Absent}
  PROVE  /\ [players EXCEPT ![s] = p] \in [Sessions -> Player \cup {Absent}]
         /\ [players EXCEPT ![s] = p][s] = p
         /\ \A x \in Sessions \ {s} : [players EXCEPT ![s] = p][x] = players[x]
BY DEF TypeOK

LEMMA HandlingBase ==
  ASSUME TypeOK, LoopOK, NEW kind, Handling(kind), Works,
         mover' \in [Characters -> Sessions \cup {NoTarget}],
         reported' \in [Sessions -> 0..StartHp]
  PROVE  Base'
<1>1. /\ phase = "input"
      /\ pending # <<>>
      /\ pending' = Tail(pending)
      /\ UNCHANGED <<phase, tick, rx, outbound, persist, saved, lost>>
  BY DEF Handling, channels
<1>2. pending' \in Seq(AllCommands) /\ Len(pending') <= Budget
  <2>1. pending \in Seq(AllCommands) /\ Len(pending) <= Budget
    BY DEF TypeOK
  <2>2. Tail(pending) \in Seq(AllCommands) /\ Len(Tail(pending)) = Len(pending) - 1
    BY <1>1, <2>1, HeadTailProperties
  <2>3. Len(pending) \in Nat
    BY <2>1, LenProperties
  <2> QED
    BY <1>1, <2>1, <2>2, <2>3, Capacities
<1> QED
  BY <1>1, <1>2 DEF Base, TypeOK, LoopOK, Works, Emits, Emissions

\* The command at hand.
LEMMA HandlingCommand ==
  ASSUME TypeOK, NEW kind, Handling(kind)
  PROVE  /\ Command \in AllCommands
         /\ Command.kind = kind
         /\ Sender \in Sessions
         /\ sending = <<>>
<1>1. Head(pending) \in AllCommands
  BY HeadTailProperties DEF TypeOK, Handling
<1>2. Head(pending).session \in Sessions
  BY <1>1 DEF AllCommands, CastCommands
<1> QED
  BY <1>1, <1>2 DEF Handling, Command, Sender

LEMMA SystemBase ==
  ASSUME TypeOK, LoopOK, NEW now,
         NEW after \in {"wait", "combat", "skills", "effects", "ai", "aoi", "inventory"},
         System(now, after), pending = <<>>, Works
  PROVE  Base'
BY DEF System, Base, TypeOK, LoopOK, Works, Emits, Emissions, channels, history

LEMMA ResolvingBase ==
  ASSUME TypeOK, LoopOK, NEW now, NEW queue, Resolving(now, queue), Works
  PROVE  Base'
BY DEF Resolving, Base, TypeOK, LoopOK, Works, Emits, Emissions, channels, history

\* A system after input finds all commands handled.
LEMMA SystemPending ==
  ASSUME LoopOK, NEW now \in {"combat", "skills", "effects", "ai", "aoi", "inventory"},
         NEW after, System(now, after)
  PROVE  pending = <<>>
BY DEF System, LoopOK

LEMMA DisownType ==
  ASSUME TypeOK, NEW s \in Sessions
  PROVE  Disown(s) \in [Characters -> Sessions \cup {NoTarget}]
BY DEF TypeOK, Disown

LEMMA EnterType ==
  ASSUME TypeOK, LoopOK, EnterWorld
  PROVE  Base'
<1> DEFINE c == IF Command.character = NoCharacter THEN Sender ELSE Command.character
           fresh == [on |-> TRUE, character |-> c, pos |-> Spawn,
                     hp |-> StartHp, mp |-> StartMp]
<1>0. Handling("enter") /\ UNCHANGED <<queued, sending>>
  BY DEF EnterWorld
<1>1. Command \in AllCommands /\ Command.kind = "enter" /\ Sender \in Sessions
  BY <1>0, HandlingCommand
<1>2. c \in Identities
  BY <1>1 DEF AllCommands, CastCommands, Identities
<1>3. fresh \in Player
  BY <1>2, Capacities, Inputs DEF Player
<1>4. On(Sender) => [players[Sender] EXCEPT !.character = c] \in Player
  BY <1>1, <1>2, PlayerOn, PlayerFields
<1>5. \/ /\ On(Sender)
         /\ players' = [players EXCEPT ![Sender] = [players[Sender] EXCEPT !.character = c]]
         /\ mover' = mover \/ mover' = Disown(Sender)
         /\ reported' = reported
      \/ /\ players' = [players EXCEPT ![Sender] = fresh]
         /\ mover' = mover
         /\ reported' = [reported EXCEPT ![Sender] = 0]
  BY DEF EnterWorld
<1> HIDE DEF c, fresh
<1>6. players' \in [Sessions -> Player \cup {Absent}]
  BY <1>1, <1>3, <1>4, <1>5, PlayersExcept
<1>7. mover' \in [Characters -> Sessions \cup {NoTarget}]
  BY <1>1, <1>5, DisownType DEF TypeOK
<1>8. reported' \in [Sessions -> 0..StartHp]
  <2>1. 0 \in 0..StartHp /\ reported \in [Sessions -> 0..StartHp]
    BY Capacities DEF TypeOK
  <2>2. reported' = reported \/ reported' = [reported EXCEPT ![Sender] = 0]
    BY <1>5
  <2> QED
    BY <1>1, <2>1, <2>2
<1>9. Works
  BY <1>0, <1>6, SendingOK DEF Works, TypeOK, queued
<1> QED
  BY <1>0, <1>7, <1>8, <1>9, HandlingBase

LEMMA MoveType ==
  ASSUME TypeOK, LoopOK, Move
  PROVE  Base'
<1>0. Handling("move") /\ UNCHANGED <<queued, reported>>
  BY DEF Move
<1>1. /\ Sender \in Sessions
      /\ Command.pos \in Positions
  BY <1>0, HandlingCommand DEF AllCommands, CastCommands
<1>2. CASE On(Sender)
  <2>1. players[Sender] \in Player
    BY <1>1, <1>2, PlayerOn
  <2>2. [players[Sender] EXCEPT !.pos = Command.pos] \in Player
    BY <1>1, <2>1, PlayerFields
  <2>3. players' \in [Sessions -> Player \cup {Absent}]
    BY <1>1, <1>2, <2>2, PlayersExcept DEF Move
  <2>4. Emits(sending')
    BY <1>1, <1>2, <2>1, PlayerFields, Kinds, EmitsOne DEF Move
  <2>5. mover' \in [Characters -> Sessions \cup {NoTarget}]
    BY <1>1, <1>2 DEF Move, TypeOK
  <2>6. Works
    BY <1>0, <2>3, <2>4 DEF Works, TypeOK, queued
  <2> QED
    BY <1>0, <2>5, <2>6, HandlingBase DEF TypeOK
<1>3. CASE ~On(Sender)
  <2>1. UNCHANGED <<players, sending, mover>>
    BY <1>3 DEF Move
  <2>2. Works
    BY <1>0, <2>1, SendingOK DEF Works, TypeOK, queued
  <2> QED
    BY <1>0, <2>1, <2>2, HandlingBase DEF TypeOK
<1> QED
  BY <1>2, <1>3

LEMMA SayType ==
  ASSUME TypeOK, LoopOK, Say
  PROVE  Base'
<1>1. Handling("say") /\ UNCHANGED <<players, queued, mover, reported>>
  BY DEF Say
<1>2. Works
  BY <1>1, Kinds, EmitsOne DEF Say, Works, TypeOK, queued
<1> QED
  BY <1>1, <1>2, HandlingBase DEF TypeOK

LEMMA AttackType ==
  ASSUME TypeOK, LoopOK, Attack
  PROVE  Base'
<1>1. Handling("attack")
  BY DEF Attack
<1>2. [attacker |-> Sender, defender |-> Command.target]
        \in [attacker : Sessions, defender : Sessions]
  BY <1>1, HandlingCommand DEF AllCommands, CastCommands
<1>3. attacks' \in Seq([attacker : Sessions, defender : Sessions])
  BY <1>2, AppendProperties DEF Attack, TypeOK
<1>4. Works
  BY <1>3, SendingOK DEF Attack, Works, TypeOK
<1> QED
  BY <1>1, <1>4, HandlingBase DEF Attack, TypeOK

LEMMA CastSkillType ==
  ASSUME TypeOK, LoopOK, CastSkill
  PROVE  Base'
<1>1. Handling("cast")
  BY DEF CastSkill
<1>2. Command \in CastCommands
  BY <1>1, HandlingCommand DEF AllCommands
<1>3. casts' \in Seq(CastCommands)
  BY <1>2, AppendProperties DEF CastSkill, TypeOK
<1>4. Works
  BY <1>3, SendingOK DEF CastSkill, Works, TypeOK
<1> QED
  BY <1>1, <1>4, HandlingBase DEF CastSkill, TypeOK

LEMMA ItemType ==
  ASSUME TypeOK, LoopOK, ItemCommand
  PROVE  Base'
<1>1. Handling("item")
  BY DEF ItemCommand
<1>2. Works
  BY SendingOK DEF ItemCommand, Works, TypeOK
<1> QED
  BY <1>1, <1>2, HandlingBase DEF ItemCommand, TypeOK

\* The tick after this one is a tick.
LEMMA NextTick ==
  ASSUME TypeOK
  PROVE  (tick + 1) % TickPeriod \in 0..(TickPeriod - 1)
BY Periods DEF TypeOK

LEMMA NpcType ==
  ASSUME TypeOK, LoopOK, NpcInteraction
  PROVE  Base'
<1>1. Handling("npc")
  BY DEF NpcInteraction
<1>2. scheduled' \in [0..(TickPeriod - 1) -> Nat]
  BY NextTick DEF NpcInteraction, TypeOK
<1>3. Works
  BY <1>2, SendingOK DEF NpcInteraction, Works, TypeOK
<1> QED
  BY <1>1, <1>3, HandlingBase DEF NpcInteraction, TypeOK

LEMMA LogoutType ==
  ASSUME TypeOK, LoopOK, Logout
  PROVE  Base'
<1>1. Handling("logout") /\ UNCHANGED <<queued, sending, reported>>
  BY DEF Logout
<1>2. Sender \in Sessions
  BY <1>1, HandlingCommand
<1>3. Works
  BY <1>1, <1>2, PlayersExcept, SendingOK DEF Logout, Works, TypeOK, queued
<1> QED
  BY <1>1, <1>2, <1>3, DisownType, HandlingBase DEF Logout, TypeOK

-----------------------------------------------------------------------------
\* Types, of the systems.

LEMMA TickType ==
  ASSUME TypeOK, LoopOK, Tick
  PROVE  Base'
<1> DEFINE n == IF Len(rx) < Budget THEN Len(rx) ELSE Budget
<1>1. /\ rx \in Seq(AllCommands)
      /\ Len(rx) \in Nat
      /\ Len(rx) <= RxCapacity
      /\ n \in Nat
      /\ n <= Len(rx)
      /\ n <= Budget
  BY Capacities, LenProperties DEF TypeOK
<1>2. /\ SubSeq(rx, 1, n) \in Seq(AllCommands)
      /\ Len(SubSeq(rx, 1, n)) = n
      /\ SubSeq(rx, n + 1, Len(rx)) \in Seq(AllCommands)
      /\ Len(SubSeq(rx, n + 1, Len(rx))) <= Len(rx)
  <2>1. \A i \in 1..Len(rx) : rx[i] \in AllCommands
    BY <1>1, ElementOfSeq
  <2>2. SubSeq(rx, 1, n) \in Seq(AllCommands) /\ Len(SubSeq(rx, 1, n)) = n
    <3>1. \A i \in 1..n : rx[i] \in AllCommands
      BY <1>1, <2>1
    <3>2. n \in Int /\ 1 \in Int
      BY <1>1
    <3> HIDE DEF n
    <3>3. /\ SubSeq(rx, 1, n) \in Seq(AllCommands)
          /\ Len(SubSeq(rx, 1, n)) = IF 1 <= n THEN n - 1 + 1 ELSE 0
      BY <3>1, <3>2, SubSeqProperties
    <3> QED
      BY <1>1, <3>3
  <2>3. /\ SubSeq(rx, n + 1, Len(rx)) \in Seq(AllCommands)
        /\ Len(SubSeq(rx, n + 1, Len(rx))) <= Len(rx)
    <3>1. \A i \in (n + 1)..Len(rx) : rx[i] \in AllCommands
      BY <1>1, <2>1
    <3>2. n + 1 \in Int /\ Len(rx) \in Int
      BY <1>1
    <3> HIDE DEF n
    <3>3. /\ SubSeq(rx, n + 1, Len(rx)) \in Seq(AllCommands)
          /\ Len(SubSeq(rx, n + 1, Len(rx))) =
               IF n + 1 <= Len(rx) THEN Len(rx) - (n + 1) + 1 ELSE 0
      BY <3>1, <3>2, SubSeqProperties
    <3> QED
      BY <1>1, <3>3
  <2> QED
    BY <2>2, <2>3
<1>3. pending = <<>> /\ phase' = "input"
  BY DEF Tick, LoopOK
<1>4. pending' = SubSeq(rx, 1, n) /\ rx' = SubSeq(rx, n + 1, Len(rx))
  BY <1>2, <1>3, ConcatEmptySeq DEF Tick
<1> HIDE DEF n
<1>5. scheduled' \in [0..(TickPeriod - 1) -> Nat]
  BY NextTick DEF Tick, TypeOK
<1>6. Emits(sending')
  <2>1. scheduled[(tick + 1) % TickPeriod] \in Nat
    BY NextTick DEF TypeOK
  <2> QED
    BY <2>1, EmitsRepeat DEF Tick
<1>7. tick' \in 0..(TickPeriod - 1)
  BY NextTick DEF Tick
<1>8. /\ rx' \in Seq(AllCommands)
      /\ Len(rx') <= RxCapacity
      /\ pending' \in Seq(AllCommands)
      /\ Len(pending') <= Budget
  <2>1. Len(rx') \in Nat
    BY <1>2, <1>4, LenProperties
  <2> QED
    BY <1>1, <1>2, <1>4, <2>1, Capacities
<1>9. UNCHANGED <<players, attacks, casts, paid, items, outbound, persist, saved, mover,
                  lost, reported>>
  BY DEF Tick, history
<1> QED
  BY <1>3, <1>5, <1>6, <1>7, <1>8, <1>9 DEF Base, TypeOK, LoopOK, Emits, Emissions

LEMMA DeliverType ==
  ASSUME TypeOK, LoopOK, NEW cmd \in Commands, Deliver(cmd)
  PROVE  Base'
<1>1. rx' \in Seq(AllCommands) /\ Len(rx') <= RxCapacity
  <2>1. cmd \in AllCommands
    BY Inputs
  <2>2. rx \in Seq(AllCommands) /\ Len(rx) \in Nat /\ Len(rx) < RxCapacity
    BY LenProperties DEF TypeOK, Deliver
  <2>3. Append(rx, cmd) \in Seq(AllCommands) /\ Len(Append(rx, cmd)) = Len(rx) + 1
    BY <2>1, <2>2, AppendProperties
  <2> QED
    BY <2>2, <2>3, Capacities DEF Deliver
<1>2. UNCHANGED <<pending, phase, tick, players, attacks, casts, paid, items, scheduled,
                  sending, outbound, persist, saved, mover, lost, reported>>
  BY DEF Deliver, queued, history
<1> QED
  BY <1>1, <1>2 DEF Base, TypeOK, LoopOK

LEMMA MovementType ==
  ASSUME TypeOK, LoopOK, Movement
  PROVE  Base'
<1>1. pending = <<>> /\ System("input", "combat")
  BY DEF Movement
<1>2. Works
  BY PopulationType, EmitsRepeat DEF Movement, Works, TypeOK, queued
<1> QED
  BY <1>1, <1>2, SystemBase

LEMMA ResolvedType ==
  ASSUME TypeOK, LoopOK, Resolved
  PROVE  Base'
<1>1. Works
  BY SendingOK DEF Resolved, Works, TypeOK, queued
<1> QED
  BY <1>1, SystemPending, SystemBase DEF Resolved

LEMMA AiType ==
  ASSUME TypeOK, LoopOK, Ai
  PROVE  Base'
<1>1. Works
  BY Kinds, EmitsOne, EmitsNothing DEF Ai, Works, TypeOK, queued
<1> QED
  BY <1>1, SystemPending, SystemBase DEF Ai

LEMMA AoiType ==
  ASSUME TypeOK, LoopOK, Aoi
  PROVE  Base'
<1>1. Works
  BY PopulationType, EmitsRepeat, EmitsNothing DEF Aoi, Works, TypeOK, queued
<1> QED
  BY <1>1, SystemPending, SystemBase DEF Aoi

LEMMA InventoryType ==
  ASSUME TypeOK, LoopOK, Inventory
  PROVE  Base'
<1>1. Works
  BY EmitsRepeat DEF Inventory, Works, TypeOK
<1> QED
  BY <1>1, SystemPending, SystemBase DEF Inventory

\* The blow at hand.
LEMMA Blow ==
  ASSUME TypeOK, NEW a, a = Head(attacks), attacks # <<>>
  PROVE  /\ a.attacker \in Sessions
         /\ a.defender \in Sessions
         /\ 5 + (tick % 4) \in Nat
         /\ Tail(attacks) \in Seq([attacker : Sessions, defender : Sessions])
         /\ On(a.defender) =>
              /\ players[a.defender] \in Player
              /\ players[a.defender].hp \in 0..StartHp
<1>1. /\ a \in [attacker : Sessions, defender : Sessions]
      /\ Tail(attacks) \in Seq([attacker : Sessions, defender : Sessions])
  BY HeadTailProperties DEF TypeOK
<1>2. tick \in Nat
  BY Periods DEF TypeOK
<1> QED
  BY <1>1, <1>2, PlayerOn, PlayerFields

LEMMA StrikeType ==
  ASSUME TypeOK, LoopOK, Strike
  PROVE  Base'
<1>1. PICK a : a = Head(attacks)
  OBVIOUS
<1>2. PICK hp : hp = Hurt(players[a.defender].hp, 5 + (tick % 4))
  OBVIOUS
<1>3. /\ Resolving("combat", attacks)
      /\ attacks # <<>>
      /\ attacks' = Tail(attacks)
      /\ UNCHANGED <<casts, paid, items, scheduled>>
  BY DEF Strike, Resolving
<1>4. CASE On(a.attacker) /\ On(a.defender)
  <2>1. players' = [players EXCEPT ![a.defender] = [players[a.defender] EXCEPT !.hp = hp]]
    BY <1>1, <1>2, <1>4 DEF Strike
  <2>2. sending' = Outcome(a.defender, 5 + (tick % 4), hp)
    BY <1>1, <1>2, <1>4 DEF Strike
  <2>3. hp \in 0..StartHp
    BY <1>1, <1>2, <1>3, <1>4, Blow, HurtType
  <2>4. [players[a.defender] EXCEPT !.hp = hp] \in Player
    BY <1>1, <1>3, <1>4, <2>3, Blow, PlayerFields
  <2>5. players' \in [Sessions -> Player \cup {Absent}]
    BY <1>1, <1>3, <2>1, <2>4, Blow, PlayersExcept
  <2>6. Emits(sending')
    BY <1>1, <1>3, <2>2, Blow, EmitsOutcome
  <2>7. Works
    BY <1>1, <1>3, <2>5, <2>6, Blow DEF Works, TypeOK
  <2> QED
    BY <1>3, <2>7, ResolvingBase
<1>5. CASE ~(On(a.attacker) /\ On(a.defender))
  <2>1. UNCHANGED <<players, sending>>
    BY <1>1, <1>5 DEF Strike
  <2>2. Works
    BY <1>1, <1>3, <2>1, Blow, SendingOK DEF Works, TypeOK
  <2> QED
    BY <1>3, <2>2, ResolvingBase
<1> QED
  BY <1>4, <1>5

LEMMA PayType ==
  ASSUME TypeOK, LoopOK, Pay
  PROVE  Base'
<1>1. PICK cast : cast = Head(casts)
  OBVIOUS
<1>2. /\ Resolving("skills", casts)
      /\ casts # <<>>
      /\ casts' = Tail(casts)
      /\ UNCHANGED <<attacks, items, scheduled>>
  BY DEF Pay, Resolving
<1>3. cast \in CastCommands /\ casts' \in Seq(CastCommands) /\ cast.session \in Sessions
  <2>1. cast \in CastCommands /\ casts' \in Seq(CastCommands)
    BY <1>1, <1>2, HeadTailProperties DEF TypeOK
  <2> QED
    BY <2>1 DEF CastCommands
<1>4. CASE On(cast.session) /\ players[cast.session].mp >= SkillCost
  <2>1. PICK mp : mp = players[cast.session].mp - SkillCost
    OBVIOUS
  <2>2. players[cast.session] \in Player /\ players[cast.session].mp \in 0..StartMp
    BY <1>3, <1>4, PlayerOn, PlayerFields
  <2>3. /\ players' = [players EXCEPT ![cast.session] =
                         [players[cast.session] EXCEPT !.mp = mp]]
        /\ paid' = Append(paid, cast)
        /\ sending' = sending
    BY <1>1, <1>4, <2>1, <2>2 DEF Pay, SkillCost
  <2>4. mp \in 0..StartMp
    BY <1>4, <2>1, <2>2, Capacities DEF SkillCost
  <2>5. [players[cast.session] EXCEPT !.mp = mp] \in Player
    BY <2>2, <2>4, PlayerFields
  <2>6. players' \in [Sessions -> Player \cup {Absent}]
    BY <1>3, <2>3, <2>5, PlayersExcept
  <2>7. paid' \in Seq(CastCommands)
    BY <1>3, <2>3, AppendProperties DEF TypeOK
  <2>8. Works
    BY <1>2, <1>3, <2>3, <2>6, <2>7, SendingOK DEF Works, TypeOK
  <2> QED
    BY <1>2, <2>8, ResolvingBase
<1>5. CASE ~(On(cast.session) /\ players[cast.session].mp >= SkillCost)
  <2>1. UNCHANGED <<players, paid>> /\ (sending' = sending \/ sending' = <<Text>>)
    BY <1>1, <1>5 DEF Pay
  <2>2. Emits(sending')
    BY <2>1, SendingOK, Kinds, EmitsOne
  <2>3. Works
    BY <1>2, <1>3, <2>1, <2>2 DEF Works, TypeOK
  <2> QED
    BY <1>2, <2>3, ResolvingBase
<1> QED
  BY <1>4, <1>5

\* The skill at hand.
LEMMA Skill ==
  ASSUME TypeOK, NEW cast, cast = Head(paid), paid # <<>>
  PROVE  /\ cast.target \in Sessions \cup {NoTarget}
         /\ cast.damage \in Nat
         /\ Tail(paid) \in Seq(CastCommands)
<1>1. cast \in CastCommands /\ Tail(paid) \in Seq(CastCommands)
  BY HeadTailProperties DEF TypeOK
<1> QED
  BY <1>1 DEF CastCommands, SkillDamage

LEMMA CastType ==
  ASSUME TypeOK, LoopOK, Cast
  PROVE  Base'
<1>1. PICK cast : cast = Head(paid)
  OBVIOUS
<1>2. /\ Resolving("effects", paid)
      /\ paid # <<>>
      /\ paid' = Tail(paid)
      /\ UNCHANGED <<attacks, casts, items, scheduled>>
  BY DEF Cast, Resolving
<1>3. paid' \in Seq(CastCommands)
  BY <1>1, <1>2, Skill
<1>4. CASE cast.target # NoTarget /\ On(cast.target)
  <2>1. PICK hp : hp = Hurt(players[cast.target].hp, cast.damage)
    OBVIOUS
  <2>2. /\ players' = [players EXCEPT ![cast.target] =
                         [players[cast.target] EXCEPT !.hp = hp]]
        /\ sending' = <<Hit(cast.target, cast.damage), SaveCombatLog>>
    BY <1>1, <1>4, <2>1 DEF Cast
  <2>3. cast.target \in Sessions /\ cast.damage \in Nat
    BY <1>1, <1>2, <1>4, Skill
  <2>4. players[cast.target] \in Player /\ players[cast.target].hp \in 0..StartHp
    BY <1>4, <2>3, PlayerOn, PlayerFields
  <2>5. hp \in 0..StartHp
    BY <2>1, <2>3, <2>4, HurtType
  <2>6. [players[cast.target] EXCEPT !.hp = hp] \in Player
    BY <2>4, <2>5, PlayerFields
  <2>7. players' \in [Sessions -> Player \cup {Absent}]
    BY <2>2, <2>3, <2>6, PlayersExcept
  <2>8. Works
    BY <1>2, <1>3, <2>2, <2>3, <2>7, EmitsSkill DEF Works, TypeOK
  <2> QED
    BY <1>2, <2>8, ResolvingBase
<1>5. CASE ~(cast.target # NoTarget /\ On(cast.target))
  <2>1. players' = players /\ (sending' = sending \/ sending' = <<Text>>)
    BY <1>1, <1>5 DEF Cast
  <2>2. Emits(sending')
    BY <2>1, SendingOK, Kinds, EmitsOne
  <2>3. Works
    BY <1>2, <1>3, <2>1, <2>2 DEF Works, TypeOK
  <2> QED
    BY <1>2, <2>3, ResolvingBase
<1> QED
  BY <1>4, <1>5

\* An emission leaves for its channel.
LEMMA Emission ==
  ASSUME TypeOK, LoopOK, sending # <<>>
  PROVE  /\ Head(sending) \in Emissions
         /\ Emits(Tail(sending))
         /\ Tail(sending) # <<>> => Head(Tail(sending)).kind \notin {"hit", "position"}
<1>1. sending \in Seq(Emissions) /\ Plain(sending)
  BY SendingOK DEF Emits
<1>2. /\ Head(sending) \in Emissions
      /\ Tail(sending) \in Seq(Emissions)
      /\ Len(Tail(sending)) = Len(sending) - 1
      /\ \A i \in 1..Len(Tail(sending)) : Tail(sending)[i] = sending[i + 1]
  BY <1>1, HeadTailProperties
<1>3. Len(sending) \in Nat
  BY <1>1, LenProperties
<1>4. \A i \in 1..Len(Tail(sending)) : Tail(sending)[i].kind \notin {"hit", "position"}
  BY <1>1, <1>2, <1>3 DEF Plain
<1>5. Tail(sending) # <<>> => Head(Tail(sending)) = Tail(sending)[1] /\ Len(Tail(sending)) >= 1
  BY <1>2, EmptySeq
<1> QED
  BY <1>2, <1>3, <1>4, <1>5 DEF Emits, Plain

LEMMA FlushType ==
  ASSUME TypeOK, LoopOK, Flush
  PROVE  Base'
<1>1. PICK e : e = Head(sending)
  OBVIOUS
<1>2. /\ sending # <<>>
      /\ sending' = Tail(sending)
      /\ UNCHANGED <<rx, pending, phase, tick, players, attacks, casts, paid, items,
                     scheduled, saved, mover, lost>>
  BY DEF Flush, queued
<1>3. e \in Emissions /\ Emits(sending')
  BY <1>1, <1>2, Emission
<1>4. outbound' \in 0..OutboundCapacity /\ persist' \in Seq(PersistOps)
      /\ Len(persist') <= PersistCapacity
  <2>1. /\ persist \in Seq(PersistOps)
        /\ Len(persist) \in Nat
        /\ Len(persist) <= PersistCapacity
        /\ outbound \in 0..OutboundCapacity
    BY LenProperties DEF TypeOK
  <2>2. CASE IsOp(e)
    <3>1. /\ e \in PersistOps
          /\ Len(persist) < PersistCapacity
          /\ persist' = Append(persist, e)
          /\ outbound' = outbound
      BY <1>1, <1>3, <2>2, EmissionKinds DEF Flush
    <3>2. Append(persist, e) \in Seq(PersistOps) /\ Len(Append(persist, e)) = Len(persist) + 1
      BY <2>1, <3>1, AppendProperties
    <3> QED
      BY <2>1, <3>1, <3>2, Capacities
  <2>3. CASE ~IsOp(e)
    <3>1. /\ outbound < OutboundCapacity
          /\ outbound' = outbound + 1
          /\ persist' = persist
      BY <1>1, <2>3 DEF Flush
    <3> QED
      BY <2>1, <3>1, Capacities
  <2> QED
    BY <2>2, <2>3
<1>5. reported' \in [Sessions -> 0..StartHp]
  <2>1. CASE e.kind = "hit"
    <3>1. e.defender \in Sessions /\ e.damage \in Nat
      BY <1>3, <2>1, EmissionKinds
    <3>2. reported[e.defender] \in 0..StartHp
      BY <3>1 DEF TypeOK
    <3>3. PICK n : n = IF reported[e.defender] + e.damage < StartHp
                       THEN reported[e.defender] + e.damage ELSE StartHp
      OBVIOUS
    <3>4. n \in 0..StartHp
      BY <3>1, <3>2, <3>3, Capacities
    <3>5. reported' = [reported EXCEPT ![e.defender] = n]
      BY <1>1, <2>1, <3>3 DEF Flush
    <3> QED
      BY <3>1, <3>4, <3>5 DEF TypeOK
  <2>2. CASE e.kind # "hit"
    BY <1>1, <2>2 DEF Flush, TypeOK
  <2> QED
    BY <2>1, <2>2
<1> QED
  BY <1>2, <1>3, <1>4, <1>5 DEF Base, TypeOK, LoopOK, Emits, Emissions

LEMMA OutboundType ==
  ASSUME TypeOK, LoopOK, OutboundWorker
  PROVE  Base'
BY Capacities DEF OutboundWorker, Base, TypeOK, LoopOK, queued, history

LEMMA PersistType ==
  ASSUME TypeOK, LoopOK, NEW ok \in BOOLEAN, PersistWorker(ok)
  PROVE  Base'
<1>1. /\ Head(persist) \in PersistOps
      /\ persist' \in Seq(PersistOps)
      /\ Len(persist') <= PersistCapacity
  <2>1. persist \in Seq(PersistOps) /\ persist # <<>> /\ Len(persist) \in Nat
    BY LenProperties DEF TypeOK, PersistWorker
  <2>2. /\ Head(persist) \in PersistOps
        /\ Tail(persist) \in Seq(PersistOps)
        /\ Len(Tail(persist)) = Len(persist) - 1
    BY <2>1, HeadTailProperties
  <2> QED
    BY <2>1, <2>2, Capacities DEF TypeOK, PersistWorker
<1>2. saved' \in [Characters -> Positions] /\ lost' \subseteq Characters
  <2>1. PICK op \in Emissions : op = Head(persist) /\ Apply(op, ok)
    BY <1>1 DEF PersistWorker, Emissions
  <2>2. op.kind = "position" => op.pos \in Positions
    BY <2>1, EmissionKinds
  <2> QED
    BY <2>1, <2>2 DEF TypeOK, Apply
<1>3. UNCHANGED <<rx, pending, phase, tick, players, attacks, casts, paid, items,
                  scheduled, sending, outbound, mover, reported>>
  BY DEF PersistWorker, queued
<1> QED
  BY <1>1, <1>2, <1>3 DEF Base, TypeOK, LoopOK

-----------------------------------------------------------------------------
\* Health.

\* A head that is neither a hit nor a position.
Mute(q) == q # <<>> => Head(q).kind \notin {"hit", "position"}

LEMMA MuteOwes ==
  ASSUME Mute(sending), NEW s \in Sessions
  PROVE  Owed(s) = 0
BY DEF Mute, Owed

LEMMA HealthKept ==
  ASSUME DamageReported, reported' = reported,
         \/ sending' = sending
         \/ Mute(sending) /\ Mute(sending'),
         \A s \in Sessions : On(s)' => On(s) /\ players'[s].hp = players[s].hp
  PROVE  DamageReported'
<1>1. ASSUME NEW s \in Sessions
      PROVE  Owed(s)' = Owed(s)
  BY DEF Mute, Owed
<1> QED
  BY <1>1 DEF DamageReported

\* Two blows are one.
LEMMA TwoHurts ==
  ASSUME NEW h \in Nat, NEW a \in Nat, NEW b \in Nat
  PROVE  Hurt(Hurt(h, a), b) = Hurt(h, a + b)
BY DEF Hurt

\* A blow of n that is going to be announced.
LEMMA BlowReported ==
  ASSUME TypeOK, DamageReported, sending = <<>>,
         NEW d \in Sessions, On(d), NEW n \in Nat,
         players' = [players EXCEPT ![d] =
           [players[d] EXCEPT !.hp = Hurt(players[d].hp, n)]],
         sending' # <<>>, Head(sending') = Hit(d, n), reported' = reported
  PROVE  DamageReported'
<1>1. /\ players[d] \in Player
      /\ reported[d] \in Nat
      /\ StartHp \in Nat
  <2>1. reported[d] \in 0..StartHp
    BY DEF TypeOK
  <2> QED
    BY <2>1, PlayerOn, Capacities
<1>2. \A s \in Sessions : Owed(s) = 0
  BY DEF Owed
<1>3. players[d].hp = Hurt(StartHp, reported[d])
  BY <1>1, <1>2 DEF DamageReported
<1>4. players'[d].hp = Hurt(StartHp, reported[d] + n)
  <2>1. players'[d].hp = Hurt(players[d].hp, n)
    BY <1>1 DEF TypeOK, Player
  <2> QED
    BY <1>1, <1>3, <2>1, TwoHurts
<1>5. Owed(d)' = n
  BY Kinds DEF Owed
<1>6. ASSUME NEW s \in Sessions \ {d}
      PROVE  Owed(s)' = 0 /\ players'[s] = players[s]
  BY Kinds DEF Owed, TypeOK
<1> QED
  BY <1>2, <1>4, <1>5, <1>6 DEF DamageReported, On

LEMMA FlushHealth ==
  ASSUME TypeOK, LoopOK, DamageReported, Flush
  PROVE  DamageReported'
<1>1. PICK e : e = Head(sending)
  OBVIOUS
<1>2. /\ sending # <<>>
      /\ sending' = Tail(sending)
      /\ players' = players
      /\ e \in Emissions
      /\ Mute(sending')
  BY <1>1, Emission DEF Flush, Mute
<1>3. \A s \in Sessions : Owed(s)' = 0
  BY <1>2, MuteOwes DEF Owed, Mute
<1>4. CASE e.kind = "hit"
  <2>1. e.defender \in Sessions /\ e.damage \in Nat
    BY <1>2, <1>4, EmissionKinds
  <2>2. reported \in [Sessions -> 0..StartHp] /\ StartHp \in Nat
    BY Capacities DEF TypeOK
  <2>3. reported' = [reported EXCEPT ![e.defender] =
          IF reported[e.defender] + e.damage < StartHp
          THEN reported[e.defender] + e.damage ELSE StartHp]
    BY <1>1, <1>4 DEF Flush
  <2>4. ASSUME NEW s \in Sessions
        PROVE  Hurt(StartHp, reported'[s]) = Hurt(StartHp, reported[s] + Owed(s))
    <3>1. CASE s = e.defender
      <4>1. Owed(s) = e.damage
        BY <1>1, <1>2, <1>4, <3>1 DEF Owed
      <4> QED
        BY <2>1, <2>2, <2>3, <3>1, <4>1 DEF Hurt
    <3>2. CASE s # e.defender
      <4>1. Owed(s) = 0
        BY <1>1, <3>2 DEF Owed
      <4> QED
        BY <2>1, <2>2, <2>3, <3>2, <4>1
    <3> QED
      BY <3>1, <3>2
  <2>5. \A s \in Sessions : reported'[s] + 0 = reported'[s]
    BY <2>1, <2>2, <2>3
  <2> QED
    BY <1>2, <1>3, <2>4, <2>5 DEF DamageReported, On
<1>5. CASE e.kind # "hit"
  <2>1. reported' = reported
    BY <1>1, <1>5 DEF Flush
  <2>2. \A s \in Sessions : Owed(s) = 0
    BY <1>1, <1>5 DEF Owed
  <2> QED
    BY <1>2, <1>3, <2>1, <2>2 DEF DamageReported, On
<1> QED
  BY <1>4, <1>5

-----------------------------------------------------------------------------
\* Places.

IsSave(e, c) == e.kind = "position" /\ e.character = c

\* The map awaits room for the position of character c.
Leaving(c) == sending # <<>> /\ IsSave(Head(sending), c)

InChannel(c) == {i \in DOMAIN persist : IsSave(persist[i], c)}

\* Who last moved under a name is still there under that name.
MoverOK ==
  \A c \in Characters :
    mover[c] # NoTarget => On(mover[c]) /\ players[mover[c]].character = c

\* The last that is known of c, unless a save failed, is where its mover stands.
PlaceKnown(c) ==
  LET place == players[mover[c]].pos IN
    IF Leaving(c) THEN Head(sending).pos = place
    ELSE /\ \A i \in InChannel(c) :
              (\A j \in InChannel(c) : j <= i) => persist[i].pos = place
         /\ InChannel(c) = {} /\ c \notin lost => saved[c] = place

PlacesOK == \A c \in Characters : mover[c] # NoTarget => PlaceKnown(c)

\* Who has moved is where it was, and nothing of it is on its way.
LEMMA PlacesKept ==
  ASSUME TypeOK, MoverOK, PlacesOK,
         UNCHANGED <<persist, saved, lost>>,
         \/ sending' = sending
         \/ Mute(sending) /\ Mute(sending'),
         \A c \in Characters : mover'[c] # NoTarget =>
           /\ mover'[c] = mover[c]
           /\ On(mover[c]) => /\ players'[mover[c]].on
                              /\ players'[mover[c]].character = players[mover[c]].character
                              /\ players'[mover[c]].pos = players[mover[c]].pos
  PROVE  MoverOK' /\ PlacesOK'
<1>1. ASSUME NEW c \in Characters, mover'[c] # NoTarget
      PROVE  /\ mover'[c] = mover[c]
             /\ mover[c] # NoTarget
             /\ On(mover[c])
             /\ players[mover[c]].character = c
             /\ players'[mover'[c]].on
             /\ players'[mover'[c]].character = c
             /\ players'[mover'[c]].pos = players[mover[c]].pos
  BY <1>1 DEF MoverOK
<1>2. MoverOK'
  BY <1>1 DEF MoverOK, On
<1>3. ASSUME NEW c \in Characters
      PROVE  /\ Leaving(c)' <=> Leaving(c)
             /\ Leaving(c) => sending' = sending
             /\ InChannel(c)' = InChannel(c)
  BY DEF Leaving, IsSave, Mute, InChannel
<1>4. ASSUME NEW c \in Characters, mover'[c] # NoTarget
      PROVE  PlaceKnown(c)'
  <2>1. PlaceKnown(c)
    BY <1>1, <1>4 DEF PlacesOK
  <2> QED
    BY <1>1, <1>3, <1>4, <2>1 DEF PlaceKnown
<1> QED
  BY <1>2, <1>4 DEF PlacesOK

LEMMA EnterPlaces ==
  ASSUME TypeOK, MoverOK, PlacesOK, EnterWorld
  PROVE  MoverOK' /\ PlacesOK'
<1>1. PICK c : c = IF Command.character = NoCharacter THEN Sender ELSE Command.character
  OBVIOUS
<1>2. Handling("enter") /\ sending' = sending /\ UNCHANGED <<persist, saved, lost>>
  BY DEF EnterWorld, Handling, channels
<1>3. Sender \in Sessions
  BY <1>2, HandlingCommand
<1>4. CASE On(Sender)
  <2>1. /\ players' = [players EXCEPT ![Sender] = [players[Sender] EXCEPT !.character = c]]
        /\ mover' = IF players[Sender].character = c THEN mover ELSE Disown(Sender)
    BY <1>1, <1>4 DEF EnterWorld
  <2>2. players[Sender] \in Player
    BY <1>3, <1>4, PlayerOn
  <2>3. /\ players'[Sender].on
        /\ players'[Sender].character = c
        /\ players'[Sender].pos = players[Sender].pos
        /\ \A x \in Sessions \ {Sender} : players'[x] = players[x]
    BY <1>3, <2>1, <2>2 DEF TypeOK, Player
  <2>4. ASSUME NEW x \in Characters, mover'[x] # NoTarget
        PROVE  /\ mover'[x] = mover[x]
               /\ mover[x] \in Sessions
               /\ mover[x] = Sender => players[Sender].character = c
    BY <2>1, <2>4 DEF Disown, TypeOK
  <2>5. ASSUME NEW x \in Characters, mover'[x] # NoTarget, On(mover[x])
        PROVE  /\ players'[mover[x]].on
               /\ players'[mover[x]].character = players[mover[x]].character
               /\ players'[mover[x]].pos = players[mover[x]].pos
    <3>1. CASE mover[x] = Sender
      BY <2>3, <2>4, <2>5, <3>1
    <3>2. CASE mover[x] # Sender
      BY <2>3, <2>4, <2>5, <3>2 DEF On
    <3> QED
      BY <3>1, <3>2
  <2> QED
    BY <1>2, <2>4, <2>5, PlacesKept
<1>5. CASE ~On(Sender)
  <2>1. mover' = mover /\ \A x \in Sessions \ {Sender} : players'[x] = players[x]
    BY <1>5 DEF EnterWorld, TypeOK
  <2>2. \A x \in Characters : mover[x] # NoTarget => mover[x] \in Sessions \ {Sender}
    BY <1>5 DEF MoverOK, TypeOK
  <2>3. ASSUME NEW x \in Characters, mover'[x] # NoTarget, On(mover[x])
        PROVE  /\ players'[mover[x]].on
               /\ players'[mover[x]].character = players[mover[x]].character
               /\ players'[mover[x]].pos = players[mover[x]].pos
    BY <2>1, <2>2, <2>3 DEF On
  <2> QED
    BY <1>2, <2>1, <2>3, PlacesKept
<1> QED
  BY <1>4, <1>5

LEMMA LogoutPlaces ==
  ASSUME TypeOK, MoverOK, PlacesOK, Logout
  PROVE  MoverOK' /\ PlacesOK'
<1>1. /\ Handling("logout")
      /\ sending' = sending
      /\ UNCHANGED <<persist, saved, lost>>
      /\ players' = [players EXCEPT ![Sender] = Absent]
      /\ mover' = Disown(Sender)
  BY DEF Logout, Handling, channels
<1>2. Sender \in Sessions
  BY <1>1, HandlingCommand
<1>3. ASSUME NEW x \in Characters, mover'[x] # NoTarget
      PROVE  mover'[x] = mover[x] /\ mover[x] \in Sessions \ {Sender}
  BY <1>1, <1>3 DEF Disown, TypeOK
<1>4. ASSUME NEW x \in Characters, mover'[x] # NoTarget, On(mover[x])
      PROVE  /\ players'[mover[x]].on
             /\ players'[mover[x]].character = players[mover[x]].character
             /\ players'[mover[x]].pos = players[mover[x]].pos
  <2>1. players'[mover[x]] = players[mover[x]]
    BY <1>1, <1>3, <1>4 DEF TypeOK
  <2> QED
    BY <1>4, <2>1 DEF On
<1> QED
  BY <1>1, <1>3, <1>4, PlacesKept

LEMMA MovePlaces ==
  ASSUME TypeOK, MoverOK, PlacesOK, Move
  PROVE  MoverOK' /\ PlacesOK'
<1>1. /\ Handling("move")
      /\ sending = <<>>
      /\ UNCHANGED <<persist, saved, lost>>
  BY DEF Move, Handling, channels
<1>2. Sender \in Sessions /\ Command.pos \in Positions
  BY <1>1, HandlingCommand DEF AllCommands, CastCommands
<1>3. CASE ~On(Sender)
  <2>1. UNCHANGED <<players, sending, mover>>
    BY <1>3 DEF Move
  <2> QED
    BY <1>1, <2>1, PlacesKept DEF On
<1>4. CASE On(Sender)
  <2>1. PICK c : c = players[Sender].character
    OBVIOUS
  <2>2. players[Sender] \in Player /\ c \in Identities
    BY <1>2, <1>4, <2>1, PlayerOn, PlayerFields
  <2>3. /\ players' = [players EXCEPT ![Sender] =
                         [players[Sender] EXCEPT !.pos = Command.pos]]
        /\ sending' = <<SavePosition(c, Command.pos)>>
        /\ mover' = [x \in Characters |-> IF x = c THEN Sender ELSE mover[x]]
    BY <1>4, <2>1 DEF Move
  <2>4. /\ players'[Sender].on
        /\ players'[Sender].character = c
        /\ players'[Sender].pos = Command.pos
        /\ \A x \in Sessions \ {Sender} : players'[x] = players[x]
    BY <1>2, <2>1, <2>2, <2>3 DEF TypeOK, Player
  <2>5. /\ sending' # <<>>
        /\ Head(sending') = SavePosition(c, Command.pos)
    BY <1>2, <2>2, <2>3, Kinds, EmitsOne
  <2>6. /\ Leaving(c)'
        /\ Head(sending').pos = Command.pos
        /\ \A x \in Characters \ {c} : ~Leaving(x)'
    BY <1>2, <2>2, <2>5, Kinds DEF Leaving, IsSave
  <2>7. ASSUME NEW x \in Characters, x # c, mover'[x] # NoTarget
        PROVE  /\ mover'[x] = mover[x]
               /\ mover[x] \in Sessions \ {Sender}
               /\ players'[mover[x]] = players[mover[x]]
               /\ On(mover[x]) /\ players[mover[x]].character = x
               /\ PlaceKnown(x)
    BY <2>1, <2>3, <2>4, <2>7 DEF MoverOK, PlacesOK, TypeOK
  <2>8. ASSUME NEW x \in Characters, mover'[x] # NoTarget
        PROVE  On(mover[x])' /\ players'[mover'[x]].character = x /\ PlaceKnown(x)'
    <3>1. CASE x = c
      <4>1. mover'[x] = Sender
        BY <2>3, <3>1
      <4> QED
        BY <2>4, <2>6, <3>1, <4>1 DEF PlaceKnown, On
    <3>2. CASE x # c
      <4>1. ~Leaving(x) /\ ~Leaving(x)' /\ InChannel(x)' = InChannel(x)
        BY <1>1, <2>6, <3>2 DEF Leaving, InChannel, IsSave
      <4>2. PlaceKnown(x)'
        BY <1>1, <2>7, <2>8, <3>2, <4>1 DEF PlaceKnown
      <4> QED
        BY <2>7, <2>8, <3>2, <4>2 DEF On
    <3> QED
      BY <3>1, <3>2
  <2> QED
    BY <2>8 DEF MoverOK, PlacesOK
<1> QED
  BY <1>3, <1>4

LEMMA FlushPlaces ==
  ASSUME TypeOK, LoopOK, MoverOK, PlacesOK, Flush
  PROVE  MoverOK' /\ PlacesOK'
<1>1. PICK e \in Emissions : e = Head(sending)
  BY Emission DEF Flush
<1>2. /\ sending # <<>>
      /\ sending' = Tail(sending)
      /\ UNCHANGED <<players, mover, saved, lost>>
      /\ Mute(sending')
  BY Emission DEF Flush, Mute
<1>3. MoverOK'
  BY <1>2 DEF MoverOK, On
<1>4. \A c \in Characters : ~Leaving(c)'
  BY <1>2 DEF Leaving, IsSave, Mute
<1>5. CASE ~IsOp(e)
  <2>1. persist' = persist /\ \A c \in Characters : ~Leaving(c)
    BY <1>1, <1>5 DEF Flush, Leaving, IsSave, IsOp
  <2>2. \A c \in Characters : InChannel(c)' = InChannel(c)
    BY <2>1 DEF InChannel
  <2>3. PlacesOK'
    BY <1>2, <1>4, <2>1, <2>2 DEF PlacesOK, PlaceKnown
  <2> QED
    BY <1>3, <2>3
<1>6. CASE IsOp(e)
  <2>1. PICK n \in Nat : n = Len(persist)
    BY LenProperties DEF TypeOK
  <2>2. persist' = Append(persist, e) /\ e \in PersistOps /\ persist \in Seq(PersistOps)
    BY <1>1, <1>6, EmissionKinds DEF Flush, TypeOK
  <2>3. /\ Len(persist') = n + 1
        /\ DOMAIN persist = 1..n
        /\ DOMAIN persist' = 1..(n + 1)
        /\ \A i \in 1..n : persist'[i] = persist[i]
        /\ persist'[n + 1] = e
    <3>1. persist' \in Seq(PersistOps) /\ Len(persist') = n + 1
      BY <2>1, <2>2, AppendProperties
    <3> QED
      BY <2>1, <2>2, <3>1, AppendProperties, LenProperties
  <2>4. ASSUME NEW c \in Characters, mover'[c] # NoTarget
        PROVE  PlaceKnown(c)'
    <3>1. PlaceKnown(c) /\ players'[mover'[c]].pos = players[mover[c]].pos
      BY <1>2, <2>4 DEF PlacesOK
    <3>2. CASE IsSave(e, c)
      <4>1. e.pos = players[mover[c]].pos
        BY <1>1, <1>2, <3>1, <3>2 DEF PlaceKnown, Leaving
      <4>2. n + 1 \in InChannel(c)'
        BY <2>3, <3>2 DEF InChannel
      <4>3. ASSUME NEW i \in InChannel(c)', \A j \in InChannel(c)' : j <= i
            PROVE  i = n + 1
        BY <2>3, <4>2, <4>3 DEF InChannel
      <4> QED
        BY <1>4, <2>3, <3>1, <4>1, <4>2, <4>3 DEF PlaceKnown
    <3>3. CASE ~IsSave(e, c)
      <4>1. InChannel(c)' = InChannel(c)
        BY <2>3, <3>3 DEF InChannel, IsSave
      <4>2. \A i \in InChannel(c) : persist'[i] = persist[i]
        BY <2>3 DEF InChannel
      <4>3. ~Leaving(c)
        BY <1>1, <3>3 DEF Leaving
      <4> QED
        BY <1>2, <1>4, <3>1, <4>1, <4>2, <4>3 DEF PlaceKnown
    <3> QED
      BY <3>2, <3>3
  <2> QED
    BY <1>3, <2>4 DEF PlacesOK
<1> QED
  BY <1>5, <1>6

LEMMA PersistPlaces ==
  ASSUME TypeOK, MoverOK, PlacesOK, NEW ok \in BOOLEAN, PersistWorker(ok)
  PROVE  MoverOK' /\ PlacesOK'
<1>1. PICK n \in Nat : n = Len(persist)
  BY LenProperties DEF TypeOK
<1>2. PICK op \in PersistOps : op = Head(persist)
  BY HeadTailProperties DEF TypeOK, PersistWorker
<1>3. /\ persist \in Seq(PersistOps)
      /\ persist # <<>>
      /\ persist' = Tail(persist)
      /\ UNCHANGED <<players, mover, sending>>
      /\ Apply(op, ok)
  BY <1>2 DEF PersistWorker, TypeOK
<1>4. MoverOK'
  BY <1>3 DEF MoverOK, On
<1>5. /\ n >= 1
      /\ DOMAIN persist = 1..n
      /\ DOMAIN persist' = 1..(n - 1)
      /\ \A i \in 1..(n - 1) : persist'[i] = persist[i + 1]
      /\ persist[1] = op
  <2>1. /\ n >= 1
        /\ DOMAIN persist = 1..n
        /\ persist[1] = op
    BY <1>1, <1>2, <1>3, EmptySeq, LenProperties
  <2>2. /\ persist' \in Seq(PersistOps)
        /\ Len(persist') = n - 1
        /\ \A i \in 1..Len(persist') : persist'[i] = persist[i + 1]
    BY <1>1, <1>3, HeadTailProperties
  <2> QED
    BY <2>1, <2>2, LenProperties
<1>6. ASSUME NEW c \in Characters, mover'[c] # NoTarget
      PROVE  PlaceKnown(c)'
  <2>1. PICK place : place = players[mover[c]].pos
    OBVIOUS
  <2>2. PlaceKnown(c) /\ place = players'[mover'[c]].pos
    BY <1>3, <1>6, <2>1 DEF PlacesOK
  <2>3. Leaving(c)' <=> Leaving(c)
    BY <1>3 DEF Leaving, IsSave
  <2>4. CASE Leaving(c)
    BY <1>3, <2>1, <2>2, <2>3, <2>4 DEF PlaceKnown
  <2>5. CASE ~Leaving(c)
    <3>1. \A i \in InChannel(c)' : i \in 1..(n - 1) /\ i + 1 \in InChannel(c)
      BY <1>5 DEF InChannel, IsSave
    <3>2. \A i \in InChannel(c) : i = 1 \/ i - 1 \in InChannel(c)'
      BY <1>5 DEF InChannel, IsSave
    <3>3. ASSUME NEW i \in InChannel(c)', \A j \in InChannel(c)' : j <= i
          PROVE  persist'[i].pos = place
      <4>1. \A j \in InChannel(c) : j <= i + 1
        BY <1>5, <3>1, <3>2, <3>3 DEF InChannel
      <4>2. persist[i + 1].pos = place
        BY <2>1, <2>2, <2>5, <3>1, <3>3, <4>1 DEF PlaceKnown
      <4> QED
        BY <1>5, <3>1, <3>3, <4>2
    <3>4. ASSUME InChannel(c)' = {}, c \notin lost'
          PROVE  saved'[c] = place
      <4>1. \A i \in InChannel(c) : i = 1
        BY <3>2, <3>4
      <4>2. CASE IsSave(op, c)
        <5>1. 1 \in InChannel(c)
          BY <1>5, <4>2 DEF InChannel
        <5>2. op.pos = place
          BY <1>5, <2>1, <2>2, <2>5, <4>1, <5>1 DEF PlaceKnown
        <5>3. saved'[c] = op.pos
          BY <1>3, <3>4, <4>2 DEF Apply, IsSave, TypeOK
        <5> QED
          BY <5>2, <5>3
      <4>3. CASE ~IsSave(op, c)
        <5>1. InChannel(c) = {}
          BY <1>5, <4>1, <4>3 DEF InChannel
        <5>2. c \notin lost /\ saved'[c] = saved[c]
          BY <1>3, <3>4, <4>3 DEF Apply, IsSave, TypeOK
        <5> QED
          BY <2>1, <2>2, <2>5, <5>1, <5>2 DEF PlaceKnown
      <4> QED
        BY <4>2, <4>3
    <3> QED
      BY <2>2, <2>3, <2>5, <3>3, <3>4 DEF PlaceKnown
  <2> QED
    BY <2>4, <2>5
<1> QED
  BY <1>4, <1>6 DEF PlacesOK

\* What is said of the two queues apart holds of one behind the other.
LEMMA PlacesSaved ==
  ASSUME TypeOK, LoopOK, PlacesOK
  PROVE  PositionsSaved
<1>1. SUFFICES ASSUME NEW c \in Characters \ lost, mover[c] # NoTarget
               PROVE  LET place == players[mover[c]].pos IN
                        /\ Saves(c) = {} => saved[c] = place
                        /\ \A i \in Saves(c) :
                             (\A j \in Saves(c) : j <= i) => Operations[i].pos = place
  BY DEF PositionsSaved
<1>2. PICK place : place = players[mover[c]].pos
  OBVIOUS
<1>3. PICK n \in Nat, k \in Nat : n = Len(persist) /\ k = Len(sending)
  BY LenProperties DEF TypeOK
<1>4. /\ persist \in Seq(Emissions)
      /\ sending \in Seq(Emissions)
  <2>1. persist \in Seq(PersistOps) /\ PersistOps \subseteq Emissions
    BY DEF TypeOK, Emissions
  <2> QED
    BY <2>1, SeqMonotonic DEF TypeOK, Emissions
<1>5. /\ DOMAIN Operations = 1..(n + k)
      /\ DOMAIN persist = 1..n
      /\ \A i \in 1..n : Operations[i] = persist[i]
      /\ \A i \in (n + 1)..(n + k) : Operations[i] = sending[i - n]
  <2>1. /\ Operations \in Seq(Emissions)
        /\ Len(Operations) = n + k
        /\ \A i \in 1..(n + k) : Operations[i] = IF i <= n THEN persist[i] ELSE sending[i - n]
    BY <1>3, <1>4, ConcatProperties DEF Operations
  <2>2. DOMAIN Operations = 1..(n + k) /\ DOMAIN persist = 1..n
    BY <1>3, <1>4, <2>1, LenProperties
  <2> QED
    BY <2>1, <2>2
<1>6. \A i \in (n + 2)..(n + k) : i \notin Saves(c)
  <2>1. \A i \in 2..k : sending[i].kind # "position"
    BY <1>3 DEF LoopOK, Plain
  <2> QED
    BY <1>5, <2>1 DEF Saves
<1>7. \A i \in 1..n : i \in Saves(c) <=> i \in InChannel(c)
  BY <1>5 DEF Saves, InChannel, IsSave
<1>8. n + 1 \in Saves(c) <=> Leaving(c)
  <2>1. CASE sending = <<>>
    <3>1. k = 0
      BY <1>3, <2>1
    <3> QED
      BY <1>5, <2>1, <3>1 DEF Leaving, Saves
  <2>2. CASE sending # <<>>
    <3>1. k >= 1 /\ Head(sending) = sending[1]
      BY <1>3, <1>4, <2>2, EmptySeq
    <3>2. n + 1 \in DOMAIN Operations /\ Operations[n + 1] = Head(sending)
      BY <1>5, <3>1
    <3> QED
      BY <2>2, <3>2 DEF Leaving, Saves, IsSave
  <2> QED
    BY <2>1, <2>2
<1>9. \A i \in Saves(c) : i \in 1..n \/ i = n + 1
  BY <1>5, <1>6 DEF Saves
<1>10. PlaceKnown(c)
  BY <1>1 DEF PlacesOK
<1>11. CASE Leaving(c)
  <2>1. Operations[n + 1].pos = place
    <3>1. sending # <<>> /\ Head(sending).pos = place
      BY <1>2, <1>10, <1>11 DEF PlaceKnown, Leaving
    <3>2. k >= 1 /\ Head(sending) = sending[1]
      BY <1>3, <1>4, <3>1, EmptySeq
    <3> QED
      BY <1>5, <3>1, <3>2
  <2>2. ASSUME NEW i \in Saves(c), \A j \in Saves(c) : j <= i
        PROVE  i = n + 1
    BY <1>8, <1>9, <1>11, <2>2
  <2> QED
    BY <1>2, <1>8, <1>11, <2>1, <2>2
<1>12. CASE ~Leaving(c)
  <2>1. Saves(c) = InChannel(c)
    BY <1>5, <1>7, <1>8, <1>9, <1>12 DEF InChannel
  <2>2. \A i \in InChannel(c) : Operations[i] = persist[i]
    BY <1>5 DEF InChannel
  <2> QED
    BY <1>1, <1>2, <1>10, <1>12, <2>1, <2>2 DEF PlaceKnown
<1> QED
  BY <1>11, <1>12

-----------------------------------------------------------------------------
\* Scheduled events.

\* Only the very next tick has events.
EventsOK ==
  \A t \in 0..(TickPeriod - 1) : scheduled[t] > 0 => t = (tick + 1) % TickPeriod

LEMMA TickEvents ==
  ASSUME TypeOK, EventsOK, Tick
  PROVE  EventsOK'
<1>1. PICK next \in 0..(TickPeriod - 1) : next = (tick + 1) % TickPeriod
  BY NextTick
<1>2. scheduled' = [scheduled EXCEPT ![next] = 0] /\ tick' = next
  BY <1>1 DEF Tick
<1>3. ASSUME NEW t \in 0..(TickPeriod - 1)
      PROVE  ~(scheduled'[t] > 0)
  <2>1. CASE t = next
    <3>1. scheduled'[t] = 0
      BY <1>2, <2>1 DEF TypeOK
    <3> QED
      BY <3>1
  <2>2. CASE t # next
    BY <1>1, <1>2, <2>2 DEF EventsOK, TypeOK
  <2> QED
    BY <2>1, <2>2
<1> QED
  BY <1>3 DEF EventsOK

LEMMA NpcEvents ==
  ASSUME TypeOK, EventsOK, NpcInteraction
  PROVE  EventsOK'
<1>1. PICK next \in 0..(TickPeriod - 1) : next = (tick + 1) % TickPeriod
  BY NextTick
<1>2. tick' = tick /\ scheduled' = [scheduled EXCEPT ![next] = scheduled[next] + 1]
  BY <1>1 DEF NpcInteraction, Handling
<1>3. \A t \in 0..(TickPeriod - 1) : t # next => ~(scheduled'[t] > 0)
  BY <1>1, <1>2 DEF EventsOK, TypeOK
<1> QED
  BY <1>1, <1>2, <1>3 DEF EventsOK

-----------------------------------------------------------------------------
\* Every step keeps the invariant.

MapInv ==
  /\ TypeOK /\ LoopOK
  /\ EventsOK
  /\ DamageReported
  /\ MoverOK /\ PlacesOK

\* A step that neither moves nor hurts anybody.
Harmless ==
  /\ UNCHANGED <<persist, saved, lost, mover, reported>>
  /\ sending' = sending \/ (Mute(sending) /\ Mute(sending'))
  /\ \A s \in Sessions :
       /\ On(s)' <=> On(s)
       /\ On(s) => /\ players'[s].character = players[s].character
                   /\ players'[s].pos = players[s].pos
                   /\ players'[s].hp = players[s].hp

LEMMA HarmlessKeeps ==
  ASSUME MapInv, Harmless
  PROVE  DamageReported' /\ MoverOK' /\ PlacesOK'
<1>1. DamageReported'
  BY HealthKept DEF MapInv, Harmless
<1>2. ASSUME NEW c \in Characters, mover'[c] # NoTarget
      PROVE  /\ mover'[c] = mover[c]
             /\ On(mover[c]) => /\ players'[mover[c]].on
                                /\ players'[mover[c]].character = players[mover[c]].character
                                /\ players'[mover[c]].pos = players[mover[c]].pos
  <2>1. mover'[c] = mover[c] /\ mover[c] \in Sessions
    BY <1>2 DEF Harmless, MapInv, TypeOK
  <2> QED
    BY <2>1 DEF Harmless, On
<1>3. UNCHANGED <<persist, saved, lost>> /\ TypeOK /\ MoverOK /\ PlacesOK
  BY DEF Harmless, MapInv
<1>4. sending' = sending \/ (Mute(sending) /\ Mute(sending'))
  BY DEF Harmless
<1> QED
  BY <1>1, <1>2, <1>3, <1>4, PlacesKept

LEMMA MuteRepeat ==
  ASSUME NEW e \in {Text, SaveInventoryChange}, NEW n \in Nat
  PROVE  Mute(Repeat(e, n))
<1>1. /\ e \in Emissions
      /\ e.kind \notin {"hit", "position"}
  BY Kinds
<1>2. /\ Repeat(e, n) \in Seq(Emissions)
      /\ \A i \in 1..Len(Repeat(e, n)) : Repeat(e, n)[i] = e
  BY <1>1, EmitsRepeat DEF Emits
<1>3. Repeat(e, n) # <<>> => Len(Repeat(e, n)) \in Nat \ {0}
  BY <1>2, EmptySeq
<1> QED
  BY <1>1, <1>2, <1>3 DEF Mute

LEMMA MuteText == Mute(<<Text>>) /\ Mute(<<>>)
BY Kinds DEF Mute

LEMMA InputKeeps ==
  ASSUME MapInv, Input
  PROVE  MapInv'
<1>0. TypeOK /\ LoopOK /\ EventsOK /\ DamageReported /\ MoverOK /\ PlacesOK
  BY DEF MapInv
<1>1. Base'
  BY <1>0, EnterType, MoveType, SayType, AttackType, CastSkillType, ItemType, NpcType,
     LogoutType DEF Input
<1>2. EventsOK'
  <2>1. CASE NpcInteraction
    BY <1>0, <2>1, NpcEvents
  <2>2. CASE ~NpcInteraction
    <3>1. UNCHANGED <<scheduled, tick>>
      BY <2>2 DEF Input, EnterWorld, Move, Say, Attack, CastSkill, ItemCommand, Logout,
                  Handling, queued
    <3> QED
      BY <1>0, <3>1 DEF EventsOK
  <2> QED
    BY <2>1, <2>2
<1>3. CASE EnterWorld
  <2>1. Handling("enter") /\ sending' = sending /\ Sender \in Sessions
    BY <1>0, <1>3, HandlingCommand DEF EnterWorld
  <2>2. sending = <<>>
    BY <2>1 DEF Handling
  <2>3. DamageReported'
    <3>1. CASE On(Sender)
      <4>1. PICK c : players' = [players EXCEPT ![Sender] =
                                   [players[Sender] EXCEPT !.character = c]]
        BY <1>3, <3>1 DEF EnterWorld
      <4>2. players[Sender] \in Player
        BY <1>0, <2>1, <3>1, PlayerOn
      <4>3. \A s \in Sessions : On(s)' => On(s) /\ players'[s].hp = players[s].hp
        BY <1>0, <2>1, <3>1, <4>1, <4>2 DEF TypeOK, Player, On
      <4>4. reported' = reported
        BY <1>3, <3>1 DEF EnterWorld
      <4> QED
        BY <1>0, <2>1, <4>3, <4>4, HealthKept
    <3>2. CASE ~On(Sender)
      <4>1. /\ players'[Sender].hp = StartHp
            /\ reported'[Sender] = 0
            /\ \A s \in Sessions \ {Sender} : /\ players'[s] = players[s]
                                              /\ reported'[s] = reported[s]
        BY <1>0, <1>3, <2>1, <3>2 DEF EnterWorld, TypeOK
      <4>2. \A s \in Sessions : Owed(s) = 0 /\ Owed(s)' = 0
        BY <2>1, <2>2 DEF Owed
      <4>3. Hurt(StartHp, 0 + 0) = StartHp
        BY Capacities DEF Hurt
      <4> QED
        BY <1>0, <4>1, <4>2, <4>3 DEF DamageReported, On
    <3> QED
      BY <3>1, <3>2
  <2> QED
    BY <1>0, <1>1, <1>2, <1>3, <2>3, EnterPlaces DEF MapInv, Base
<1>4. CASE Move
  <2>1. Handling("move") /\ sending = <<>> /\ Sender \in Sessions /\ reported' = reported
    BY <1>0, <1>4, HandlingCommand DEF Move
  <2>2. DamageReported'
    <3>1. CASE ~On(Sender)
      BY <1>0, <1>4, <2>1, <3>1, HealthKept DEF Move, On
    <3>2. CASE On(Sender)
      <4>1. players' = [players EXCEPT ![Sender] =
                          [players[Sender] EXCEPT !.pos = Command.pos]]
        BY <1>4, <3>2 DEF Move
      <4>2. players[Sender] \in Player
        BY <1>0, <2>1, <3>2, PlayerOn
      <4>3. \A s \in Sessions : On(s)' => On(s) /\ players'[s].hp = players[s].hp
        BY <1>0, <2>1, <3>2, <4>1, <4>2 DEF TypeOK, Player, On
      <4>4. players[Sender].character \in Identities /\ Command.pos \in Positions
        BY <1>0, <2>1, <4>2, PlayerFields, HandlingCommand DEF AllCommands, CastCommands
      <4>5. \A s \in Sessions : Owed(s) = 0 /\ Owed(s)' = 0
        <5>1. /\ sending' # <<>>
              /\ Head(sending').kind = "position"
          BY <1>4, <3>2, <4>4, Kinds, EmitsOne DEF Move
        <5> QED
          BY <2>1, <5>1 DEF Owed
      <4> QED
        BY <1>0, <2>1, <4>3, <4>5 DEF DamageReported
    <3> QED
      BY <3>1, <3>2
  <2> QED
    BY <1>0, <1>1, <1>2, <1>4, <2>2, MovePlaces DEF MapInv, Base
<1>5. CASE Logout
  <2>1. Handling("logout") /\ sending' = sending /\ Sender \in Sessions
        /\ reported' = reported /\ players' = [players EXCEPT ![Sender] = Absent]
    BY <1>0, <1>5, HandlingCommand DEF Logout
  <2>2. \A s \in Sessions : On(s)' => On(s) /\ players'[s].hp = players[s].hp
    BY <1>0, <2>1 DEF TypeOK, On, Absent
  <2>3. DamageReported'
    BY <1>0, <2>1, <2>2, HealthKept
  <2> QED
    BY <1>0, <1>1, <1>2, <1>5, <2>3, LogoutPlaces DEF MapInv, Base
<1>6. CASE Say \/ Attack \/ CastSkill \/ ItemCommand \/ NpcInteraction
  <2>1. /\ UNCHANGED <<players, persist, saved, lost, mover, reported>>
        /\ sending = <<>>
        /\ sending' = sending \/ sending' = <<Text>>
    BY <1>6 DEF Say, Attack, CastSkill, ItemCommand, NpcInteraction, Handling, channels
  <2>2. Harmless
    BY <2>1, MuteText DEF Harmless, On
  <2> QED
    BY <1>1, <1>2, <2>2, HarmlessKeeps DEF MapInv, Base
<1> QED
  BY <1>3, <1>4, <1>5, <1>6 DEF Input

\* Blows and skills.
LEMMA HurtKeeps ==
  ASSUME MapInv, sending = <<>>, Base', NEW d \in Sessions, On(d), NEW n \in Nat,
         players' = [players EXCEPT ![d] =
           [players[d] EXCEPT !.hp = Hurt(players[d].hp, n)]],
         sending' # <<>>, Head(sending') = Hit(d, n),
         UNCHANGED <<persist, saved, lost, mover, reported, scheduled, tick>>
  PROVE  MapInv'
<1>0. TypeOK /\ LoopOK /\ EventsOK /\ DamageReported /\ MoverOK /\ PlacesOK
  BY DEF MapInv
<1>1. DamageReported'
  BY <1>0, BlowReported
<1>2. EventsOK'
  BY <1>0 DEF EventsOK
<1>3. players[d] \in Player
  BY <1>0, PlayerOn
<1>4. \A s \in Sessions :
        On(s) => /\ players'[s].on
                 /\ players'[s].character = players[s].character
                 /\ players'[s].pos = players[s].pos
  BY <1>0, <1>3 DEF TypeOK, Player, On
<1>5. \A c \in Characters : ~Leaving(c) /\ ~Leaving(c)'
  BY Kinds DEF Leaving, IsSave
<1>6. \A c \in Characters : mover[c] # NoTarget => mover[c] \in Sessions
  BY <1>0 DEF TypeOK
<1>7. MoverOK'
  BY <1>0, <1>4, <1>6 DEF MoverOK, On
<1>8. \A c \in Characters : InChannel(c)' = InChannel(c)
  BY DEF InChannel
<1>9. ASSUME NEW c \in Characters, mover'[c] # NoTarget
      PROVE  PlaceKnown(c)'
  <2>1. /\ PlaceKnown(c)
        /\ mover'[c] = mover[c]
        /\ players'[mover[c]].pos = players[mover[c]].pos
    BY <1>0, <1>4, <1>6, <1>9 DEF PlacesOK, MoverOK
  <2> QED
    BY <1>5, <1>8, <2>1 DEF PlaceKnown
<1> QED
  BY <1>1, <1>2, <1>7, <1>9 DEF MapInv, Base, PlacesOK

LEMMA StrikeKeeps ==
  ASSUME MapInv, Strike
  PROVE  MapInv'
<1>0. TypeOK /\ LoopOK /\ EventsOK
  BY DEF MapInv
<1>1. PICK a : a = Head(attacks)
  OBVIOUS
<1>2. PICK n : n = 5 + (tick % 4)
  OBVIOUS
<1>3. /\ Base'
      /\ sending = <<>>
      /\ attacks # <<>>
      /\ UNCHANGED <<persist, saved, lost, mover, reported, scheduled, tick>>
  BY <1>0, StrikeType DEF Strike, Resolving, channels, history
<1>4. CASE On(a.attacker) /\ On(a.defender)
  <2>1. /\ players' = [players EXCEPT ![a.defender] =
                         [players[a.defender] EXCEPT !.hp = Hurt(players[a.defender].hp, n)]]
        /\ sending' = Outcome(a.defender, n, Hurt(players[a.defender].hp, n))
    BY <1>1, <1>2, <1>4 DEF Strike
  <2>2. a.defender \in Sessions /\ n \in Nat
    BY <1>0, <1>1, <1>2, <1>3, Blow
  <2>3. sending' # <<>> /\ Head(sending') = Hit(a.defender, n)
    BY <2>1, <2>2, EmitsOutcome
  <2> QED
    BY <1>3, <1>4, <2>1, <2>2, <2>3, HurtKeeps
<1>5. CASE ~(On(a.attacker) /\ On(a.defender))
  <2>1. UNCHANGED <<players, sending>>
    BY <1>1, <1>5 DEF Strike
  <2>2. Harmless
    BY <1>3, <2>1 DEF Harmless, On
  <2>3. EventsOK'
    BY <1>0, <1>3 DEF EventsOK
  <2> QED
    BY <1>3, <2>2, <2>3, HarmlessKeeps DEF MapInv, Base
<1> QED
  BY <1>4, <1>5

LEMMA PayKeeps ==
  ASSUME MapInv, Pay
  PROVE  MapInv'
<1>0. TypeOK /\ LoopOK /\ EventsOK
  BY DEF MapInv
<1>1. PICK s \in Sessions : s = Head(casts).session
  <2>1. Head(casts) \in CastCommands
    BY <1>0, HeadTailProperties DEF TypeOK, Pay, Resolving
  <2> QED
    BY <2>1 DEF CastCommands
<1>2. /\ Base'
      /\ sending = <<>>
      /\ UNCHANGED <<persist, saved, lost, mover, reported, scheduled, tick>>
  BY <1>0, PayType DEF Pay, Resolving, channels, history
<1>3. /\ sending' = sending \/ sending' = <<Text>>
      /\ \/ players' = players
         \/ /\ On(s)
            /\ players' = [players EXCEPT ![s] =
                 [players[s] EXCEPT !.mp = players[s].mp - SkillCost]]
  BY <1>1 DEF Pay
<1>4. On(s) => players[s] \in Player
  BY <1>0, PlayerOn
<1>5. Harmless
  <2>1. ASSUME NEW x \in Sessions
        PROVE  /\ On(x)' <=> On(x)
               /\ On(x) => /\ players'[x].character = players[x].character
                           /\ players'[x].pos = players[x].pos
                           /\ players'[x].hp = players[x].hp
    <3>1. CASE players' = players
      BY <3>1 DEF On
    <3>2. CASE players' # players
      <4>1. PICK m : players' = [players EXCEPT ![s] = [players[s] EXCEPT !.mp = m]]
        BY <1>3, <3>2
      <4>2. players[s] \in Player /\ players \in [Sessions -> Player \cup {Absent}]
        BY <1>0, <1>3, <1>4, <3>2 DEF TypeOK
      <4>3. CASE x = s
        <5>1. players'[x] = [players[x] EXCEPT !.mp = m]
          BY <4>1, <4>2, <4>3
        <5> QED
          BY <4>2, <4>3, <5>1 DEF On, Player
      <4>4. CASE x # s
        BY <4>1, <4>2, <4>4 DEF On
      <4> QED
        BY <4>3, <4>4
    <3> QED
      BY <3>1, <3>2
  <2> QED
    BY <1>2, <1>3, <2>1, MuteText DEF Harmless
<1>6. EventsOK'
  BY <1>0, <1>2 DEF EventsOK
<1> QED
  BY <1>2, <1>5, <1>6, HarmlessKeeps DEF MapInv, Base

LEMMA CastKeeps ==
  ASSUME MapInv, Cast
  PROVE  MapInv'
<1>0. TypeOK /\ LoopOK /\ EventsOK
  BY DEF MapInv
<1>1. PICK cast : cast = Head(paid)
  OBVIOUS
<1>2. /\ Base'
      /\ sending = <<>>
      /\ paid # <<>>
      /\ UNCHANGED <<persist, saved, lost, mover, reported, scheduled, tick>>
  BY <1>0, CastType DEF Cast, Resolving, channels, history
<1>3. CASE cast.target # NoTarget /\ On(cast.target)
  <2>1. /\ players' = [players EXCEPT ![cast.target] =
                         [players[cast.target] EXCEPT
                            !.hp = Hurt(players[cast.target].hp, cast.damage)]]
        /\ sending' = <<Hit(cast.target, cast.damage), SaveCombatLog>>
    BY <1>1, <1>3 DEF Cast
  <2>2. cast.target \in Sessions /\ cast.damage \in Nat
    BY <1>0, <1>1, <1>2, <1>3, Skill
  <2>3. sending' # <<>> /\ Head(sending') = Hit(cast.target, cast.damage)
    BY <2>1
  <2> QED
    BY <1>2, <1>3, <2>1, <2>2, <2>3, HurtKeeps
<1>4. CASE ~(cast.target # NoTarget /\ On(cast.target))
  <2>1. players' = players /\ (sending' = sending \/ sending' = <<Text>>)
    BY <1>1, <1>4 DEF Cast
  <2>2. Harmless
    BY <1>2, <2>1, MuteText DEF Harmless, On
  <2>3. EventsOK'
    BY <1>0, <1>2 DEF EventsOK
  <2> QED
    BY <1>2, <2>2, <2>3, HarmlessKeeps DEF MapInv, Base
<1> QED
  BY <1>3, <1>4

\* The systems without a queue, and the ends of those that have one.
LEMMA SystemKeeps ==
  ASSUME MapInv, Movement \/ Resolved \/ Ai \/ Aoi \/ Inventory
  PROVE  MapInv'
<1>0. TypeOK /\ LoopOK /\ EventsOK
  BY DEF MapInv
<1>1. Base'
  BY <1>0, MovementType, ResolvedType, AiType, AoiType, InventoryType
<1>2. /\ UNCHANGED <<players, persist, saved, lost, mover, reported, scheduled, tick>>
      /\ sending = <<>>
  BY DEF Movement, Resolved, Ai, Aoi, Inventory, System, queued, channels, history
<1>3. Mute(sending')
  BY <1>0, <1>2, PopulationType, MuteRepeat, MuteText
     DEF Movement, Resolved, Ai, Aoi, Inventory, TypeOK
<1>4. Harmless
  BY <1>2, <1>3, MuteText DEF Harmless, On
<1>5. EventsOK'
  BY <1>0, <1>2 DEF EventsOK
<1> QED
  BY <1>1, <1>4, <1>5, HarmlessKeeps DEF MapInv, Base

LEMMA TickKeeps ==
  ASSUME MapInv, Tick
  PROVE  MapInv'
<1>0. TypeOK /\ LoopOK /\ EventsOK
  BY DEF MapInv
<1>1. /\ UNCHANGED <<players, persist, saved, lost, mover, reported>>
      /\ sending = <<>>
      /\ sending' = Repeat(Text, scheduled[(tick + 1) % TickPeriod])
  BY DEF Tick, history
<1>2. scheduled[(tick + 1) % TickPeriod] \in Nat
  BY <1>0, NextTick DEF TypeOK
<1>3. Harmless
  BY <1>1, <1>2, MuteRepeat, MuteText DEF Harmless, On
<1> QED
  BY <1>0, <1>3, TickType, TickEvents, HarmlessKeeps DEF MapInv, Base

LEMMA ChannelKeeps ==
  ASSUME MapInv, (\E cmd \in Commands : Deliver(cmd)) \/ OutboundWorker
  PROVE  MapInv'
<1>0. TypeOK /\ LoopOK /\ EventsOK
  BY DEF MapInv
<1>1. Base'
  BY <1>0, DeliverType, OutboundType
<1>2. UNCHANGED <<players, persist, saved, lost, mover, reported, scheduled, tick, sending>>
  BY DEF Deliver, OutboundWorker, queued, history
<1>3. Harmless
  BY <1>2 DEF Harmless, On
<1>4. EventsOK'
  BY <1>0, <1>2 DEF EventsOK
<1> QED
  BY <1>1, <1>3, <1>4, HarmlessKeeps DEF MapInv, Base

LEMMA FlushKeeps ==
  ASSUME MapInv, Flush
  PROVE  MapInv'
<1>0. TypeOK /\ LoopOK /\ EventsOK /\ DamageReported /\ MoverOK /\ PlacesOK
  BY DEF MapInv
<1>1. EventsOK'
  BY <1>0 DEF EventsOK, Flush, queued
<1> QED
  BY <1>0, <1>1, FlushType, FlushHealth, FlushPlaces DEF MapInv, Base

LEMMA PersistKeeps ==
  ASSUME MapInv, NEW ok \in BOOLEAN, PersistWorker(ok)
  PROVE  MapInv'
<1>0. TypeOK /\ LoopOK /\ EventsOK /\ DamageReported /\ MoverOK /\ PlacesOK
  BY DEF MapInv
<1>1. UNCHANGED <<players, reported, scheduled, tick, sending>>
  BY DEF PersistWorker, queued
<1>2. EventsOK' /\ DamageReported'
  BY <1>0, <1>1, HealthKept DEF EventsOK, On
<1> QED
  BY <1>0, <1>2, PersistType, PersistPlaces DEF MapInv, Base

LEMMA StepKeeps ==
  ASSUME MapInv, [Next]_vars
  PROVE  MapInv'
<1>1. CASE UNCHANGED vars
  <2>1. UNCHANGED <<rx, pending, phase, tick, players, attacks, casts, paid, items,
                    scheduled, sending, outbound, persist, saved, mover, lost, reported>>
    BY <1>1 DEF vars
  <2>2. Base' /\ EventsOK'
    BY <2>1 DEF MapInv, Base, TypeOK, LoopOK, EventsOK
  <2>3. Harmless
    BY <2>1 DEF Harmless, On
  <2> QED
    BY <2>2, <2>3, HarmlessKeeps DEF MapInv, Base
<1>2. ASSUME NEW cmd \in Commands, Deliver(cmd)
      PROVE  MapInv'
  BY <1>2, ChannelKeeps
<1>3. CASE MapTask
  BY <1>3, TickKeeps, InputKeeps, SystemKeeps, StrikeKeeps, PayKeeps, CastKeeps, FlushKeeps
     DEF MapTask
<1>4. CASE OutboundWorker
  BY <1>4, ChannelKeeps
<1>5. ASSUME NEW ok \in BOOLEAN, PersistWorker(ok)
      PROVE  MapInv'
  BY <1>5, PersistKeeps
<1> QED
  BY <1>1, <1>2, <1>3, <1>4, <1>5 DEF Next

LEMMA InitKeeps ==
  ASSUME Init
  PROVE  MapInv
<1>1. 0 \in 0..(TickPeriod - 1) /\ 0 \in 0..StartHp
  BY Periods, Capacities
<1>2. /\ \A S : <<>> \in Seq(S)
      /\ Len(<<>>) = 0 /\ DOMAIN <<>> = {}
  BY EmptySeq
<1>3. TypeOK
  <2>1. /\ rx \in Seq(AllCommands) /\ Len(rx) <= RxCapacity
        /\ pending \in Seq(AllCommands) /\ Len(pending) <= Budget
        /\ sending \in Seq(Events \cup PersistOps)
        /\ persist \in Seq(PersistOps) /\ Len(persist) <= PersistCapacity
        /\ outbound \in 0..OutboundCapacity
    BY <1>2, Capacities DEF Init
  <2>2. /\ attacks \in Seq([attacker : Sessions, defender : Sessions])
        /\ {casts, paid} \subseteq Seq(CastCommands)
        /\ players \in [Sessions -> Player \cup {Absent}]
        /\ saved \in [Characters -> Positions]
        /\ mover \in [Characters -> Sessions \cup {NoTarget}]
        /\ lost \subseteq Characters
        /\ reported \in [Sessions -> 0..StartHp]
    BY <1>1, <1>2, Inputs DEF Init
  <2>3. /\ phase \in {"wait", "input", "combat", "skills", "effects", "ai", "aoi", "inventory"}
        /\ tick \in 0..(TickPeriod - 1)
        /\ items \in Nat
        /\ scheduled \in [0..(TickPeriod - 1) -> Nat]
    BY <1>1 DEF Init
  <2> QED
    BY <2>1, <2>2, <2>3 DEF TypeOK
<1>4. LoopOK
  BY <1>2 DEF Init, LoopOK, Plain
<1>5. EventsOK
  BY DEF Init, EventsOK
<1>6. DamageReported
  BY DEF Init, DamageReported, On, Absent
<1>7. MoverOK /\ PlacesOK
  BY DEF Init, MoverOK, PlacesOK
<1> QED
  BY <1>3, <1>4, <1>5, <1>6, <1>7 DEF MapInv

-----------------------------------------------------------------------------
\* Nothing heals.

LEMMA OnlyWorse ==
  ASSUME TypeOK, NEW d \in Sessions, On(d), NEW p \in Player,
         p.hp <= players[d].hp, p.mp <= players[d].mp,
         players' = [players EXCEPT ![d] = p],
         NEW s \in Sessions, On(s)
  PROVE  players'[s].hp <= players[s].hp /\ players'[s].mp <= players[s].mp
<1>1. players[s] \in Player
  BY PlayerOn
<1>2. players[s].hp \in Nat /\ players[s].mp \in Nat
  BY <1>1, PlayerFields
<1>3. players'[s] = IF s = d THEN p ELSE players[s]
  BY DEF TypeOK
<1> QED
  BY <1>2, <1>3

LEMMA NobodyHeals ==
  ASSUME MapInv, [Next]_vars, NEW s \in Sessions, On(s), On(s)'
  PROVE  players'[s].hp <= players[s].hp /\ players'[s].mp <= players[s].mp
<1>0. TypeOK /\ LoopOK
  BY DEF MapInv
<1>1. players[s].hp \in Nat /\ players[s].mp \in Nat
  BY <1>0, PlayerOn, PlayerFields
<1>2. CASE players' = players
  BY <1>1, <1>2
<1>3. CASE EnterWorld /\ players' # players
  <2>1. Sender \in Sessions /\ Command \in AllCommands /\ Command.kind = "enter"
    BY <1>0, <1>3, HandlingCommand DEF EnterWorld
  <2>2. PICK c : c = IF Command.character = NoCharacter THEN Sender ELSE Command.character
    OBVIOUS
  <2>3. c \in Identities
    BY <2>1, <2>2 DEF AllCommands, CastCommands, Identities
  <2>4. CASE On(Sender)
    <3>1. PICK p : p = [players[Sender] EXCEPT !.character = c]
      OBVIOUS
    <3>2. players' = [players EXCEPT ![Sender] = p]
      BY <1>3, <2>2, <2>4, <3>1 DEF EnterWorld
    <3>3. players[Sender] \in Player
      BY <1>0, <2>1, <2>4, PlayerOn
    <3>4. p \in Player /\ p.hp = players[Sender].hp /\ p.mp = players[Sender].mp
      BY <2>3, <3>1, <3>3, PlayerFields DEF Player
    <3>5. p.hp <= players[Sender].hp /\ p.mp <= players[Sender].mp
      BY <3>3, <3>4, PlayerFields
    <3> QED
      BY <1>0, <2>1, <2>4, <3>2, <3>4, <3>5, OnlyWorse
  <2>5. CASE ~On(Sender)
    <3>1. s # Sender
      BY <2>5
    <3>2. players'[s] = players[s]
      BY <1>0, <1>3, <2>1, <2>5, <3>1 DEF EnterWorld, TypeOK
    <3> QED
      BY <1>1, <3>2
  <2> QED
    BY <2>4, <2>5
<1>4. CASE Move /\ players' # players
  <2>1. /\ Sender \in Sessions /\ On(Sender)
        /\ Command \in AllCommands /\ Command.kind = "move"
    BY <1>0, <1>4, HandlingCommand DEF Move
  <2>2. PICK p : p = [players[Sender] EXCEPT !.pos = Command.pos]
    OBVIOUS
  <2>3. players' = [players EXCEPT ![Sender] = p]
    BY <1>4, <2>1, <2>2 DEF Move
  <2>4. players[Sender] \in Player /\ Command.pos \in Positions
    BY <1>0, <2>1, PlayerOn DEF AllCommands, CastCommands
  <2>5. p \in Player /\ p.hp = players[Sender].hp /\ p.mp = players[Sender].mp
    BY <2>2, <2>4, PlayerFields DEF Player
  <2>6. p.hp <= players[Sender].hp /\ p.mp <= players[Sender].mp
    BY <2>4, <2>5, PlayerFields
  <2> QED
    BY <1>0, <2>1, <2>3, <2>5, <2>6, OnlyWorse
<1>5. CASE Logout
  <2>1. Sender \in Sessions /\ players' = [players EXCEPT ![Sender] = Absent]
    BY <1>0, <1>5, HandlingCommand DEF Logout
  <2>2. players'[s] = players[s]
    BY <1>0, <2>1 DEF TypeOK, On, Absent
  <2> QED
    BY <1>1, <2>2
<1>6. ASSUME NEW d \in Sessions, On(d), NEW n \in Nat,
             players' = [players EXCEPT ![d] =
               [players[d] EXCEPT !.hp = Hurt(players[d].hp, n)]]
      PROVE  players'[s].hp <= players[s].hp /\ players'[s].mp <= players[s].mp
  <2>1. PICK p : p = [players[d] EXCEPT !.hp = Hurt(players[d].hp, n)]
    OBVIOUS
  <2>2. players[d] \in Player /\ players[d].hp \in 0..StartHp /\ players[d].mp \in 0..StartMp
    BY <1>0, <1>6, PlayerOn, PlayerFields
  <2>3. /\ Hurt(players[d].hp, n) \in 0..StartHp
        /\ Hurt(players[d].hp, n) <= players[d].hp
    BY <2>2, Capacities DEF Hurt
  <2>4. p \in Player /\ p.hp = Hurt(players[d].hp, n) /\ p.mp = players[d].mp
    BY <2>1, <2>2, <2>3, PlayerFields DEF Player
  <2>5. p.hp <= players[d].hp /\ p.mp <= players[d].mp
    BY <2>2, <2>3, <2>4
  <2> QED
    BY <1>0, <1>6, <2>1, <2>4, <2>5, OnlyWorse
<1>7. CASE Strike /\ players' # players
  <2>1. PICK a : a = Head(attacks)
    OBVIOUS
  <2>2. PICK n : n = 5 + (tick % 4)
    OBVIOUS
  <2>3. a.defender \in Sessions /\ n \in Nat
    BY <1>0, <1>7, <2>1, <2>2, Blow DEF Strike, Resolving
  <2>4. /\ On(a.defender)
        /\ players' = [players EXCEPT ![a.defender] =
             [players[a.defender] EXCEPT !.hp = Hurt(players[a.defender].hp, n)]]
    BY <1>7, <2>1, <2>2 DEF Strike
  <2> QED
    BY <1>6, <2>3, <2>4
<1>8. CASE Pay /\ players' # players
  <2>1. PICK d \in Sessions : d = Head(casts).session
    <3>1. Head(casts) \in CastCommands
      BY <1>0, <1>8, HeadTailProperties DEF TypeOK, Pay, Resolving
    <3> QED
      BY <3>1 DEF CastCommands
  <2>2. PICK p : p = [players[d] EXCEPT !.mp = players[d].mp - SkillCost]
    OBVIOUS
  <2>3. /\ On(d) /\ players[d].mp >= SkillCost
        /\ players' = [players EXCEPT ![d] = p]
    BY <1>8, <2>1, <2>2 DEF Pay
  <2>4. players[d] \in Player /\ players[d].hp \in 0..StartHp /\ players[d].mp \in 0..StartMp
    BY <1>0, <2>3, PlayerOn, PlayerFields
  <2>5. players[d].mp - SkillCost \in 0..StartMp /\ players[d].mp - SkillCost <= players[d].mp
    BY <2>3, <2>4, Capacities DEF SkillCost
  <2>6. p \in Player /\ p.hp = players[d].hp /\ p.mp = players[d].mp - SkillCost
    BY <2>2, <2>4, <2>5, PlayerFields DEF Player
  <2>7. p.hp <= players[d].hp /\ p.mp <= players[d].mp
    BY <2>4, <2>5, <2>6
  <2> QED
    BY <1>0, <2>3, <2>6, <2>7, OnlyWorse
<1>9. CASE Cast /\ players' # players
  <2>1. PICK cast : cast = Head(paid)
    OBVIOUS
  <2>2. /\ On(cast.target) /\ cast.target # NoTarget
        /\ players' = [players EXCEPT ![cast.target] =
             [players[cast.target] EXCEPT !.hp = Hurt(players[cast.target].hp, cast.damage)]]
    BY <1>9, <2>1 DEF Cast
  <2>3. cast.target \in Sessions /\ cast.damage \in Nat
    BY <1>0, <1>9, <2>1, <2>2, Skill DEF Cast, Resolving
  <2> QED
    BY <1>6, <2>2, <2>3
<1>10. CASE UNCHANGED vars \/ Tick \/ Say \/ Attack \/ CastSkill \/ ItemCommand \/ NpcInteraction
  BY <1>2, <1>10 DEF vars, Tick, Say, Attack, CastSkill, ItemCommand, NpcInteraction
<1>11. CASE Movement \/ Resolved \/ Ai \/ Aoi \/ Inventory \/ Flush
  BY <1>2, <1>11 DEF Movement, Resolved, Ai, Aoi, Inventory, Flush
<1>12. CASE OutboundWorker \/ (\E cmd \in Commands : Deliver(cmd))
            \/ (\E ok \in BOOLEAN : PersistWorker(ok))
  BY <1>2, <1>12 DEF OutboundWorker, Deliver, PersistWorker
<1> QED
  BY <1>2, <1>3, <1>4, <1>5, <1>7, <1>8, <1>9, <1>10, <1>11, <1>12 DEF Next, MapTask, Input

-----------------------------------------------------------------------------
\* The theorems.

\* The inductive invariant: the loop's types, what is emitted first, which
\* events wait, and where health and positions are known.
THEOREM MapInvariant == Spec => []MapInv
<1>1. Init => MapInv
  BY InitKeeps
<1>2. MapInv /\ [Next]_vars => MapInv'
  BY StepKeeps
<1> QED
  BY <1>1, <1>2, PTL DEF Spec

\* The loop's state keeps its types, its channels their capacities and players
\* their bounds of health and mana.
THEOREM MapTypes == Spec => []TypeOK
<1>1. MapInv => TypeOK
  BY DEF MapInv
<1> QED
  BY <1>1, MapInvariant, PTL

\* Combat and skills (lib.rs, system_combat and system_skills): every loss of
\* health has been announced, or is what the map announces next.
THEOREM DamageIsReported == Spec => []DamageReported
<1>1. MapInv => DamageReported
  BY DEF MapInv
<1> QED
  BY <1>1, MapInvariant, PTL

\* Moves and the persistence worker: the database ends at the place of the last
\* move under a character's name unless it refused the save.
THEOREM PositionsAreSaved == Spec => []PositionsSaved
<1>1. MapInv => PositionsSaved
  BY PlacesSaved DEF MapInv
<1> QED
  BY <1>1, MapInvariant, PTL

\* NpcInteraction and process_scheduled_events: no event waits for a tick that
\* has begun.
THEOREM NoEventIsStranded == Spec => []NoStrandedEvent
<1>1. MapInv => NoStrandedEvent
  BY DEF MapInv, EventsOK, NoStrandedEvent
<1> QED
  BY <1>1, MapInvariant, PTL

\* EnterWorld with or_insert: whatever a session on the map does, its health and
\* mana never rise.
THEOREM ReenteringDoesNotHeal == Spec => ReenterDoesNotHeal
<1>1. MapInv /\ [Next]_vars =>
        [\A s \in Sessions : On(s) /\ On(s)' =>
           players'[s].hp <= players[s].hp /\ players'[s].mp <= players[s].mp]_vars
  BY NobodyHeals
<1> QED
  BY <1>1, MapInvariant, PTL DEF Spec, ReenterDoesNotHeal

=============================================================================
