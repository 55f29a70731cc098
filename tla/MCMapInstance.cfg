CONSTANTS
  s1 = s1
  s2 = s2
  c1 = c1
  Sessions = {s1, s2}
  Characters = {c1}
  NoCharacter = NoCharacter
  NoTarget = NoTarget
  Positions = {0, 1}
  Spawn = 0
  Commands <- SkirmishCommands
  StartHp = 6
  StartMp = 10
  RxCapacity = 2
  Budget = 2
  OutboundCapacity = 1
  PersistCapacity = 1
  TickPeriod = 4
  AiPeriod = 4
  AoiPeriod = 2

SPECIFICATION Spec
INVARIANTS
  TypeOK
  DamageReported
PROPERTIES
  ReenterDoesNotHeal
