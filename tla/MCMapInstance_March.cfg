CONSTANTS
  s1 = s1
  s2 = s2
  c1 = c1
  Sessions = {s1, s2}
  Characters = {c1}
  NoCharacter = NoCharacter
  NoTarget = NoTarget
  Positions = {0, 1}
  Spawn = 0
  Commands <- MarchCommands
  StartHp = 1
  StartMp = 0
  RxCapacity = 1
  Budget = 1
  OutboundCapacity = 1
  PersistCapacity = 2
  TickPeriod = 4
  AiPeriod = 4
  AoiPeriod = 2

SPECIFICATION FairSpec
INVARIANTS
  PositionsSaved
  NoStrandedEvent
PROPERTIES
  RxDrains
