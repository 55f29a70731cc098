CONSTANTS
  Maps = {m1}
  Sessions = {s1}
  Channels = {c1, c2}
  Askers = {h1, h2}
  NoMap = NoMap
  NoChannel = NoChannel
  NoHandler = NoHandler
  InboxCapacity = 1
  MapCapacity = 1

SPECIFICATION RTFairSpec
INVARIANTS
  RTTypeOK
  NoOrphanSender
  OneOwnerPerTask
PROPERTIES
  
  RequestsEnd
  StatsAnswered
