CONSTANTS
  Sessions = {s1}
  Ips = {i1}
  Characters = {ch1, ch2}
  Maps = {m1, m2}
  DefaultMap = m1
  NoSession = NoSession
  NoCharacter = NoCharacter
  NoMap = NoMap
  NoIp = NoIp
  Absent = Absent
  MaxConnectionsPerIp = 1
  InboxCapacity = 3
  MaxRestarts = 1

SPECIFICATION FairSpec
INVARIANTS
  TypeOK
  PresentWasAuthenticated
  NeverOnTwoMaps
  InWorldJustified
  
  LogoutFindsPlayer
  
PROPERTIES
  EntryFrozenInWorld
  EndedSessionsForgotten
CHECK_DEADLOCK FALSE
