CONSTANTS
  Sessions = {s1}
  Ips = {i1}
  Characters = {ch1}
  Maps = {m1}
  DefaultMap = m1
  NoSession = NoSession
  NoCharacter = NoCharacter
  NoMap = NoMap
  NoIp = NoIp
  Absent = Absent
  MaxConnectionsPerIp = 1
  InboxCapacity = 2
  MaxRestarts = 0

SPECIFICATION FairSpec
PROPERTIES
  EndedSessionsLeaveWorld
CHECK_DEADLOCK FALSE
