\* Concurrent exports that contend for the render lock.
SPECIFICATION FairSpec
CONSTANTS
  Requests = {r1, r2}
  Shapes <- BusyShapes
  MaxBody = 2
  MaxInt = 7
  NoOne = NoOne
INVARIANTS
  TypeOK
  NoInterleaving
  AnswerMatchesOutput
  StatsMatchAccepted
PROPERTY
  SlowClientsBlockNobody
