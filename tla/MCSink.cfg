\* The process from start to exit with two clients and two interrupts.
SPECIFICATION FairSink
CONSTANTS
  Requests = {r1, r2}
  Shapes <- SinkShapes
  MaxBody = 1
  MaxInt = 7
  NoOne = NoOne
  MaxSignals = 2
  NoReport = NoReport
INVARIANTS
  SinkTypeOK
  DrainAnswersEveryone
PROPERTIES
  InterruptReports
  KeepsLedger
