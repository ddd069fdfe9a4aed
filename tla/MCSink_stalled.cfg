\* An interrupt while stdout takes no more lines.
SPECIFICATION StalledSink
CONSTANTS
  Requests = {r1}
  Shapes <- OneExport
  MaxBody = 1
  MaxInt = 7
  NoOne = NoOne
  MaxSignals = 2
  NoReport = NoReport
PROPERTY InterruptReports
