\* One request of every shape: routing, body cap and answers.
SPECIFICATION Spec
CONSTANTS
  Requests = {r1}
  Shapes <- RoutingShapes
  MaxBody = 2
  MaxInt = 7
  NoOne = NoOne
INVARIANTS
  AcceptedIffExportable
  WholeBodyOrNothing
  RefusalsAreDiagnosed
