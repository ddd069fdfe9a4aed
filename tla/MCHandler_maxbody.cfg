\* --max-body is the largest int64.
SPECIFICATION Spec
CONSTANTS
  Requests = {r1}
  Shapes <- BusyShapes
  MaxBody = 7
  MaxInt = 7
  NoOne = NoOne
INVARIANT WholeBodyOrNothing
