\* sendspan, the sink, and another client.
SPECIFICATION ExporterSpec
CONSTANTS
  p1 = p1
  p2 = p2
  p3 = p3
  Requests = {p1, p2, p3, other}
  Posts <- Loop
  Shapes <- AllShapes
  MaxBody = 2
  MaxInt = 7
  NoOne = NoOne
INVARIANTS ExporterTypeOK DeliveredMeansShown FailureIsAPrefix
PROPERTY ExporterEnds
