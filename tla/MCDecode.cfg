\* every layout of sound and damaged requests, in both encodings, and what is printed
SPECIFICATION PipelineSpec
CONSTANTS
  Requests <- Exports
  AsText <- AnyValueString
  BodyOf <- Export
  Half = 32
  MaxTime = 8191
  Lost = 3
  NaNTime = 5
  Ten = 2
  Sixty = 3
  Day = 2000
  MaxNames = 1
  Configs <- CommandLines
INVARIANTS TypeOK ProtoMeansRequest JSONMeansRequest BrokenIsRejected
  FloatTimesStayClose OneLinePerItem StreamStaysJSON DurationsReadBack AttributesSurvive
CHECK_DEADLOCK FALSE
