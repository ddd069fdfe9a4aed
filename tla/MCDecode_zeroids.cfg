\* a protobuf parent id of eight zero bytes is kept as a parent
SPECIFICATION PipelineSpec
CONSTANTS
  Requests <- OneRoot
  AsText <- AnyValueString
  BodyOf <- ZeroParent
  Half = 16
  MaxTime = 8191
  Lost = 3
  NaNTime = 5
  Ten = 2
  Sixty = 3
  Day = 2000
  MaxNames = 1
  Configs <- CommandLines
INVARIANT RootsHaveNoParent
CHECK_DEADLOCK FALSE
