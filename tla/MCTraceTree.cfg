\* Every small batch, acyclic or not.
SPECIFICATION Spec
CONSTANTS
  Cases <- Batches
  MaxColumn = 9
  Placeholder = 5
  StackLimit = 5
INVARIANTS
  TypeOK
  EverySpanDrawnOnce
  RowsFormTree
  DurationsLineUp
  HeaderDescribesRows
  GateKeepsWholeTraces
  OnlyCyclesOverflow
  ResourcesListed
  OffsetsFitExtent

  
