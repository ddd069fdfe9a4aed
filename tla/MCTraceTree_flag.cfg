\* A child whose parent the service filter hides.
SPECIFICATION Spec
CONSTANTS
  Cases <- HiddenParent
  MaxColumn = 9
  Placeholder = 5
  StackLimit = 5
INVARIANT FlagIsTrue
