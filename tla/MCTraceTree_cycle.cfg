\* Two spans that name each other as parent.
SPECIFICATION Spec
CONSTANTS
  Cases <- MutualParents
  MaxColumn = 9
  Placeholder = 5
  StackLimit = 5
INVARIANT NeverDies
