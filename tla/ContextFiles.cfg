SPECIFICATION Spec
CONSTANTS
  c1 = c1
  c2 = c2
  None = None
  Names <- ThreeNames
  ProxyNames <- TwoProxyNames
  Options <- TwoOptions
  Sources <- TwoSources
  Commands <- TwoCommands
  MaxStarts = 3
  MaxEdits = 1
CONSTRAINT Undisturbed
INVARIANTS
  NoDanglingContext
  UserContextsSurvive
PROPERTIES
  AddedContextIsServable
  DeleteCleansUp
CHECK_DEADLOCK FALSE
