SPECIFICATION Spec
CONSTANTS
  a = a
  b = b
  None = None
  Contexts <- TwoContexts
  TargetLists <- OneList
  Keys = {1, 2}
  Limits = {1}
  IgnoresLimit <- JustA
  MaxVersion = 1
  MaxLosses = 0
INVARIANT
  CompleteListIsASnapshot
CHECK_DEADLOCK FALSE
