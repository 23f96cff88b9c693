SPECIFICATION Spec
CONSTANTS
  Inputs <- MCInputs
  Options <- MCOptions
  BufSize = 3
  RemoteRate = 1
  MaxTarget = 2
INVARIANTS
  InOrder
  Complete
  WithinLimits
PROPERTY
  Ends
CHECK_DEADLOCK FALSE
