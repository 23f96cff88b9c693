SPECIFICATION Spec
CONSTANTS
  Pv = {p, q}
  Height = 4
  Free = Free
  Signals = 2
INVARIANT OwnLine
PROPERTY Settles
CHECK_DEADLOCK FALSE
