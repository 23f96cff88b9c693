CONSTANTS
  Proc = {p}
  Instance = {i0, i1}
  i0 = i0
  i1 = i1
  StripeSize = 2
  InitialCap = 3
  MaxStripe = 2
  Home <- MCHome
  Byte = {z, a}
  Zero = z
  NoByte = none
  Ops = {"write", "read", "remove", "size", "shrink", "grow"}
SPECIFICATION Spec
INVARIANT StoredIsFound
PROPERTY IsFlatFile
CHECK_DEADLOCK FALSE
