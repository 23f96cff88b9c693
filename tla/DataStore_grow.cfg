CONSTANTS
  Proc = {p}
  Instance = {i0, i1}
  i0 = i0
  i1 = i1
  StripeSize = 4
  InitialCap = 2
  MaxStripe = 1
  Home <- MCHome
  Byte = {z}
  Zero = z
  NoByte = none
  Ops = {"write", "growpart"}
SPECIFICATION Spec
PROPERTY ResizeReachesSize
CHECK_DEADLOCK FALSE
