CONSTANTS
  Proc = {p, q}
  Instance = {i0, i1}
  i0 = i0
  i1 = i1
  StripeSize = 2
  InitialCap = 2
  MaxStripe = 1
  Home <- MCHome
  Byte = {z}
  Zero = z
  NoByte = none
  Ops = {"write", "sparse", "remove", "shrink", "grow", "growpart", "crash"}
SPECIFICATION Spec
SYMMETRY Symmetry
VIEW NoHistory
INVARIANTS TypeOK RegisteredIsStored
CHECK_DEADLOCK FALSE
