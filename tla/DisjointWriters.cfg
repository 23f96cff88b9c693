CONSTANTS
  p = p
  q = q
  Proc = {p, q}
  i0 = i0
  i1 = i1
  Instance = {i0, i1}
  Home <- MCHome
  Segment <- MCSegment
  StripeSize = 3
  InitialCap = 2
  MaxStripe = 1
  Byte = {z, a}
  Zero = z
  NoByte = none
  Ops = {"write", "sparse", "read", "size"}
SPECIFICATION DSpec
VIEW NoHistory
INVARIANTS NoLostWrite SizeBracket
PROPERTY ReadsOwnWrites
CHECK_DEADLOCK FALSE
