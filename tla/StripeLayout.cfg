\* stripes of 3 bytes, a slice that is full after 2 stripes and again after 8
CONSTANTS
  StripeSize = 3
  InitialCap = 2
  MaxOff = 7
  MaxLen = 20
SPECIFICATION LoopSpec
INVARIANTS EachByteOnce IsLayout
CHECK_DEADLOCK FALSE
