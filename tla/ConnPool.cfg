CONSTANTS
  Goroutine = {g1, g2, g3}
  Conn = {c1, c2}
  NoConn = none
  MaxActive = 2
  MaxIdle = 1
  MaxPending = 2
SPECIFICATION FairSpec
INVARIANTS TypeOK TokensKept ActiveCounts OnePlace IdleIsClean RepliesMatch
PROPERTY WaitersGoOn
