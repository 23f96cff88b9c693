SPECIFICATION Spec
CONSTANTS
  Mounts <- MCMounts
  Cwd <- MCCwd
  Size <- MCSize
  Longer <- MCLonger
  PathMax = 4
  Fd = {d0, d1, d2}
  Std = {d0}
  d1 = d1
  d2 = d2
  MaxLen = 2
  Paths <- MCPaths
  Opens <- MCOpens
  Texts <- MCTexts
  Caps = {0, 1, 3}
  BufSiz = 3
INVARIANTS
  PathsResolve
  RightLayer
  NothingLost
  ShortReadExplained
  LineFits
SYMMETRY Symmetry
CHECK_DEADLOCK FALSE
