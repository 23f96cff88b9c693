CONSTANTS
  p = p
  q = q
  dir = dir
  file = file
  both = both
  Proc = {p, q}
  Root = root
  Path = {root, dir, file, both}
  Parent <- MCParent
  Dot = dot
  Own <- OwnPaths
  Shared = {both}
  Ops = {"crash"}
SPECIFICATION Spec
INVARIANTS ListedExists UnlistedIsUnfinished RemembersOwn
PROPERTY IsTree
CHECK_DEADLOCK FALSE
