CONSTANTS
  Thread = {t1, t2}
  Fd = {f1, f2}
  Path = {file}
  NoFile = nofile
  NoFd = nofd
  MaxSize = 3
  Vectors <- SomeVectors
SYMMETRY Same
SPECIFICATION Spec
INVARIANTS RoutesRight TwinsKept NoPanic
PROPERTY IsDescriptors
