CONSTANTS
  Node = {n1, n2, n3}
  PerNode = 2
  Again = FALSE
SPECIFICATION Spec
INVARIANTS TypeOK SessionServes FinalizeComplete
PROPERTIES CommandsEnd OrphansStop
