CONSTANTS
  v1 = v1
  v2 = v2
  p1 = p1
  Text = {v1, v2}
  Name = {p1}
  Replica <- MCReplica
  Hub <- MCHub
  Key <- MCKey
  MaxFeatures = 1
  MaxOps = 3
SPECIFICATION Spec
INVARIANTS
  NoStaleWinner
SYMMETRY ValueSymmetry
CHECK_DEADLOCK FALSE
