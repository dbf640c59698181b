CONSTANTS
  f0 = f0
  f1 = f1
  f2 = f2
  Feature = {f0, f1, f2}
  Initial = {f0}
  Value = {v1, v2}
  Default = v1
  MaxUndo = 2
  MaxEntities = 1
  Name = {main, topic}
  Main = main
  MaxCommits = 4
SPECIFICATION Spec
SYMMETRY IdSymmetry
CONSTRAINT Budget
INVARIANTS
  StoresConsistent
PROPERTIES
  UndoWalksALine
  ConflictsAreExact
  KeepsHistory
CHECK_DEADLOCK FALSE
