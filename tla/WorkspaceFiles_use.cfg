SPECIFICATION FilesSpec
CONSTANTS
  t1 = t1
  t2 = t2
  b1 = b1
  e1 = e1
  e2 = e2
  e3 = e3
  Texts <- TwoTexts
  Binaries <- OneBinary
  Executions <- ThreeExecutions
  Absent = Absent
  Link = Link
  Outside = Outside
  Torn = Torn
  Partial = Partial
  NoExecution = NoExecution
  MaxCalls = 3
  MaxEdits = 2
  MaxFaults = 1
SYMMETRY Symmetry
INVARIANTS
  WorkspaceIsSound
PROPERTIES
  RollbacksUndo
CHECK_DEADLOCK FALSE
