SPECIFICATION Spec
CONSTANTS
  s1 = s1
  s2 = s2
  e1 = e1
  e2 = e2
  e3 = e3
  NoExecution = NoExecution
  Sessions <- TwoSessions
  Executions <- TwoExecutions
  MaxToolRounds = 1
SYMMETRY Symmetry
INVARIANTS
  RowsAreSound
  EffectsAreSound
  ToolRoundsAreBounded
