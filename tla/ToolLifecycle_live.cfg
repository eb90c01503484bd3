SPECIFICATION FairSpec
CONSTANTS
  s1 = s1
  s2 = s2
  e1 = e1
  e2 = e2
  e3 = e3
  NoExecution = NoExecution
  Sessions <- OneSession
  Executions <- TwoExecutions
  MaxToolRounds = 2
PROPERTIES
  AbandonedRowsAreLeftAlone
  ImplementsMachine
  TurnsEnd
  AbandonedApprovalsAreSwept
