SPECIFICATION RunSpec
CONSTANTS
  t1 = t1
  t2 = t2
  original = original
  rekeyed = rekeyed
  conflicting = conflicting
  k1 = k1
  k2 = k2
  x1 = x1
  x2 = x2
  Threads <- TwoThreads
  Commands <- ThreeCommands
  Tests <- OneTest
  Keys <- TwoKeys
  KeyOf <- KeyTable
  ExecutionIds <- TwoExecutionIds
  ExecutionOf <- ExecutionTable
  RiskOf <- RiskTable
  MaxRequests = 3
  MaxRuns = 1
  NoThread = NoThread
  NoCommand = NoCommand
INVARIANTS
  RecordsAreSound
PROPERTIES
  PromisesAreKept
  RequestsAreAnswered
