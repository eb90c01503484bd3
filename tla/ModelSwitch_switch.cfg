SPECIFICATION FairSpec
CONSTANTS
  t1 = t1
  Requests <- ThreeRequests
  Keys <- ThreeKeys
  Turns <- OneTurn
  Small = Small
  Large = Large
  CacheSize = 2
  NoModel = NoModel
  NoRequest = NoRequest
INVARIANTS
  SwitchIsSound
  RoutesAreServable
PROPERTIES
  TurnsKeepTheirModel
  ReadyIsServed
  FallbackNeedsCleanup
  SwitchesSettle
  TurnsAreAdmitted
