SPECIFICATION SessionFairSpec
CONSTANTS
  Window = 2
  MaxEvents = 4
  MaxFailures = 2
INVARIANTS
  SessionIsSound
PROPERTIES
  ImplementsDelivery
  ClientsComeBack
  SessionsExpire
CHECK_DEADLOCK FALSE
