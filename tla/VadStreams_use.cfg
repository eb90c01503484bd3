SPECIFICATION VadSpec
CONSTANTS
  MaxTurns = 2
  MaxStreams = 1
  NoTurn = NoTurn
INVARIANTS
  VoiceIsBalanced
PROPERTIES
  GoneClientsFreeTheModel
CHECK_DEADLOCK FALSE
