SPECIFICATION PhoneFairSpec
CONSTANTS
  MaxStreams = 2
  MaxSent = 2
  Limit = 1
  MaxAudio = 1
  MaxTaps = 2
INVARIANTS
  VoiceIsSound
PROPERTIES
  RecordingGoesOn
  StoppedTracksAreReleased
CHECK_DEADLOCK FALSE
