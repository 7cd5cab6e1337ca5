SPECIFICATION Spec
CONSTANTS
  naive = naive
  aligned = aligned
INVARIANT LiveAgreesWithRecording
PROPERTY PublishedIsOneSample
CONSTRAINT SomeoneMayRead
CHECK_DEADLOCK FALSE
