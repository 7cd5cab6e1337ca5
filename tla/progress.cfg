SPECIFICATION Spec
INVARIANTS RoundTrips
PROPERTIES ServerEnds RequestsEnd FramesArrive LoopsEnd InvocationEnds
CHECK_DEADLOCK FALSE
