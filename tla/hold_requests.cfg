SPECIFICATION Spec
INVARIANT HoldsWereRequested
CHECK_DEADLOCK FALSE
