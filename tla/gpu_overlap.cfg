SPECIFICATION Spec
INVARIANT OneChildAtATime
CHECK_DEADLOCK FALSE
