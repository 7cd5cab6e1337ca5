SPECIFICATION Spec
INVARIANTS ExecutedIsAuthorized LedgerHolds ResearchHolds
CHECK_DEADLOCK FALSE
