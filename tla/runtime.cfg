SPECIFICATION Spec
INVARIANTS TransportsAreCurrent LegacyEpisodes RowsAreTrue DelayIsDecided
PROPERTIES ImplementsProvider ClientsAreCurrent
CHECK_DEADLOCK FALSE
