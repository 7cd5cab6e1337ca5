SPECIFICATION Spec
CONSTANTS
    r1 = r1
    r2 = r2
    w1 = w1
    Inferers = {w1}
    Resetters = {r1}
    MaxConns = 2
    MaxResets = 2
    MaxGeneration = 3
    MaxRequests = 3
    ClosePrompt = FALSE
    Faults = FALSE
    MayClose = FALSE
    Garbled = FALSE
INVARIANTS PolicyOfEpisode
CHECK_DEADLOCK FALSE
