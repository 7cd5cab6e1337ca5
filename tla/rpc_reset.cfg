SPECIFICATION Spec
CONSTANTS
    r1 = r1
    r2 = r2
    w1 = w1
    Inferers = {w1}
    Resetters = {r1, r2}
    MaxConns = 3
    MaxResets = 2
    MaxGeneration = 3
    MaxRequests = 3
    ClosePrompt = TRUE
    Faults = FALSE
    MayClose = FALSE
    Garbled = FALSE
SYMMETRY SwapResetters
INVARIANTS PolicyOfEpisode ConnectionsAreCutOff
PROPERTIES AnswersAreCurrent ImplementsRemotePolicy
CHECK_DEADLOCK FALSE
