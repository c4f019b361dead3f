CONSTANTS
    beating = beating
    single = single
    Client <- MCClient
    Beating = {beating}
    MaxMessages = 2
    Timeout = 1
    MaxSends = 4
    MaxTime = 3
SPECIFICATION Spec
INVARIANTS ExecutedOnceInOrder NoFalseWarning
PROPERTIES DisconnectedMeansSilence CommandIsExecuted
