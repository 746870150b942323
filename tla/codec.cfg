SPECIFICATION Spec
CONSTANTS
    Lens = {0, 1, 3, 4}
    MaxInt = 2
    MaxTokens = 6
INVARIANTS
    InStep
    MessagesRecognised
CHECK_DEADLOCK FALSE
