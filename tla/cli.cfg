SPECIFICATION Spec
CONSTANTS
    MaxWords = 6
INVARIANTS
    WordsUnderstood
    StatusTells
CHECK_DEADLOCK FALSE
