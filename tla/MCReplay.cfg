SPECIFICATION ReplaySpec
CONSTANTS
    Micro = 2
    Inputs <- NullInputs
    Random <- RandomBits
    Clock <- Times
CHECK_DEADLOCK FALSE
INVARIANTS WritesJSON
