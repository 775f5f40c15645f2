SPECIFICATION LiveSpec
CONSTANTS
    None = None
INVARIANTS
    ProcessesTell
PROPERTIES
    WorkGoesOn
CHECK_DEADLOCK FALSE
