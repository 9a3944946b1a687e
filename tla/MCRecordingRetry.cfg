SPECIFICATION Spec
CONSTANTS
    MaxSessions = 2
    None = None
PROPERTIES
    NoRecorderAfterStop
CHECK_DEADLOCK FALSE
