SPECIFICATION Spec
CONSTANTS
    Delays = {0, 1}
    MaxEvents = 7
PROPERTIES RemoveNextIsEarliest
CHECK_DEADLOCK FALSE
