SPECIFICATION Spec
CONSTANTS
    MaxCrashes <- OneCrash
PROPERTIES
    ReapsOnlyInactive
CHECK_DEADLOCK FALSE
