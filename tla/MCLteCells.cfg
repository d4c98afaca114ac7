SPECIFICATION Spec
CONSTANTS
    numberOfNodes = 3
    MaxDatagrams = 1
INVARIANT AttachedOnce
CHECK_DEADLOCK FALSE
