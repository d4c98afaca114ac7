SPECIFICATION Spec
CONSTANTS
    numberOfNodes = 2
    MaxDatagrams = 1
INVARIANTS
    TypeOK
    AttachedOnce
    NearestCell
    EveryUeReported
CHECK_DEADLOCK FALSE
