SPECIFICATION Spec
CONSTANTS
    HeapSize <- MCHeapSize
    OthersUse <- MCOthersUse
INVARIANTS TypeOK NothingLost HeartbeatIsWhole
PROPERTIES HeartbeatsRecover
CHECK_DEADLOCK FALSE
