CONSTANTS
    Documents <- MCDocuments
    Temperature <- ShippedTemperature
SPECIFICATION Spec
CHECK_DEADLOCK FALSE
INVARIANTS
    RelayFollowsTwin
