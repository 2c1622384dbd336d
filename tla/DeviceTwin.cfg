CONSTANTS
    Documents <- MCDocuments
    Temperature <- ShippedTemperature
SPECIFICATION Spec
CHECK_DEADLOCK FALSE
INVARIANTS
    TypeOK
    FreeMeansApplied
    ActsAsReported
PROPERTIES
    HeartbeatKeepsComing
    HeatingWins
    ImplementsTwinRegister
