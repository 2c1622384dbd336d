CONSTANTS
    Strings <- MCStrings
    Overlong <- MCOverlong
    Empty <- MCEmpty
    Cut <- MCCut
    Room <- MCRoom
    Spoilt <- MCSpoilt
    Lines <- MCLines
    Pems <- MCPems
    QueueSize <- MCQueueSize
    MaxTyped <- MCMaxTypedLonger
    MaxPowerCuts <- MCMaxPowerCuts
SPECIFICATION Spec
CHECK_DEADLOCK FALSE
PROPERTIES
    CredentialNeverErased
