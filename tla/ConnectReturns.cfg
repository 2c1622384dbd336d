CONSTANTS
    MaxRetry <- MCMaxRetry
    HubRejects <- HubMayReject
SPECIFICATION Spec
PROPERTIES
    ConnectReturns
