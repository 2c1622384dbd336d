CONSTANTS
    MaxRetry <- MCMaxRetry
    HubRejects <- HubAnswers
SPECIFICATION Spec
INVARIANTS
    TypeOK
    RetryBudget
    FlagFollowsHub
    BudgetRestored
    HubNeedsAssignment
    RollbackSafe
    NobodyStuck
PROPERTIES
    RestartKept
    SetupTerminates
    Recovery
    TrialImageResolved
    RebootHonoured
    UpdateBooted
    ImplementsSupervisor
