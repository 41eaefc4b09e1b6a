SPECIFICATION FairSpec
CONSTANTS
    Configs <- AllConfigs
    MaxAttempts = 5
    MaxUserStarts = 2
INVARIANTS TypeOK OneConnection ConnectedMeansReset
PROPERTIES Reconnects FailureIsFatal DestroyEndsClient
CHECK_DEADLOCK FALSE
