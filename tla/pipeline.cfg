SPECIFICATION FairSpec
CONSTANTS
    Configs <- AllConfigs
    MaxEvents = 2
    MaxThrows = 2
INVARIANTS TypeOK LeftOnlyByUnregisteredHooks UnheardOnlyFromBehind MessageIsReleased
PROPERTIES LifeInOrder EventsEnd ClosedIsDeregistered ImplementsDirectory
CHECK_DEADLOCK FALSE
