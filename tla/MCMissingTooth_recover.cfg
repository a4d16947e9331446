SPECIFICATION FairSpec
CONSTANTS
    Teeth = 8
    Configs <- EveryConfig
    CamSlot = 3
    InitialFilter = 1
    StallTime = 40
    ToothTimes = {4, 5}
    StgCycles = 1
    Speeds = {"crank", "run", "fast"}
    Faults = {"lost", "noise"}
    MaxTrouble = 2
    MaxRevolutions = 1
    MaxLosses = 1
INVARIANTS SyncedCountIsATooth StagedSyncIsTrue
PROPERTIES TrueSyncLasts EventuallyInSync
