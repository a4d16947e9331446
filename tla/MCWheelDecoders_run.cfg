SPECIFICATION FairSpec
CONSTANTS
    Long = 15000
    Advances = {1, 9, 10, 17, 18, 25, 30, 40}
    InitialFilter = 1
    MaxRevolutions = 3
    MaxLosses = 1
    Configs <- EveryConfig
    Paces = {9, 10}
    FaultsOf <- MCFaultsOf
    StartsOf <- MCStartsOf
    MaxTrouble = 1
INVARIANTS SyncedAngleIsTrue SpeedIsTrue ToothAngleIsCorrect CheckedToothIsTrue EndToothIsBeforeSpark ReleasedCoilIsDue
PROPERTIES SyncLasts EventuallyRuns
