SPECIFICATION CrankingSpec
CONSTANTS
    Long = 15000
    Advances = {1, 9, 10, 17, 18, 25, 30, 40}
    InitialFilter = 1
    MaxRevolutions = 3
    MaxLosses = 1
    Configs <- MazdaConfig
    Paces = {9, 10}
    FaultsOf <- Nothing
    StartsOf <- MCStartsOf
    MaxTrouble = 0
PROPERTY EventuallySyncs
