SPECIFICATION FairSpec
CONSTANTS
    ignSetPage = ignSetPage
    boostvvtPage = boostvvtPage
    fuelMap2Page = fuelMap2Page
    Page = {ignSetPage, boostvvtPage, fuelMap2Page}
    Order <- MCOrder
    Layout <- MCLayout
    EEPROM_MAX_WRITE_BLOCK = 1
    CURRENT_DATA_VERSION = 5
    Update <- MCUpdate
    InitialVersions = {1, 3, 6, 255}
    Filter <- MCFilter
    Address <- MCAddress
    Tunings <- MCTunings
    HostWaits = TRUE
INVARIANTS BurnIsComplete UpdatesAreKept
PROPERTY BurnEventuallyDone
