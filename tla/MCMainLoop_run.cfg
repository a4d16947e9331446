CONSTANTS
    INJ_CHANNELS = 4
    RoundTicks = 2
    Settings <- EveryEngine
    Speeds <- MCSpeeds
    Loads <- MCLoads
    FirstMap <- MCFirstMap
    SpeedBins <- MCSpeedBins
    LoadBins <- MCLoadBins
    TunedCells <- MCTunedCells
    Values <- MCValues
    IntSize = 65536
    Inputs <- MCInputs
    AxisX <- MCAxisX
    FirstCurve <- MCFirstCurve
    TunedBins <- MCTunedBins
    CurveValues <- MCCurveValues
    SeclSize = 4
    Throttles <- MCThrottles
    Amounts <- MCAmounts
    taeThresh = 2
    aeTime = 5
    Reading = 3
    LoopTicks = 2
    ClockSize = 16
    egoCount = 3
    egoLimit = 2
    ByteSize = 4
SPECIFICATION LoopSpec
INVARIANTS
    OtherSparksAreOnTime
    InjectorClosesOnTime
    EveryChannelFires
    OneChargePerCoil
    LookupHasNoMemory
    LookupIsOnTheSurface
PROPERTIES
    ValueIsOnRecentCurve
    EnrichmentLastsItsTime
    LeanIsCorrected
