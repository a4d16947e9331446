SPECIFICATION FairSpec
CONSTANTS
    Channel = {1, 2}
    Coil = {1}
    Drives <- SharedCoil
    Period = 3
    ClockPeriod = 3
    Timeouts = {1}
    Durations = {2}
    ToothLeads = {}
    TornTicks = {}
    DwellLimit = 1
    UseDwellLim = TRUE
    PerToothIgn = FALSE
INVARIANT ChargingIsServed
PROPERTY CoilsEventuallyDischarge
