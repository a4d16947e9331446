SPECIFICATION Spec
CONSTANTS
    Channel = {3}
    Coil = {3}
    Drives <- OwnCoil
    Period = 4
    ClockPeriod = 4
    Timeouts = {1, 2}
    Durations = {1, 2}
    ToothLeads = {1}
    TornTicks = {0}
    DwellLimit = 3
    UseDwellLim = FALSE
    PerToothIgn = TRUE
PROPERTY ImplementsPulseRequests
