CONSTANTS
    ClockPeriod = 4
    StepTime = 1
    FullSteps = 2
    Seconds = 6
    MaxPowerUps = 1
    Settings <- EverySetting
SPECIFICATION Spec
INVARIANTS
    SolenoidStaysOff
PROPERTIES
    PumpStops
    MotorReachesTarget
