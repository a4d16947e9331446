CONSTANTS
    INJ_CHANNELS = 4
    RoundTicks = 2
    Settings <- ThreeCylinders
SPECIFICATION Spec
INVARIANTS
    SparkIsOnTime
